--------------------------- MODULE FileBufferProofs ---------------------------
(***************************************************************************)
(* Theorems about FileBuffer, for every set of flags, every choice of       *)
(* detectors and any number of compression methods.                        *)
(***************************************************************************)
EXTENDS FileBuffer, SequenceTheorems, FiniteSetTheorems, TLAPS

-----------------------------------------------------------------------------
(* The stack of calls.                                                     *)

Buffers == [call : {"buffer"}, src : {"main", "z", "orig"}, fd : BOOLEAN, size : Sizes,
            at : 1..EndStage, m : {-1, 0, 1}, rv : {-1, 0, 1}, elf : BOOLEAN]
Zmagics == [call : {"zmagic"}, i : Nat, rv : {-1, 0, 1},
            at : {"next", "inner", "open", "orig", "close", "out"}]
Frames == Buffers \cup Zmagics

\* The calls nest as main, zmagic, and under it the decompressed or the original data.
Nested ==
    /\ frames \in Seq(Frames) /\ Len(frames) \in 0..3
    /\ Len(frames) >= 1 => /\ frames[1] \in Buffers /\ frames[1].src = "main"
                           /\ frames[1].at = 1 => frames[1].rv = 0
    /\ Len(frames) >= 2 => /\ frames[1].at = 1 /\ frames[1].rv = 0
                           /\ frames[2] \in Zmagics /\ frames[2].i \in 1..(zmatch + 1)
    /\ Len(frames) = 2 => frames[2].at \notin {"inner", "orig"}
    /\ Len(frames) = 3 => /\ frames[3] \in Buffers /\ frames[2].i <= zmatch
                          /\ frames[3].src = IF frames[2].at = "inner" THEN "z" ELSE "orig"
                          /\ frames[2].at \in {"inner", "orig"}

\* MAGIC_COMPRESS is off while the contents are described, and a buffer is pushed
\* exactly while the original data is.
Saved ==
    /\ Len(frames) <= 1 => compress = config.compress
    /\ Len(frames) >= 2 => config.compress
    /\ Len(frames) = 2 => (frames[2].at \in {"open", "close", "out"} => ~compress /\ frames[2].i <= zmatch)
    /\ Len(frames) = 3 => ~compress
    /\ pushed \in Seq(Seq(Tokens))
    /\ Len(pushed) = IF Len(frames) = 3 /\ frames[2].at = "orig" THEN 1 ELSE 0

Types == /\ config \in Configs /\ zmatch \in Methods /\ buf \in Seq(Tokens)
         /\ compress \in BOOLEAN /\ hadErr \in BOOLEAN /\ silent \in BOOLEAN /\ mute \in BOOLEAN /\ aborted \in BOOLEAN
         /\ result \in {"none", "error", "notfound", "found"}
         /\ Returned => frames = << >>

Stack == Types /\ Nested /\ Saved

\* A set of flags is a record of the four that the pipeline looks at.
LEMMA Constants == config \in Configs => config.compress \in BOOLEAN /\ config.cont \in BOOLEAN
                        /\ config.transp \in BOOLEAN /\ config.mime \in {"no", "type", "enc", "full"}
BY ConfigsAssumption DEF ConfigType

\* The nine detectors and the three stages behind them, as numbers.
LEMMA StageNumbers == Len(Stages) = 9 /\ SimpleStage = 10 /\ DoneStage = 11 /\ EndStage = 12
BY DEF Stages, SimpleStage, DoneStage, EndStage

\* The number of compression methods that match is a natural number.
LEMMA MethodsNat == zmatch \in Methods => zmatch \in Nat
BY InputsAssumption

\* The three ways the stack changes.
LEMMA SetTop ==
    ASSUME NEW S, frames \in Seq(S), frames # << >>, NEW g \in S, Set(g)
    PROVE  /\ frames' \in Seq(S) /\ Len(frames') = Len(frames) /\ frames'[Len(frames)] = g
           /\ \A i \in 1..(Len(frames) - 1) : frames'[i] = frames[i]
BY DEF Set

\* Calling: the caller's frame changes and a new one stands on it.
LEMMA Push ==
    ASSUME NEW S, frames \in Seq(S), frames # << >>, NEW g \in S, NEW h \in S,
           frames' = Append([frames EXCEPT ![Len(frames)] = g], h)
    PROVE  /\ frames' \in Seq(S) /\ Len(frames') = Len(frames) + 1
           /\ frames'[Len(frames)] = g /\ frames'[Len(frames) + 1] = h
           /\ \A i \in 1..(Len(frames) - 1) : frames'[i] = frames[i]
<1> DEFINE e == [frames EXCEPT ![Len(frames)] = g]
<1>1. /\ e \in Seq(S) /\ Len(e) = Len(frames) /\ Len(frames) \in Nat \ {0}
      /\ e[Len(frames)] = g /\ \A i \in 1..(Len(frames) - 1) : e[i] = frames[i]
  OBVIOUS
<1>2. frames' = Append(e, h)
  OBVIOUS
<1> HIDE DEF e
<1> QED
  BY <1>1, <1>2

\* Calling from the only frame there is.
LEMMA FirstPush ==
    ASSUME NEW S, frames \in Seq(S), Len(frames) = 1, NEW h \in S, frames' = Append(frames, h)
    PROVE  /\ frames' \in Seq(S) /\ Len(frames') = 2 /\ frames'[1] = frames[1] /\ frames'[2] = h
OBVIOUS

\* Returning: the frame goes and the caller's changes.
LEMMA PopFrame ==
    ASSUME NEW S, frames \in Seq(S), Len(frames) >= 2, NEW g \in S,
           frames' = Append(SubSeq(frames, 1, Len(frames) - 2), g)
    PROVE  /\ frames' \in Seq(S) /\ Len(frames') = Len(frames) - 1 /\ frames'[Len(frames) - 1] = g
           /\ \A i \in 1..(Len(frames) - 2) : frames'[i] = frames[i]
<1> DEFINE e == SubSeq(frames, 1, Len(frames) - 2)
<1>1. e \in Seq(S) /\ Len(e) = Len(frames) - 2 /\ \A i \in 1..(Len(frames) - 2) : e[i] = frames[i]
  BY SMTT(30)
<1> QED
  BY <1>1

\* A step of file_buffer() that stays in the call.
Work(g) == /\ g \in Buffers /\ g.src = Top.src /\ Set(g)
           /\ UNCHANGED <<config, zmatch, compress, pushed, aborted, result>>

\* While file_buffer() runs, the frame on top is one of its own, the first or the third.
LEMMA TopBuffer ==
    ASSUME Stack, Running("buffer")
    PROVE  /\ Top \in Buffers /\ Len(frames) \in {1, 3} /\ frames \in Seq(Frames) /\ frames # << >>
           /\ result = "none" /\ Top = frames[Len(frames)]
<1>0. frames \in Seq(Frames) /\ frames # << >> /\ Len(frames) \in 0..3
  BY DEF Stack, Nested, Running
<1>3. Len(frames) \in {1, 2, 3}
  BY <1>0
<1>4. result = "none"
  BY <1>0 DEF Stack, Types, Returned
<1>1. /\ Len(frames) \in {1, 2, 3}
      /\ result = "none" /\ Top = frames[Len(frames)] /\ Top.call = "buffer"
  BY <1>3, <1>4 DEF Running, Top
<1>2. /\ \A f \in Buffers : f.call = "buffer"
      /\ \A f \in Zmagics : f.call = "zmagic"
  BY DEF Buffers, Zmagics
<1> QED
  BY <1>0, <1>1, <1>2 DEF Stack, Types, Nested

\* While file_zmagic() runs, its frame is the second of two.
LEMMA TopZmagic ==
    ASSUME Stack, Running("zmagic")
    PROVE  /\ Top \in Zmagics /\ Len(frames) = 2 /\ frames \in Seq(Frames) /\ frames # << >>
           /\ result = "none" /\ Top = frames[2] /\ zmatch \in Nat
<1>0. frames \in Seq(Frames) /\ frames # << >> /\ Len(frames) \in 0..3
  BY DEF Stack, Nested, Running
<1>3. Len(frames) \in {1, 2, 3}
  BY <1>0
<1>4. result = "none"
  BY <1>0 DEF Stack, Types, Returned
<1>1. /\ Len(frames) \in {1, 2, 3}
      /\ result = "none" /\ Top = frames[Len(frames)] /\ Top.call = "zmagic"
  BY <1>3, <1>4 DEF Running, Top
<1>2. /\ \A f \in Buffers : f.call = "buffer"
      /\ \A f \in Zmagics : f.call = "zmagic"
  BY DEF Buffers, Zmagics
<1> QED
  BY <1>0, <1>1, <1>2, MethodsNat DEF Stack, Types, Nested

\* A step inside file_buffer() behind the first stage leaves the stack in order.
LEMMA WorkKeeps ==
    ASSUME Stack, Running("buffer"), NEW g, Work(g), g.at > 1, buf' \in Seq(Tokens),
           hadErr' \in BOOLEAN, silent' \in BOOLEAN, mute' \in BOOLEAN
    PROVE  Stack' /\ frames'[Len(frames')] = g /\ Len(frames') = Len(frames)
           /\ \A i \in 1..(Len(frames) - 1) : frames'[i] = frames[i]
<1>1. /\ Top \in Buffers /\ Len(frames) \in {1, 3} /\ frames \in Seq(Frames) /\ frames # << >>
      /\ result = "none" /\ Top = frames[Len(frames)]
  BY TopBuffer
<1>2. /\ frames' \in Seq(Frames) /\ Len(frames') = Len(frames) /\ frames'[Len(frames)] = g
      /\ \A i \in 1..(Len(frames) - 1) : frames'[i] = frames[i]
  BY <1>1, SetTop DEF Work, Frames
<1>3. Nested'
  <2>1. g \in Buffers /\ g.src = Top.src /\ zmatch' = zmatch /\ g.at # 1
    BY DEF Work, Buffers
  <2>2. CASE Len(frames) = 1
    BY <1>1, <1>2, <2>1, <2>2 DEF Stack, Nested
  <2>3. CASE Len(frames) = 3
    BY <1>1, <1>2, <2>1, <2>3 DEF Stack, Nested
  <2> QED
    BY <1>1, <2>2, <2>3
<1>4. Saved'
  BY SMTT(30), <1>1, <1>2 DEF Stack, Nested, Saved, Work
<1>5. Types'
  BY <1>1 DEF Stack, Types, Work, Returned
<1> QED
  BY <1>2, <1>3, <1>4, <1>5 DEF Stack

\* What the updates of a frame change.
LEMMA FrameUpdates ==
    ASSUME NEW f \in Buffers
    PROVE  /\ \A v \in {-1, 0, 1} :
                /\ [f EXCEPT !.m = v] \in Buffers /\ [f EXCEPT !.m = v].src = f.src
                /\ [f EXCEPT !.m = v].m = v /\ [f EXCEPT !.m = v].rv = f.rv /\ [f EXCEPT !.m = v].at = f.at
                /\ [f EXCEPT !.m = v].elf = f.elf
           /\ \A v \in {-1, 0, 1} :
                /\ [f EXCEPT !.rv = v] \in Buffers /\ [f EXCEPT !.rv = v].src = f.src
                /\ [f EXCEPT !.rv = v].rv = v /\ [f EXCEPT !.rv = v].m = f.m /\ [f EXCEPT !.rv = v].at = f.at
           /\ \A v \in 1..12 :
                /\ [f EXCEPT !.at = v] \in Buffers /\ [f EXCEPT !.at = v].src = f.src
                /\ [f EXCEPT !.at = v].at = v /\ [f EXCEPT !.at = v].m = f.m /\ [f EXCEPT !.at = v].rv = f.rv
           /\ f.at \in 1..12 /\ f.m \in {-1, 0, 1} /\ f.rv \in {-1, 0, 1}
BY StageNumbers DEF Buffers

\* The frame of a detector that failed.
LEMMA FailedFrame ==
    ASSUME NEW f \in Buffers
    PROVE  /\ [f EXCEPT !.m = -1] \in Buffers /\ [f EXCEPT !.m = -1].src = f.src
           /\ [f EXCEPT !.m = -1].m = -1 /\ [f EXCEPT !.m = -1].rv = f.rv /\ [f EXCEPT !.m = -1].at = f.at
BY DEF Buffers

\* The frame of a call that ends with -1.
LEMMA EndedFrame ==
    ASSUME NEW f \in Buffers
    PROVE  LET g == [f EXCEPT !.at = EndStage, !.rv = -1]
           IN  g \in Buffers /\ g.src = f.src /\ g.at = EndStage /\ g.m = f.m /\ g.rv = -1
<1> DEFINE g == [f EXCEPT !.at = EndStage, !.rv = -1]
<1>1. EndStage \in 1..EndStage
  BY StageNumbers
<1>2. g \in Buffers
  BY <1>1 DEF Buffers
<1>3. g.src = f.src /\ g.at = EndStage /\ g.m = f.m
  BY <1>1 DEF Buffers
<1>4. g.rv = -1
  BY <1>1 DEF Buffers
<1> QED
  BY <1>2, <1>3, <1>4

\* The frame after the second look at an ELF file.
LEMMA ElfFrame ==
    ASSUME NEW f \in Buffers, NEW found \in BOOLEAN
    PROVE  LET g == [f EXCEPT !.elf = found, !.rv = IF found THEN 1 ELSE 0]
           IN  g \in Buffers /\ g.src = f.src /\ g.at = f.at /\ g.m = f.m /\ g.rv # -1
<1> DEFINE v == IF found THEN 1 ELSE 0
           g == [f EXCEPT !.elf = found, !.rv = v]
<1>1. v \in {-1, 0, 1} /\ v # -1
  OBVIOUS
<1> HIDE DEF v
<1>2. g \in Buffers
  BY <1>1 DEF Buffers
<1>3. g.src = f.src /\ g.at = f.at /\ g.m = f.m
  BY <1>1 DEF Buffers
<1>4. g.rv = v
  BY <1>1 DEF Buffers
<1> QED
  BY <1>1, <1>2, <1>3, <1>4 DEF v

\* A detector that is passed over moves to the next stage and changes no result.
LEMMA Skips ==
    ASSUME NEW f \in Buffers, f.at \in 1..11
    PROVE  /\ Skip(f) \in Buffers /\ Skip(f).src = f.src /\ Skip(f).at = f.at + 1
           /\ Skip(f).m = f.m /\ Skip(f).rv = f.rv
BY FrameUpdates, f.at + 1 \in 1..12 DEF Skip, Buffers

\* The jump to the label done changes no result.
LEMMA Dones ==
    ASSUME NEW f \in Buffers
    PROVE  /\ Done(f) \in Buffers /\ Done(f).src = f.src /\ Done(f).at = DoneStage
           /\ Done(f).m = f.m /\ Done(f).rv = f.rv
BY FrameUpdates, StageNumbers, DoneStage \in 1..12 DEF Done

\* checkdone() after a description: on with the next stage, or done; without MAGIC_CONTINUE done.
LEMMA CheckdoneFound ==
    ASSUME config \in Configs, NEW f \in Buffers, f.at \in 1..11
    PROVE  /\ Checkdone(f, FALSE) \in Buffers /\ Checkdone(f, FALSE).src = f.src
           /\ Checkdone(f, FALSE).at \in {f.at + 1, DoneStage}
           /\ ~config.cont => Checkdone(f, FALSE).at = DoneStage
           /\ Checkdone(f, FALSE).m = f.m
           /\ Checkdone(f, FALSE).rv = f.rv
<1>1. CASE ~config.cont
  BY <1>1, Dones DEF Checkdone
<1>2. CASE config.cont
  <2> DEFINE g == [f EXCEPT !.rv = IF FALSE THEN -1 ELSE @]
  <2>1. /\ g \in Buffers /\ g.src = f.src /\ g.at = f.at /\ g.m = f.m
        /\ g.rv = f.rv
    BY DEF Buffers
  <2>2. Checkdone(f, FALSE) = Skip(g)
    BY <1>2 DEF Checkdone
  <2> HIDE DEF g
  <2> QED
    BY <2>1, <2>2, <1>2, Skips
<1> QED
  BY <1>1, <1>2, Constants

\* checkdone() whose separator could not be printed goes the same ways.
LEMMA CheckdoneFailed ==
    ASSUME config \in Configs, NEW f \in Buffers, f.at \in 1..11
    PROVE  /\ Checkdone(f, TRUE) \in Buffers /\ Checkdone(f, TRUE).src = f.src
           /\ Checkdone(f, TRUE).at \in {f.at + 1, DoneStage}
           /\ ~config.cont => Checkdone(f, TRUE).at = DoneStage
           /\ Checkdone(f, TRUE).m = f.m
<1>1. CASE ~config.cont
  BY <1>1, Dones DEF Checkdone
<1>2. CASE config.cont
  <2> DEFINE g == [f EXCEPT !.rv = IF TRUE THEN -1 ELSE @]
  <2>1. /\ g \in Buffers /\ g.src = f.src /\ g.at = f.at /\ g.m = f.m
    BY DEF Buffers
  <2>2. Checkdone(f, TRUE) = Skip(g)
    BY <1>2 DEF Checkdone
  <2> HIDE DEF g
  <2> QED
    BY <2>1, <2>2, <1>2, Skips
<1> QED
  BY <1>1, <1>2, Constants

-----------------------------------------------------------------------------
(* What a step of file_buffer() does, whichever it is.                     *)

\* file_vprintf() appends its text or leaves the error flag set.
LEMMA Prints ==
    ASSUME buf \in Seq(Tokens), hadErr \in BOOLEAN, NEW tok \in Seq(Tokens), NEW ok \in BOOLEAN, Printf(tok, ok)
    PROVE  /\ buf' \in Seq(Tokens) /\ hadErr' \in BOOLEAN
           /\ hadErr => hadErr' /\ ok
           /\ ~ok => hadErr'
           /\ ~hadErr' => buf' = buf \o tok
<1>1. << "error" >> \in Seq(Tokens)
  BY DEF Tokens
<1>2. buf \o tok \in Seq(Tokens)
  OBVIOUS
<1> QED
  BY <1>1, <1>2 DEF Printf

\* file_error() leaves the error flag set.
LEMMA Errors ==
    ASSUME buf \in Seq(Tokens), Error
    PROVE  buf' \in Seq(Tokens) /\ hadErr'
<1>1. "error" \in Tokens
  BY DEF Tokens
<1>2. Append(buf, "error") \in Seq(Tokens)
  BY <1>1
<1> QED
  BY <1>2 DEF Error

\* trim_separator() leaves a buffer of the same kind.
LEMMA Trimmed ==
    ASSUME NEW b \in Seq(Tokens)
    PROVE  /\ TrimSep(b) \in Seq(Tokens)
           /\ Append(TrimSep(b), "charset") \in Seq(Tokens)
<1>1. "charset" \in Tokens
  BY DEF Tokens
<1>2. SubSeq(b, 1, Len(b) - 1) \in Seq(Tokens)
  BY SubSeqProperties
<1>3. TrimSep(b) \in Seq(Tokens)
  BY <1>2 DEF TrimSep
<1> QED
  BY <1>1, <1>3

Quiet(g) == /\ buf' = buf /\ g.at # EndStage /\ g.m \in {0, Top.m}
            /\ Top.at <= SimpleStage
            /\ g.at > SimpleStage => Top.m # 0
Says(g) == \E e \in {<< >>, << "elf" >>}, s \in {<< >>, << "sep" >>} :
              /\ buf' = buf \o (Description(Top) \o e \o s)
              /\ s # << >> => config.cont
              /\ Top.at <= SimpleStage /\ g.m = 1 /\ g.at # EndStage
              /\ ~config.cont => g.at = DoneStage
Ends(g) == /\ Top.at = DoneStage /\ g.at = EndStage /\ g.m = Top.m
           /\ buf' = IF config.mime \in {"enc", "full"} THEN Append(TrimSep(buf), "charset") ELSE TrimSep(buf)

Effect(g) ==
    /\ Work(g) /\ buf' \in Seq(Tokens) /\ hadErr' \in BOOLEAN /\ silent' \in BOOLEAN /\ mute' \in BOOLEAN
    /\ hadErr => hadErr'
    /\ silent => silent'
    /\ mute => mute'
    /\ g.at > 1
    /\ g.rv = -1 /\ Top.rv # -1 => hadErr' \/ silent'
    /\ g.m = -1 /\ Top.m # -1 => hadErr' \/ silent'
    /\ g.at = DoneStage => g.m # 0
    /\ g.at = EndStage => g.rv = -1 \/ (Top.at = DoneStage /\ g.m = Top.m)
    /\ hadErr' \/ silent' \/ mute' \/ Quiet(g) \/ Says(g) \/ Ends(g)

\* What a detector prints, the separator and the ELF text are pieces of text; the separator
\* comes only with MAGIC_CONTINUE.
LEMMA Descriptions ==
    ASSUME Stack, Running("buffer")
    PROVE  /\ Description(Top) \in Seq(Tokens) /\ Separator \in Seq(Tokens)
           /\ << "elf" >> \in Seq(Tokens) /\ << >> \in Seq(Tokens)
           /\ Separator \in {<< >>, << "sep" >>} /\ (Separator # << >> => config.cont)
<1>1. Top.src \in Tokens /\ "sep" \in Tokens /\ "elf" \in Tokens
  BY TopBuffer DEF Buffers, Tokens
<1> QED
  BY <1>1 DEF Description, Separator

\* The variables as Stack types them.
LEMMA Typed == Stack => /\ config \in Configs /\ buf \in Seq(Tokens) /\ hadErr \in BOOLEAN
                        /\ silent \in BOOLEAN /\ mute \in BOOLEAN /\ pushed \in Seq(Seq(Tokens))
BY DEF Stack, Types, Saved

\* A stage that is off, or a detector that finds nothing, is a step of the kinds above.
LEMMA QuietStep ==
    ASSUME Stack, StageOff \/ (Zmagic /\ ~compress) \/ \E s \in Detectors : NotFound(s)
    PROVE  Running("buffer") /\ \E g : Effect(g)
<1> USE Typed DEF const
<1>1. Running("buffer") /\ Top.at \in 1..Len(Stages)
  BY DEF StageOff, Zmagic, NotFound, AtStage
<1>2. Top \in Buffers /\ Top.at \in 1..9
  BY <1>1, TopBuffer, StageNumbers
<1>3. CASE StageOff \/ (Zmagic /\ ~compress)
  <2>1. /\ Skip(Top) \in Buffers /\ Skip(Top).src = Top.src /\ Skip(Top).at = Top.at + 1
        /\ Skip(Top).m = Top.m /\ Skip(Top).rv = Top.rv
    BY <1>2, Skips
  <2>2. Set(Skip(Top)) /\ UNCHANGED <<buf, hadErr, silent, mute>>
    BY <1>3 DEF StageOff, Zmagic
  <2>3. Work(Skip(Top))
    BY <1>3, <2>1, <2>2 DEF StageOff, Zmagic, Work
  <2>4. Quiet(Skip(Top))
    BY <1>2, <2>1, <2>2, StageNumbers DEF Quiet
  <2>5. Effect(Skip(Top))
    BY <1>2, <2>1, <2>2, <2>3, <2>4, StageNumbers DEF Effect
  <2> QED
    BY <1>1, <2>5
<1>4. ASSUME NEW s \in Detectors, NotFound(s)
      PROVE  \E g : Effect(g)
  <2> DEFINE f == [Top EXCEPT !.m = 0]
  <2>1. f \in Buffers /\ f.src = Top.src /\ f.m = 0 /\ f.rv = Top.rv /\ f.at = Top.at
    BY <1>2, FrameUpdates
  <2>2. Set(Skip(f)) /\ (Error \/ UNCHANGED <<buf, hadErr>>)
    BY <1>4 DEF NotFound
  <2> HIDE DEF f
  <2>3. /\ Skip(f) \in Buffers /\ Skip(f).src = Top.src /\ Skip(f).at = Top.at + 1
        /\ Skip(f).m = 0 /\ Skip(f).rv = Top.rv
    BY <1>2, <2>1, Skips
  <2>4. Work(Skip(f)) /\ silent' = silent /\ mute' = mute
    BY <1>4, <2>2, <2>3 DEF NotFound, Work
  <2>5. buf' \in Seq(Tokens) /\ (hadErr' \/ UNCHANGED <<buf, hadErr>>) /\ hadErr' \in BOOLEAN
    BY <2>2, Errors
  <2>6. hadErr' \/ Quiet(Skip(f))
    BY <1>2, <2>3, <2>5, StageNumbers DEF Quiet
  <2>7. Effect(Skip(f))
    BY <1>2, <2>3, <2>4, <2>5, <2>6, StageNumbers DEF Effect
  <2> QED
    BY <2>7
<1> QED
  BY <1>1, <1>3, <1>4

\* So is a detector that finds something,
LEMMA FoundStep ==
    ASSUME Stack, NEW s \in Detectors, Found(s)
    PROVE  Running("buffer") /\ \E g : Effect(g)
<1> USE Typed DEF const
<1>1. Running("buffer") /\ Top.at \in 1..Len(Stages)
  BY DEF Found, AtStage
<1>2. Top \in Buffers /\ Top.at \in 1..9
  BY <1>1, TopBuffer, StageNumbers
<1>0. PICK says \in BOOLEAN :
        LET f == [Top EXCEPT !.m = 1]
            text == IF says THEN Description(f) ELSE << >>
            elf == IF s = "soft" /\ f.elf THEN << "elf" >> ELSE << >>
            sep == IF s = "text" THEN << >> ELSE Separator
        IN  /\ mute' = (mute \/ ~says)
            /\ \/ /\ Printf(text \o elf \o sep, TRUE)
                  /\ Set(IF s = "text" THEN Done(f) ELSE Checkdone(f, FALSE))
               \/ ~hadErr /\ Printf(sep, FALSE) /\ Set(Checkdone(f, TRUE))
               \/ ~hadErr /\ Printf(elf, FALSE) /\ Set(Done(f))
  BY DEF Found
<1> DEFINE f == [Top EXCEPT !.m = 1]
           text == IF says THEN Description(f) ELSE << >>
           elf == IF s = "soft" /\ f.elf THEN << "elf" >> ELSE << >>
           sep == IF s = "text" THEN << >> ELSE Separator
<1>3. f \in Buffers /\ f.src = Top.src /\ f.m = 1 /\ f.rv = Top.rv /\ f.at = Top.at
  BY <1>2, FrameUpdates
<1>4. text = IF says THEN Description(Top) ELSE << >>
  BY <1>3 DEF Description
<1>5. /\ Description(Top) \in Seq(Tokens) /\ elf \in Seq(Tokens) /\ sep \in Seq(Tokens)
      /\ elf \in {<< >>, << "elf" >>} /\ sep \in {<< >>, << "sep" >>} /\ (sep # << >> => config.cont)
  BY <1>1, Descriptions
<1>6. /\ UNCHANGED <<config, zmatch, compress, pushed, aborted, result>>
      /\ silent' = silent /\ (mute => mute') /\ mute' \in BOOLEAN /\ (~mute' => says)
      /\ \/ /\ Printf(text \o elf \o sep, TRUE)
            /\ Set(IF s = "text" THEN Done(f) ELSE Checkdone(f, FALSE))
         \/ ~hadErr /\ Printf(sep, FALSE) /\ Set(Checkdone(f, TRUE))
         \/ ~hadErr /\ Printf(elf, FALSE) /\ Set(Done(f))
  BY <1>0 DEF Found
<1> HIDE DEF f, text, elf, sep
<1>7. ASSUME NEW g \in Buffers, Set(g), g.src = f.src, g.m = 1, hadErr', buf' \in Seq(Tokens), hadErr' \in BOOLEAN,
             g.at # EndStage, g.at > 1
      PROVE  Effect(g)
  BY <1>2, <1>3, <1>6, <1>7, StageNumbers DEF Effect, Work
<1>8. CASE /\ Printf(text \o elf \o sep, TRUE)
           /\ Set(IF s = "text" THEN Done(f) ELSE Checkdone(f, FALSE))
  <2> DEFINE g == IF s = "text" THEN Done(f) ELSE Checkdone(f, FALSE)
  <2>1. /\ g \in Buffers /\ g.src = Top.src /\ g.m = 1 /\ g.rv = Top.rv /\ g.at # EndStage /\ g.at > 1
        /\ ~config.cont => g.at = DoneStage
    <3>1. CASE s = "text"
      BY <1>3, <3>1, Dones, StageNumbers
    <3>2. CASE s # "text"
      <4>1. config \in Configs /\ f \in Buffers /\ f.at \in 1..11
        BY <1>2, <1>3
      <4>2. /\ Checkdone(f, FALSE) \in Buffers /\ Checkdone(f, FALSE).src = f.src
            /\ Checkdone(f, FALSE).at \in {f.at + 1, DoneStage}
            /\ ~config.cont => Checkdone(f, FALSE).at = DoneStage
            /\ Checkdone(f, FALSE).m = f.m
            /\ Checkdone(f, FALSE).rv = f.rv
        BY <4>1, CheckdoneFound, Zenon
      <4>3. g = Checkdone(f, FALSE)
        BY <3>2
      <4> HIDE DEF g
      <4>4. /\ g \in Buffers /\ g.src = f.src /\ g.at \in {f.at + 1, DoneStage}
            /\ (~config.cont => g.at = DoneStage) /\ g.m = f.m /\ g.rv = f.rv
        BY <4>2, <4>3, Zenon
      <4> QED
        BY <1>2, <1>3, <4>4, StageNumbers
    <3> QED
      BY <3>1, <3>2
  <2>2. Set(g)
    BY <1>8
  <2> HIDE DEF g
  <2>3. Work(g)
    BY <1>6, <2>1, <2>2 DEF Work
  <2>5. text \o elf \o sep \in Seq(Tokens)
    BY <1>4, <1>5
  <2>6. /\ buf' \in Seq(Tokens) /\ hadErr' \in BOOLEAN /\ (hadErr => hadErr')
        /\ ~hadErr' /\ ~mute' => buf' = buf \o (Description(Top) \o elf \o sep)
    BY <1>4, <1>6, <1>8, <2>5, Prints
  <2>7. ASSUME ~hadErr', ~mute' PROVE Says(g)
    <3>1. /\ Top.at <= SimpleStage /\ g.m = 1 /\ g.at # EndStage
          /\ ~config.cont => g.at = DoneStage
      BY <1>2, <2>1, StageNumbers
    <3>2. buf' = buf \o (Description(Top) \o elf \o sep) /\ (sep # << >> => config.cont)
      BY <1>5, <2>6, <2>7
    <3>3. elf \in {<< >>, << "elf" >>} /\ sep \in {<< >>, << "sep" >>}
      BY <1>5
    <3> QED
      BY <3>1, <3>2, <3>3, Zenon DEF Says
  <2>8. Effect(g)
    BY <1>6, <2>1, <2>3, <2>6, <2>7, StageNumbers DEF Effect
  <2> QED
    BY <1>1, <2>8
<1>9. CASE ~hadErr /\ Printf(sep, FALSE) /\ Set(Checkdone(f, TRUE))
  <2>1. hadErr' /\ buf' \in Seq(Tokens) /\ hadErr' \in BOOLEAN
    BY <1>5, <1>9, Prints
  <2>2. /\ Checkdone(f, TRUE) \in Buffers /\ Checkdone(f, TRUE).src = f.src /\ Checkdone(f, TRUE).m = 1
        /\ Checkdone(f, TRUE).at # EndStage /\ Checkdone(f, TRUE).at > 1
    <3>1. config \in Configs /\ f \in Buffers /\ f.at \in 1..11
      BY <1>2, <1>3
    <3>2. /\ Checkdone(f, TRUE) \in Buffers /\ Checkdone(f, TRUE).src = f.src
          /\ Checkdone(f, TRUE).at \in {f.at + 1, DoneStage}
          /\ ~config.cont => Checkdone(f, TRUE).at = DoneStage
          /\ Checkdone(f, TRUE).m = f.m
      BY <3>1, CheckdoneFailed, Zenon
    <3> DEFINE g == Checkdone(f, TRUE)
    <3>3. /\ g \in Buffers /\ g.src = f.src /\ g.at \in {f.at + 1, DoneStage} /\ g.m = f.m
      BY <3>2, Zenon
    <3> HIDE DEF g
    <3>4. g \in Buffers /\ g.src = f.src /\ g.m = 1 /\ g.at # EndStage /\ g.at > 1
      BY <1>2, <1>3, <3>3, StageNumbers
    <3> QED
      BY <3>4, Zenon DEF g
  <2>3. Effect(Checkdone(f, TRUE))
    BY <1>7, <1>9, <2>1, <2>2
  <2> QED
    BY <1>1, <2>3
<1>10. CASE ~hadErr /\ Printf(elf, FALSE) /\ Set(Done(f))
  <2>1. hadErr' /\ buf' \in Seq(Tokens) /\ hadErr' \in BOOLEAN
    BY <1>5, <1>10, Prints
  <2>2. /\ Done(f) \in Buffers /\ Done(f).src = f.src /\ Done(f).m = 1 /\ Done(f).at # EndStage /\ Done(f).at > 1
    BY <1>3, Dones, StageNumbers
  <2>3. Effect(Done(f))
    BY <1>7, <1>10, <2>1, <2>2
  <2> QED
    BY <1>1, <2>3
<1> QED
  BY <1>6, <1>8, <1>9, <1>10

\* one that fails,
LEMMA FailedStep ==
    ASSUME Stack, \E s \in Detectors : Failed(s) \/ FailedSilently(s)
    PROVE  Running("buffer") /\ \E g : Effect(g)
<1> USE Typed DEF const
<1>1. Running("buffer") /\ Top.at \in 1..Len(Stages)
  BY DEF FailedSilently, Failed, AtStage
<1>2. Top \in Buffers /\ Top.at \in 1..9
  BY <1>1, TopBuffer, StageNumbers
<1> DEFINE f == [Top EXCEPT !.m = -1]
<1>3. f \in Buffers /\ f.src = Top.src /\ f.m = -1 /\ f.rv = Top.rv /\ f.at \in 1..9
  BY <1>2, FailedFrame
<1>4. PICK g \in {Done(f), Checkdone(f, FALSE)} :
        /\ Set(g) /\ UNCHANGED <<config, zmatch, compress, pushed, aborted, result>>
        /\ mute' = mute
        /\ \/ Error /\ silent' = silent
           \/ silent' /\ silent' \in BOOLEAN /\ Printf(Description(Top), TRUE)
           \/ silent' /\ silent' \in BOOLEAN /\ UNCHANGED <<buf, hadErr>>
  BY DEF FailedSilently, Failed
<1> HIDE DEF f
<1>5. /\ g \in Buffers /\ g.src = Top.src /\ g.m = -1 /\ g.rv = Top.rv /\ g.at # EndStage /\ g.at > 1
  <2>1. CASE g = Done(f)
    BY <1>3, <2>1, Dones, StageNumbers
  <2>2. CASE g = Checkdone(f, FALSE)
    <3>1. config \in Configs /\ f \in Buffers /\ f.at \in 1..11
      BY <1>3
    <3>2. /\ Checkdone(f, FALSE) \in Buffers /\ Checkdone(f, FALSE).src = f.src
          /\ Checkdone(f, FALSE).at \in {f.at + 1, DoneStage}
          /\ ~config.cont => Checkdone(f, FALSE).at = DoneStage
          /\ Checkdone(f, FALSE).m = f.m
          /\ Checkdone(f, FALSE).rv = f.rv
      BY <3>1, CheckdoneFound, Zenon
    <3>3. /\ g \in Buffers /\ g.src = f.src /\ g.at \in {f.at + 1, DoneStage} /\ g.m = f.m /\ g.rv = f.rv
      BY <2>2, <3>2, Zenon
    <3>4. g.at # EndStage /\ g.at > 1
      BY SMTT(30), <1>3, <3>3, StageNumbers
    <3> QED
      BY <1>3, <3>3, <3>4
  <2> QED
    BY <1>4, <2>1, <2>2
<1>6. buf' \in Seq(Tokens) /\ hadErr' \in BOOLEAN /\ (hadErr' \/ silent') /\ silent' \in BOOLEAN /\ mute' \in BOOLEAN
      /\ (hadErr => hadErr') /\ (silent => silent') /\ (mute => mute')
  <2>1. CASE Error /\ silent' = silent
    BY <1>4, <2>1, Errors DEF Error
  <2>2. CASE silent' /\ silent' \in BOOLEAN /\ Printf(Description(Top), TRUE)
    BY <1>1, <1>4, <2>2, Prints, Descriptions, TRUE \in BOOLEAN
  <2>3. CASE silent' /\ silent' \in BOOLEAN /\ UNCHANGED <<buf, hadErr>>
    BY <1>4, <2>3
  <2> QED
    BY <1>4, <2>1, <2>2, <2>3
<1>7. Work(g)
  BY <1>4, <1>5 DEF Work
<1>8. Effect(g)
  BY <1>5, <1>6, <1>7, StageNumbers DEF Effect
<1> QED
  BY <1>1, <1>8

\* the second look at an ELF file,
LEMMA ElfStep ==
    ASSUME Stack, TryElf
    PROVE  Running("buffer") /\ \E g : Effect(g)
<1> USE Typed DEF const
<1>1. Running("buffer") /\ Top.at \in 1..Len(Stages)
  BY DEF TryElf, AtStage
<1>2. Top \in Buffers /\ Top.at \in 1..9 /\ frames \in Seq(Frames) /\ frames # << >>
  BY <1>1, TopBuffer, StageNumbers
<1>3. UNCHANGED <<config, zmatch, compress, pushed, aborted, result>>
  BY DEF TryElf
<1>4. ASSUME NEW g \in Buffers, Set(g)
      PROVE  /\ silent' \in BOOLEAN /\ mute' \in BOOLEAN /\ (silent => silent') /\ (mute => mute')
             /\ g.at = EndStage => hadErr \/ silent'
  <2>1. frames'[Len(frames)] = g
    BY <1>2, <1>4, SetTop DEF Frames
  <2>2. silent' = (silent \/ (~hadErr /\ frames'[Len(frames)].at = EndStage)) /\ mute' = mute
    BY DEF TryElf
  <2> QED
    BY <2>1, <2>2
<1>5. CASE Set(Skip(Top)) /\ UNCHANGED <<buf, hadErr>>
  <2>1. /\ Skip(Top) \in Buffers /\ Skip(Top).src = Top.src /\ Skip(Top).at = Top.at + 1
        /\ Skip(Top).m = Top.m /\ Skip(Top).rv = Top.rv
    BY <1>2, Skips
  <2>2. Work(Skip(Top)) /\ silent' \in BOOLEAN /\ mute' \in BOOLEAN /\ (silent => silent') /\ (mute => mute')
    BY <1>2, <1>3, <1>4, <1>5, <2>1, StageNumbers DEF Work
  <2>3. Quiet(Skip(Top))
    BY <1>2, <1>5, <2>1, StageNumbers DEF Quiet
  <2>4. Effect(Skip(Top))
    BY SMTT(30), <1>2, <1>5, <2>1, <2>2, <2>3, StageNumbers DEF Effect
  <2> QED
    BY <1>1, <2>4
<1>6. CASE Set([Top EXCEPT !.at = EndStage, !.rv = -1]) /\ UNCHANGED <<buf, hadErr>>
  <2> DEFINE g == [Top EXCEPT !.at = EndStage, !.rv = -1]
  <2>1. g \in Buffers /\ g.src = Top.src /\ g.at = EndStage /\ g.m = Top.m /\ g.rv = -1
    BY <1>2, EndedFrame
  <2>2. Set(g)
    BY <1>6
  <2> HIDE DEF g
  <2>3. Work(g) /\ silent' \in BOOLEAN /\ mute' \in BOOLEAN /\ (silent => silent') /\ (mute => mute') /\ (hadErr \/ silent')
    BY <1>3, <1>4, <2>1, <2>2 DEF Work
  <2>4. Effect(g)
    BY <1>6, <2>1, <2>3, StageNumbers DEF Effect
  <2> QED
    BY <1>1, <2>4
<1>7. ASSUME NEW found \in BOOLEAN, UNCHANGED <<buf, hadErr>>,
             Set(Skip([Top EXCEPT !.elf = found, !.rv = IF found THEN 1 ELSE 0]))
      PROVE  \E g : Effect(g)
  <2> DEFINE f == [Top EXCEPT !.elf = found, !.rv = IF found THEN 1 ELSE 0]
  <2>1. f \in Buffers /\ f.src = Top.src /\ f.at = Top.at /\ f.m = Top.m /\ f.rv # -1
    BY <1>2, ElfFrame
  <2>2. Set(Skip(f))
    BY <1>7
  <2> HIDE DEF f
  <2>3. /\ Skip(f) \in Buffers /\ Skip(f).src = Top.src /\ Skip(f).at = Top.at + 1
        /\ Skip(f).m = Top.m /\ Skip(f).rv # -1
    BY <1>2, <2>1, Skips
  <2>4. Work(Skip(f)) /\ silent' \in BOOLEAN /\ mute' \in BOOLEAN /\ (silent => silent') /\ (mute => mute')
    BY <1>2, <1>3, <1>4, <2>2, <2>3, StageNumbers DEF Work
  <2>5. Quiet(Skip(f))
    BY SMTT(30), <1>2, <1>7, <2>3, StageNumbers DEF Quiet
  <2>6. Effect(Skip(f))
    BY SMTT(30), <1>2, <1>7, <2>3, <2>4, <2>5, StageNumbers DEF Effect
  <2> QED
    BY <2>6
<1>8. CASE Set(Skip([Top EXCEPT !.rv = -1])) /\ buf' = << "error" >> /\ hadErr' = TRUE
  <2> DEFINE f == [Top EXCEPT !.rv = -1]
  <2>1. f \in Buffers /\ f.src = Top.src /\ f.at = Top.at /\ f.m = Top.m
    BY <1>2, FrameUpdates
  <2>2. Set(Skip(f))
    BY <1>8
  <2> HIDE DEF f
  <2>3. /\ Skip(f) \in Buffers /\ Skip(f).src = Top.src /\ Skip(f).at = Top.at + 1 /\ Skip(f).m = Top.m
    BY <1>2, <2>1, Skips
  <2>4. Work(Skip(f)) /\ silent' \in BOOLEAN /\ mute' \in BOOLEAN /\ (silent => silent') /\ (mute => mute')
    BY <1>2, <1>3, <1>4, <2>2, <2>3, StageNumbers DEF Work
  <2>5. buf' \in Seq(Tokens)
    BY <1>8 DEF Tokens
  <2>6. Effect(Skip(f))
    BY SMTT(30), <1>2, <1>8, <2>3, <2>4, <2>5, StageNumbers DEF Effect
  <2> QED
    BY <1>1, <2>6
<1> QED
  BY <1>1, <1>5, <1>6, <1>7, <1>8 DEF TryElf

\* The frame after the last resort: something has matched.
LEMMA SimpleFrame ==
    ASSUME NEW f \in Buffers, NEW v \in {-1, 0, 1}
    PROVE  LET g == [f EXCEPT !.m = 1, !.rv = v]
           IN  g \in Buffers /\ g.src = f.src /\ g.at = f.at /\ g.m = 1 /\ g.rv = v
<1> DEFINE g == [f EXCEPT !.m = 1, !.rv = v]
<1>1. 1 \in {-1, 0, 1}
  OBVIOUS
<1>2. g \in Buffers
  BY <1>1 DEF Buffers
<1>3. g.src = f.src /\ g.at = f.at /\ g.m = 1 /\ g.rv = v
  BY <1>1 DEF Buffers
<1> QED
  BY <1>2, <1>3

\* the last resort of data or empty,
LEMMA SimpleStep ==
    ASSUME Stack, Simple
    PROVE  Running("buffer") /\ \E g : Effect(g)
<1> USE Typed DEF const
<1>1. Running("buffer") /\ Top.at = 10
  BY StageNumbers DEF Simple
<1>2. Top \in Buffers /\ Description(Top) \in Seq(Tokens)
  BY <1>1, TopBuffer, Descriptions
<1>3. UNCHANGED <<config, zmatch, compress, pushed, aborted, result>> /\ silent' = silent /\ mute' = mute
  BY DEF Simple
<1>4. CASE Top.m # 0
  <2>1. Done(Top) \in Buffers /\ Done(Top).src = Top.src /\ Done(Top).at = 11 /\ Done(Top).m = Top.m
        /\ Done(Top).rv = Top.rv
    BY <1>2, Dones, StageNumbers
  <2>2. Set(Done(Top)) /\ UNCHANGED <<buf, hadErr>>
    BY <1>4 DEF Simple
  <2>3. Work(Done(Top))
    BY <1>3, <2>1, <2>2 DEF Work
  <2>4. Quiet(Done(Top))
    BY <1>1, <1>4, <2>1, <2>2, StageNumbers DEF Quiet
  <2>5. Effect(Done(Top))
    BY <1>3, <1>4, <2>1, <2>2, <2>3, <2>4, StageNumbers DEF Effect
  <2> QED
    BY <1>1, <2>5
<1>5. CASE Top.m = 0
  <2>1. PICK ok \in BOOLEAN :
           /\ Printf(Description(Top), ok)
           /\ Set(Done([Top EXCEPT !.m = 1, !.rv = IF ~ok THEN -1 ELSE IF config.mime = "no" THEN 0 ELSE 1]))
    BY <1>5, Zenon DEF Simple
  <2> DEFINE v == IF ~ok THEN -1 ELSE IF config.mime = "no" THEN 0 ELSE 1
             f == [Top EXCEPT !.m = 1, !.rv = v]
  <2>2. v \in {-1, 0, 1} /\ (v = -1 => ~ok)
    OBVIOUS
  <2> HIDE DEF v
  <2>3. f \in Buffers /\ f.src = Top.src /\ f.at = Top.at /\ f.m = 1 /\ f.rv = v
    BY <1>2, <2>2, SimpleFrame
  <2>4. Set(Done(f))
    BY <2>1, Zenon DEF v
  <2> HIDE DEF f
  <2>5. Done(f) \in Buffers /\ Done(f).src = Top.src /\ Done(f).at = 11 /\ Done(f).m = 1 /\ Done(f).rv = v
    BY <2>3, Dones, StageNumbers
  <2>6. /\ buf' \in Seq(Tokens) /\ hadErr' \in BOOLEAN /\ (hadErr => hadErr') /\ (~ok => hadErr')
        /\ ~hadErr' => buf' = buf \o Description(Top)
    BY <1>2, <2>1, Prints
  <2>7. Work(Done(f))
    BY <1>3, <2>4, <2>5 DEF Work
  <2>8. ASSUME ~hadErr' PROVE Says(Done(f))
    <3>1. Description(Top) \o << >> \o << >> = Description(Top)
      BY <1>2
    <3>2. buf' = buf \o (Description(Top) \o << >> \o << >>)
      BY <2>6, <2>8, <3>1
    <3>3. /\ Top.at <= SimpleStage /\ Done(f).m = 1 /\ Done(f).at # EndStage
          /\ ~config.cont => Done(f).at = DoneStage
      BY <1>1, <2>5, StageNumbers
    <3> DEFINE none == << >>
    <3>4. buf' = buf \o (Description(Top) \o none \o none)
      BY <3>2
    <3>5. none \in {<< >>, << "elf" >>} /\ none \in {<< >>, << "sep" >>} /\ (none # << >> => config.cont)
      OBVIOUS
    <3> HIDE DEF none
    <3> QED
      BY <3>3, <3>4, <3>5, Zenon DEF Says
  <2>9. Effect(Done(f))
    BY <1>3, <2>2, <2>5, <2>6, <2>7, <2>8, StageNumbers DEF Effect
  <2> QED
    BY <1>1, <2>9
<1> QED
  BY <1>4, <1>5

\* The frame at the label done.
LEMMA FinishFrame ==
    ASSUME NEW f \in Buffers, NEW v \in {-1, 0, 1}
    PROVE  LET g == [f EXCEPT !.at = EndStage, !.rv = v]
           IN  g \in Buffers /\ g.src = f.src /\ g.at = EndStage /\ g.m = f.m /\ g.rv = v
<1> DEFINE g == [f EXCEPT !.at = EndStage, !.rv = v]
<1>1. EndStage \in 1..EndStage
  BY StageNumbers
<1>2. g \in Buffers
  BY <1>1 DEF Buffers
<1>3. g.src = f.src /\ g.at = EndStage /\ g.m = f.m /\ g.rv = v
  BY <1>1 DEF Buffers
<1> QED
  BY <1>2, <1>3

\* and the end of file_buffer() with its character set.
LEMMA FinishStep ==
    ASSUME Stack, Finish
    PROVE  Running("buffer") /\ \E g : Effect(g)
<1> USE Typed DEF const
<1>1. Running("buffer") /\ Top.at = 11
  BY StageNumbers DEF Finish
<1>2. Top \in Buffers
  BY <1>1, TopBuffer
<1>3. UNCHANGED <<config, zmatch, compress, pushed, aborted, result>> /\ silent' = silent /\ mute' = mute
  BY DEF Finish
<1>4. ASSUME NEW g \in Buffers, Set(g), g.src = Top.src, g.at = EndStage, g.m = Top.m,
             buf' \in Seq(Tokens), hadErr' \in BOOLEAN, hadErr => hadErr',
             g.rv = -1 /\ Top.rv # -1 => hadErr', hadErr' \/ Ends(g)
      PROVE  \E h : Effect(h)
  <2>1. Work(g)
    BY <1>3, <1>4 DEF Work
  <2>2. Effect(g)
    BY <1>1, <1>3, <1>4, <2>1, StageNumbers DEF Effect
  <2> QED
    BY <2>2
<1>5. CASE config.mime \in {"enc", "full"} /\ ~hadErr
  <2>1. PICK ok \in BOOLEAN :
           /\ Set([Top EXCEPT !.at = EndStage, !.rv = IF ok THEN @ ELSE -1])
           /\ IF ok THEN buf' = Append(TrimSep(buf), "charset") /\ UNCHANGED hadErr
              ELSE buf' = << "error" >> /\ hadErr' = TRUE
    BY <1>5, Zenon DEF Finish
  <2> DEFINE v == IF ok THEN Top.rv ELSE -1
             g == [Top EXCEPT !.at = EndStage, !.rv = v]
  <2>2. v \in {-1, 0, 1} /\ (ok => v = Top.rv)
    BY <1>2 DEF Buffers
  <2> HIDE DEF v
  <2>3. g \in Buffers /\ g.src = Top.src /\ g.at = EndStage /\ g.m = Top.m /\ g.rv = v
    BY <1>2, <2>2, FinishFrame
  <2>4. Set(g)
    BY <2>1 DEF v
  <2> HIDE DEF g
  <2>5. CASE ok
    <3>1. buf' = Append(TrimSep(buf), "charset") /\ hadErr' = hadErr
      BY <2>1, <2>5
    <3>2. Ends(g)
      BY <1>1, <1>5, <2>3, <3>1, StageNumbers DEF Ends
    <3>3. g.rv = Top.rv
      BY <2>2, <2>3, <2>5
    <3>4. buf' \in Seq(Tokens)
      BY <3>1, Trimmed
    <3> QED
      BY <1>1, <1>4, <2>3, <2>4, <3>1, <3>2, <3>3, <3>4
  <2>6. CASE ~ok
    <3>1. buf' \in Seq(Tokens) /\ hadErr' /\ hadErr' \in BOOLEAN
      <4>1. buf' = << "error" >> /\ hadErr' = TRUE
        BY <2>1, <2>6, Zenon
      <4> QED
        BY <4>1 DEF Tokens
    <3> QED
      BY <1>1, <1>4, <2>3, <2>4, <3>1
  <2> QED
    BY <1>1, <2>5, <2>6
<1>6. CASE ~(config.mime \in {"enc", "full"} /\ ~hadErr)
  <2> DEFINE g == [Top EXCEPT !.at = EndStage]
  <2>1. g \in Buffers /\ g.src = Top.src /\ g.at = EndStage /\ g.m = Top.m /\ g.rv = Top.rv
    BY <1>2, FrameUpdates, StageNumbers, EndStage \in 1..12
  <2>2. Set(g) /\ buf' = TrimSep(buf) /\ hadErr' = hadErr
    BY <1>6 DEF Finish
  <2> HIDE DEF g
  <2>3. hadErr' \/ Ends(g)
    BY <1>1, <1>6, <2>1, <2>2, StageNumbers DEF Ends
  <2>4. buf' \in Seq(Tokens)
    BY <2>2, Trimmed
  <2> QED
    BY <1>1, <1>4, <2>1, <2>2, <2>3, <2>4
<1> QED
  BY <1>1, <1>5, <1>6

\* The steps of file_buffer() that stay in the call.
BufferStep == \/ StageOff \/ TryElf \/ Simple \/ Finish
              \/ \E s \in Detectors : NotFound(s) \/ Found(s) \/ Failed(s) \/ FailedSilently(s)
              \/ Zmagic /\ ~compress

\* Every step of file_buffer() inside a call has one of the four effects.
LEMMA BufferSteps ==
    ASSUME Stack, BufferStep
    PROVE  /\ Running("buffer") /\ Top \in Buffers /\ Len(frames) \in {1, 3} /\ Top = frames[Len(frames)]
           /\ \E g : Effect(g)
<1>1. Running("buffer") /\ \E g : Effect(g)
  BY QuietStep, FoundStep, FailedStep, ElfStep, SimpleStep, FinishStep DEF BufferStep
<1> QED
  BY <1>1, TopBuffer

\* Each of the effects leaves the stack in order.
LEMMA EffectKeeps ==
    ASSUME Stack, Running("buffer"), NEW g, Effect(g)
    PROVE  Stack' /\ frames'[Len(frames')] = g /\ Len(frames') = Len(frames)
           /\ \A i \in 1..(Len(frames) - 1) : frames'[i] = frames[i]
BY WorkKeeps DEF Effect

-----------------------------------------------------------------------------
(* The steps of file_zmagic().                                             *)

Zwork(g) == /\ g \in Zmagics /\ Set(g) /\ g.at \notin {"inner", "orig"} /\ g.i \in 1..(zmatch + 1)
            /\ UNCHANGED <<config, zmatch, pushed, aborted, result>>
            /\ compress' \in BOOLEAN
            /\ g.at \in {"open", "close", "out"} => ~compress' /\ g.i <= zmatch

\* A step inside file_zmagic() leaves the stack in order.
LEMMA ZworkKeeps ==
    ASSUME Stack, Running("zmagic"), NEW g, Zwork(g), buf' \in Seq(Tokens),
           hadErr' \in BOOLEAN, silent' \in BOOLEAN, mute' \in BOOLEAN
    PROVE  Stack' /\ Len(frames') = 2 /\ frames'[2] = g /\ frames'[1] = frames[1]
<1>1. /\ Top \in Zmagics /\ Len(frames) = 2 /\ frames \in Seq(Frames) /\ frames # << >>
      /\ result = "none" /\ Top = frames[2] /\ zmatch \in Nat
  BY TopZmagic
<1>2. /\ frames' \in Seq(Frames) /\ Len(frames') = 2 /\ frames'[2] = g
      /\ frames'[1] = frames[1]
  BY <1>1, SetTop DEF Zwork, Frames
<1>3. Nested'
  BY <1>1, <1>2 DEF Stack, Nested, Zwork
<1>4. Saved'
  BY <1>1, <1>2 DEF Stack, Nested, Saved, Zwork
<1>5. Types'
  BY <1>1 DEF Stack, Types, Zwork, Returned
<1> QED
  BY <1>2, <1>3, <1>4, <1>5 DEF Stack

\* What the updates of a frame of file_zmagic() change.
LEMMA ZUpdates ==
    ASSUME NEW f \in Zmagics
    PROVE  /\ ZNext(f) \in Zmagics /\ ZNext(f).i = f.i + 1 /\ ZNext(f).at = "next" /\ ZNext(f).rv = f.rv
           /\ f.i \in Nat /\ f.rv \in {-1, 0, 1}
<1>1. f.i \in Nat /\ f.i + 1 \in Nat /\ f.rv \in {-1, 0, 1}
  BY DEF Zmagics
<1>2. ZNext(f) = [f EXCEPT !.i = f.i + 1, !.at = "next"]
  BY DEF ZNext
<1>3. [f EXCEPT !.i = f.i + 1, !.at = "next"] \in Zmagics
  BY <1>1 DEF Zmagics
<1>4. LET g == [f EXCEPT !.i = f.i + 1, !.at = "next"]
      IN  g.i = f.i + 1 /\ g.at = "next" /\ g.rv = f.rv
  BY <1>1 DEF Zmagics
<1> QED
  BY <1>1, <1>2, <1>3, <1>4

\* An error of one method sends file_zmagic() to the next with -1.
LEMMA ZErrors ==
    ASSUME NEW f \in Zmagics
    PROVE  /\ ZError(f) \in Zmagics /\ ZError(f).i = f.i + 1 /\ ZError(f).at = "next" /\ ZError(f).rv = -1
<1> DEFINE g == [f EXCEPT !.rv = -1]
<1>1. g \in Zmagics /\ g.i = f.i /\ g.rv = -1
  BY DEF Zmagics
<1>2. ZError(f) = ZNext(g)
  BY DEF ZError
<1> HIDE DEF g
<1> QED
  BY <1>1, <1>2, ZUpdates

\* After the contents are described, the original data follows or file_zmagic() leaves.
LEMMA AfterInners ==
    ASSUME NEW f \in Zmagics, config \in Configs
    PROVE  /\ AfterInner(f) \in Zmagics /\ AfterInner(f).i = f.i /\ AfterInner(f).at \in {"open", "out"}
           /\ AfterInner(f).rv = 1
           /\ AfterInner(f).at = "open" => config.mime \in {"no", "full"}
<1>1. CASE config.transp \/ config.mime \in {"type", "enc"}
  <2>1. AfterInner(f) = [f EXCEPT !.at = "out", !.rv = 1]
    BY <1>1 DEF AfterInner
  <2> QED
    BY <2>1 DEF Zmagics
<1>2. CASE ~(config.transp \/ config.mime \in {"type", "enc"})
  <2>1. AfterInner(f) = [f EXCEPT !.at = "open", !.rv = 1]
    BY <1>2 DEF AfterInner
  <2>2. config.mime \in {"no", "full"}
    BY <1>2, Constants
  <2> QED
    BY <2>1, <2>2 DEF Zmagics
<1> QED
  BY <1>1, <1>2

\* The parentheses around the description of the original data.
Paren == IF config.mime = "no" THEN << "(" >> ELSE << "enc=" >>
Closing == IF config.mime = "no" THEN << ")" >> ELSE << >>

ZQuiet(g) == /\ Top.at = "next" /\ Top.i <= zmatch /\ buf' = buf
             /\ g.at = "next" /\ g.i = Top.i + 1 /\ g.rv = Top.rv
ZSays(g) == /\ Top.at = "next" /\ Top.i <= zmatch /\ buf' = buf \o << "z" >>
            /\ g.at \in {"open", "out"}
ZCloses(g) == /\ Top.at = "close" /\ buf' = buf \o Closing
              /\ g.at = "next" /\ g.i = Top.i + 1 /\ g.rv = Top.rv
Zeffect(g) ==
    /\ Zwork(g) /\ buf' \in Seq(Tokens) /\ hadErr' \in BOOLEAN /\ silent' \in BOOLEAN /\ mute' \in BOOLEAN
    /\ hadErr => hadErr'
    /\ silent => silent'
    /\ mute => mute'
    /\ g.rv = -1 /\ Top.rv # -1 => hadErr' \/ silent'
    /\ g.at \in {"open", "close", "out"} => g.rv = 1 /\ g.i = Top.i
    /\ g.at \in {"open", "close"} => config.mime \in {"no", "full"}
    /\ hadErr' \/ silent' \/ mute' \/ ZQuiet(g) \/ ZSays(g) \/ ZCloses(g)

\* A method that fails, one that gives no data and the closing parenthesis are steps of
\* the kinds above.
LEMMA ZSteps ==
    ASSUME Stack, ZErrdata \/ ZNodata \/ ZClose
    PROVE  Running("zmagic") /\ \E g : Zeffect(g)
<1> USE Typed DEF const
<1>1. Running("zmagic") /\ UNCHANGED <<config, zmatch, pushed, aborted, result>> /\ silent' = silent /\ mute' = mute
  <2>1. CASE ZErrdata
    BY <2>1 DEF ZErrdata, AtZ
  <2>2. CASE ZNodata
    BY <2>2 DEF ZNodata, AtZ
  <2>3. CASE ZClose
    BY <2>3 DEF ZClose, AtZ
  <2> QED
    BY <2>1, <2>2, <2>3
<1>2. Top \in Zmagics /\ zmatch \in Nat /\ Top = frames[2] /\ Len(frames) = 2 /\ Top.i \in 1..(zmatch + 1)
      /\ compress \in BOOLEAN
  BY <1>1, TopZmagic DEF Stack, Nested, Types
<1>3. << "z" >> \in Seq(Tokens) /\ Closing \in Seq(Tokens)
  <2>1. "z" \in Tokens /\ ")" \in Tokens
    BY DEF Tokens
  <2> QED
    BY <2>1 DEF Closing
<1>4. /\ ZNext(Top) \in Zmagics /\ ZNext(Top).i = Top.i + 1 /\ ZNext(Top).at = "next" /\ ZNext(Top).rv = Top.rv
      /\ ZError(Top) \in Zmagics /\ ZError(Top).i = Top.i + 1 /\ ZError(Top).at = "next" /\ ZError(Top).rv = -1
  BY <1>2, ZUpdates, ZErrors
<1>5. /\ AfterInner(Top) \in Zmagics /\ AfterInner(Top).i = Top.i /\ AfterInner(Top).at \in {"open", "out"}
      /\ AfterInner(Top).rv = 1
      /\ AfterInner(Top).at = "open" => config.mime \in {"no", "full"}
  BY <1>2, AfterInners
<1>6. ASSUME Set(ZError(Top)), Top.i <= zmatch, compress' \in BOOLEAN,
             hadErr', hadErr' \in BOOLEAN, buf' \in Seq(Tokens)
      PROVE  \E g : Zeffect(g)
  <2>1. Zwork(ZError(Top))
    BY <1>1, <1>2, <1>4, <1>6 DEF Zwork
  <2>2. Zeffect(ZError(Top))
    BY <1>1, <1>2, <1>4, <1>6, <2>1 DEF Zeffect
  <2> QED
    BY <2>2
<1>7. CASE ZNodata
  <2>1. Set(ZNext(Top)) /\ Top.at = "next" /\ Top.i <= zmatch /\ UNCHANGED <<compress, buf, hadErr>>
    BY <1>7 DEF ZNodata, AtZ
  <2>2. Zwork(ZNext(Top))
    BY <1>1, <1>2, <1>4, <2>1 DEF Zwork
  <2>3. ZQuiet(ZNext(Top))
    BY <1>4, <2>1 DEF ZQuiet
  <2>4. Zeffect(ZNext(Top))
    BY <1>1, <1>2, <1>4, <2>1, <2>2, <2>3 DEF Zeffect
  <2> QED
    BY <1>1, <2>4
<1>8. CASE ZErrdata
  <2>1. Top.at = "next" /\ Top.i <= zmatch /\ ~compress' /\ compress' \in BOOLEAN
    BY <1>8 DEF ZErrdata, AtZ
  <2>2. CASE Printf(<< "z" >>, TRUE) /\ Set(AfterInner(Top))
    <3>1. /\ buf' \in Seq(Tokens) /\ hadErr' \in BOOLEAN /\ (hadErr => hadErr')
          /\ ~hadErr' => buf' = buf \o << "z" >>
      BY <1>3, <2>2, Prints
    <3>2. Zwork(AfterInner(Top))
      BY <1>1, <1>2, <1>5, <2>1, <2>2 DEF Zwork
    <3>3. hadErr' \/ ZSays(AfterInner(Top))
      BY <1>5, <2>1, <3>1 DEF ZSays
    <3>4. Zeffect(AfterInner(Top))
      BY <1>1, <1>2, <1>5, <2>1, <3>1, <3>2, <3>3 DEF Zeffect
    <3> QED
      BY <1>1, <3>4
  <2>3. CASE Printf(<< "z" >>, FALSE) /\ Set(ZError(Top))
    <3>1. buf' \in Seq(Tokens) /\ hadErr' \in BOOLEAN /\ hadErr'
      BY <1>3, <2>3, Prints
    <3> QED
      BY <1>1, <1>6, <2>1, <2>3, <3>1
  <2>4. \E ok \in BOOLEAN : Printf(<< "z" >>, ok) /\ Set(IF ok THEN AfterInner(Top) ELSE ZError(Top))
    BY <1>8 DEF ZErrdata
  <2> QED
    BY <2>2, <2>3, <2>4, Zenon
<1>9. CASE ZClose
  <2>1. Top.at = "close" /\ compress' = compress
    BY <1>9 DEF ZClose, AtZ
  <2>2. ~compress /\ Top.i <= zmatch
    BY <1>2, <2>1 DEF Stack, Saved
  <2>3. CASE Printf(Closing, TRUE) /\ Set(ZNext(Top))
    <3>1. /\ buf' \in Seq(Tokens) /\ hadErr' \in BOOLEAN /\ (hadErr => hadErr')
          /\ ~hadErr' => buf' = buf \o Closing
      BY <1>3, <2>3, Prints
    <3>2. Zwork(ZNext(Top))
      BY <1>1, <1>2, <1>4, <2>1, <2>2, <2>3 DEF Zwork
    <3>3. hadErr' \/ ZCloses(ZNext(Top))
      BY <1>4, <2>1, <3>1 DEF ZCloses
    <3>4. Zeffect(ZNext(Top))
      BY <1>1, <1>2, <1>4, <2>1, <3>1, <3>2, <3>3 DEF Zeffect
    <3> QED
      BY <1>1, <3>4
  <2>4. CASE Printf(Closing, FALSE) /\ Set(ZError(Top))
    <3>1. buf' \in Seq(Tokens) /\ hadErr' \in BOOLEAN /\ hadErr'
      BY <1>3, <2>4, Prints
    <3> QED
      BY <1>1, <1>2, <1>6, <2>1, <2>2, <2>4, <3>1
  <2>5. \E ok \in BOOLEAN : Printf(Closing, ok) /\ Set(IF ok THEN ZNext(Top) ELSE ZError(Top))
    BY <1>9 DEF ZClose, Closing
  <2> QED
    BY <2>3, <2>4, <2>5, Zenon
<1> QED
  BY <1>7, <1>8, <1>9

\* file_zmagic() is called, or file_buffer() calls it back.
LEMMA ZmagicCall ==
    ASSUME Stack, Zmagic, compress
    PROVE  /\ Stack' /\ Len(frames) = 1 /\ Len(frames') = 2 /\ frames'[1] = frames[1]
           /\ frames'[2] = ZmagicFrame /\ frames[1].at = 1
           /\ UNCHANGED <<config, zmatch, buf, hadErr, silent, mute, aborted, result>>
<1>1. Running("buffer") /\ Top.at \in 1..9 /\ Stages[Top.at] = "zmagic" /\ frames' = Append(frames, ZmagicFrame)
      /\ UNCHANGED <<config, zmatch, compress, buf, pushed, hadErr, silent, mute, aborted, result>>
  BY StageNumbers DEF Zmagic, AtStage, const
<1>2. /\ Top \in Buffers /\ Len(frames) = 1 /\ frames \in Seq(Frames) /\ Top = frames[1] /\ result = "none"
  BY <1>1, TopBuffer DEF Stack, Saved
<1>3. Top.at = 1
  BY <1>1 DEF Stages
<1>4. ZmagicFrame \in Zmagics /\ ZmagicFrame.i = 1 /\ ZmagicFrame.at = "next"
  BY DEF ZmagicFrame, Zmagics
<1>5. frames' \in Seq(Frames) /\ Len(frames') = 2 /\ frames'[1] = frames[1] /\ frames'[2] = ZmagicFrame
  <2>1. ZmagicFrame \in Frames
    BY <1>4 DEF Frames
  <2> DEFINE z == ZmagicFrame
  <2>2. frames' = Append(frames, z) /\ z \in Frames
    BY <1>1, <2>1
  <2> HIDE DEF z
  <2>3. frames' \in Seq(Frames) /\ Len(frames') = 2 /\ frames'[1] = frames[1] /\ frames'[2] = z
    BY <1>2, <2>2, FirstPush, Zenon
  <2> QED
    BY <2>3 DEF z
<1>6. Nested'
  BY <1>1, <1>2, <1>3, <1>4, <1>5, MethodsNat DEF Stack, Types, Nested
<1>7. Saved'
  <2>1. config.compress
    <3>1. compress = config.compress
      <4>1. Len(frames) <= 1
        BY <1>2
      <4> QED
        BY <4>1, Zenon DEF Stack, Saved
    <3> QED
      BY <3>1, Zenon
  <2>2. pushed \in Seq(Seq(Tokens)) /\ Len(pushed) = 0
    BY <1>2 DEF Stack, Saved
  <2>3. Len(frames') = 2 /\ frames'[2].at = "next" /\ pushed' = pushed /\ config' = config
    BY <1>1, <1>4, <1>5
  <2> QED
    BY <2>1, <2>2, <2>3 DEF Saved
<1>8. Types'
  BY <1>1, <1>2 DEF Stack, Types, Returned
<1> QED
  BY <1>1, <1>2, <1>3, <1>5, <1>6, <1>7, <1>8 DEF Stack

\* The frame of a new call of file_buffer(), and the stage it begins with.
LEMMA BufferFrames ==
    ASSUME NEW src \in {"main", "z", "orig"}, NEW fd \in BOOLEAN, NEW size \in Sizes
    PROVE  LET f == BufferFrame(src, fd, size)
               g == FirstStage(f)
           IN  /\ f \in Buffers /\ f.src = src /\ f.at = 1 /\ f.m = 0 /\ f.rv = 0
               /\ g \in Buffers /\ g.src = src /\ g.at \in {1, SimpleStage} /\ g.m = 0 /\ g.rv = 0
<1> DEFINE f == BufferFrame(src, fd, size)
<1>1. f \in Buffers /\ f.src = src /\ f.at = 1 /\ f.m = 0 /\ f.rv = 0
  BY StageNumbers DEF BufferFrame, Buffers
<1> HIDE DEF f
<1>2. LET g == FirstStage(f)
      IN g \in Buffers /\ g.src = src /\ g.at \in {1, SimpleStage} /\ g.m = 0 /\ g.rv = 0
  <2>1. CASE f.size = "more"
    <3>1. FirstStage(f) = f
      BY <2>1 DEF FirstStage
    <3> QED
      BY <1>1, <3>1
  <2>2. CASE f.size # "more"
    <3>1. FirstStage(f) = [f EXCEPT !.at = SimpleStage]
      BY <2>2 DEF FirstStage
    <3>2. SimpleStage \in 1..12
      BY StageNumbers
    <3> DEFINE h == [f EXCEPT !.at = SimpleStage]
    <3>3. h \in Buffers /\ h.src = f.src /\ h.m = f.m /\ h.rv = f.rv /\ h.at = SimpleStage
      BY <1>1, <3>2, FrameUpdates, Zenon
    <3> HIDE DEF h
    <3>4. FirstStage(f) = h
      BY <3>1 DEF h
    <3> QED
      BY <1>1, <3>3, <3>4
  <2> QED
    BY <2>1, <2>2
<1> QED
  BY <1>1, <1>2 DEF f

\* Decompressed data: file_buffer() is called on it, and nothing else changes.
LEMMA ZDataCall ==
    ASSUME Stack, ZData
    PROVE  /\ Stack' /\ Len(frames) = 2 /\ Len(frames') = 3 /\ frames[2].at = "next" /\ frames[2].i <= zmatch
           /\ frames'[1] = frames[1] /\ frames'[2].at = "inner" /\ frames'[2].rv = frames[2].rv
           /\ frames'[2].call = "zmagic" /\ frames'[3].m = 0 /\ frames'[3].rv = 0 /\ frames'[3].at \in {1, SimpleStage}
           /\ UNCHANGED <<config, zmatch, buf, hadErr, silent, mute, aborted, result>>
<1>1. /\ Running("zmagic") /\ Top.at = "next" /\ Top.i <= zmatch /\ ~compress' /\ compress' \in BOOLEAN
      /\ UNCHANGED <<config, zmatch, buf, pushed, hadErr, silent, mute, aborted, result>>
  BY DEF ZData, AtZ, const
<1>2. /\ Top \in Zmagics /\ Len(frames) = 2 /\ frames \in Seq(Frames) /\ frames # << >> /\ Top = frames[2]
      /\ result = "none" /\ zmatch \in Nat
  BY <1>1, TopZmagic
<1>3. PICK size \in Sizes : frames' = Append([frames EXCEPT ![Len(frames)].at = "inner"],
                                              FirstStage(BufferFrame("z", FALSE, size)))
  BY DEF ZData
<1> DEFINE z == [Top EXCEPT !.at = "inner"]
           f == FirstStage(BufferFrame("z", FALSE, size))
<1>4. z \in Zmagics /\ z.at = "inner" /\ z.rv = Top.rv /\ z.i = Top.i /\ z.call = "zmagic"
  BY <1>2 DEF Zmagics
<1>5. f \in Buffers /\ f.src = "z" /\ f.at \in {1, SimpleStage} /\ f.m = 0 /\ f.rv = 0
  BY BufferFrames
<1>6. frames' = Append([frames EXCEPT ![Len(frames)] = z], f)
  BY <1>2, <1>3
<1> HIDE DEF z, f
<1>7. frames' \in Seq(Frames) /\ Len(frames') = 3 /\ frames'[1] = frames[1] /\ frames'[2] = z /\ frames'[3] = f
  <2>1. z \in Frames /\ f \in Frames
    BY <1>4, <1>5 DEF Frames
  <2> QED
    BY <1>2, <1>6, <2>1, Push
<1>8. Nested'
  BY <1>1, <1>2, <1>4, <1>5, <1>7 DEF Stack, Nested
<1>9. Saved'
  BY <1>1, <1>2, <1>4, <1>7 DEF Stack, Saved
<1>10. Types'
  BY <1>1, <1>2 DEF Stack, Types, Returned
<1> QED
  BY <1>1, <1>2, <1>4, <1>5, <1>7, <1>8, <1>9, <1>10 DEF Stack

OrigPushed ==
    /\ AtZ("open") /\ pushed' = Append(pushed, buf \o Paren) /\ buf' = << >>
    /\ frames' = Append([frames EXCEPT ![Len(frames)].at = "orig"], BufferFrame("orig", FALSE, "more"))
    /\ UNCHANGED <<config, zmatch, compress, hadErr, silent, mute, aborted, result>>

\* The opening parenthesis fails, or the buffer is pushed and the original data looked at.
LEMMA ZOpenStep ==
    ASSUME Stack, ZOpen
    PROVE  (Running("zmagic") /\ \E g : Zeffect(g)) \/ OrigPushed
<1> USE Typed DEF const
<1>1. AtZ("open") /\ Running("zmagic") /\ Top.at = "open" /\ UNCHANGED <<config, zmatch, compress, aborted, result>>
  BY DEF ZOpen, AtZ
<1>2. Top \in Zmagics /\ zmatch \in Nat /\ Top = frames[2] /\ Len(frames) = 2 /\ Top.i \in 1..(zmatch + 1)
      /\ compress \in BOOLEAN
  BY <1>1, TopZmagic DEF Stack, Nested, Types
<1>3. Top.i <= zmatch
  BY <1>1, <1>2 DEF Stack, Saved
<1>4. ZError(Top) \in Zmagics /\ ZError(Top).i = Top.i + 1 /\ ZError(Top).at = "next" /\ ZError(Top).rv = -1
  BY <1>2, ZErrors
<1>5. Paren \in Seq(Tokens)
  <2>1. "(" \in Tokens /\ "enc=" \in Tokens
    BY DEF Tokens
  <2> QED
    BY <2>1 DEF Paren
<1>6. PICK ok \in BOOLEAN :
        \/ Printf(Paren, ok) /\ Set(ZError(Top)) /\ silent' = (silent \/ (ok /\ ~hadErr)) /\ mute' = mute /\ pushed' = pushed
        \/ OrigPushed
  BY <1>1, Zenon DEF ZOpen, OrigPushed, Paren
<1>7. ASSUME Printf(Paren, ok), Set(ZError(Top)), silent' = (silent \/ (ok /\ ~hadErr)), mute' = mute, pushed' = pushed
      PROVE  \E g : Zeffect(g)
  <2>1. silent' \in BOOLEAN /\ mute' \in BOOLEAN /\ (silent => silent') /\ (mute => mute') /\ (ok => silent' \/ hadErr)
    BY <1>7, Zenon
  <2>2. buf' \in Seq(Tokens) /\ hadErr' \in BOOLEAN /\ (hadErr => hadErr') /\ (~ok => hadErr')
    BY <1>5, <1>7, Prints
  <2>3. hadErr' \/ silent'
    BY <2>1, <2>2, Zenon
  <2>4. Zwork(ZError(Top))
    BY <1>1, <1>2, <1>3, <1>4, <1>7 DEF Zwork
  <2>5. Zeffect(ZError(Top))
    BY <1>1, <1>4, <2>1, <2>2, <2>3, <2>4 DEF Zeffect
  <2> QED
    BY <2>5
<1> QED
  BY <1>1, <1>6, <1>7, Zenon

\* The call on the original data starts with an empty buffer above the one pushed.
LEMMA OrigCall ==
    ASSUME Stack, OrigPushed
    PROVE  /\ Stack' /\ Len(frames) = 2 /\ Len(frames') = 3 /\ frames[2].at = "open"
           /\ frames'[1] = frames[1] /\ frames'[2].at = "orig" /\ frames'[2].rv = frames[2].rv
           /\ frames'[2].call = "zmagic" /\ frames'[3].m = 0 /\ frames'[3].rv = 0 /\ frames'[3].at = 1
           /\ pushed'[1] = buf \o Paren /\ buf' = << >>
           /\ UNCHANGED <<config, zmatch, hadErr, silent, mute, aborted, result>>
<1>1. /\ Running("zmagic") /\ Top.at = "open"
      /\ UNCHANGED <<config, zmatch, compress, hadErr, silent, mute, aborted, result>>
  BY DEF OrigPushed, AtZ
<1>2. /\ Top \in Zmagics /\ Len(frames) = 2 /\ frames \in Seq(Frames) /\ frames # << >> /\ Top = frames[2]
      /\ result = "none" /\ zmatch \in Nat
  BY <1>1, TopZmagic
<1>3. ~compress /\ Top.i <= zmatch /\ pushed \in Seq(Seq(Tokens)) /\ Len(pushed) = 0 /\ buf \in Seq(Tokens)
  BY <1>1, <1>2 DEF Stack, Saved, Types
<1> DEFINE z == [Top EXCEPT !.at = "orig"]
           f == BufferFrame("orig", FALSE, "more")
<1>4. z \in Zmagics /\ z.at = "orig" /\ z.rv = Top.rv /\ z.i = Top.i /\ z.call = "zmagic"
  BY <1>2 DEF Zmagics
<1>5. f \in Buffers /\ f.src = "orig" /\ f.at = 1 /\ f.m = 0 /\ f.rv = 0
  BY BufferFrames, "more" \in Sizes DEF Sizes
<1>6. frames' = Append([frames EXCEPT ![Len(frames)] = z], f)
  BY <1>2 DEF OrigPushed
<1> HIDE DEF z, f
<1>7. frames' \in Seq(Frames) /\ Len(frames') = 3 /\ frames'[1] = frames[1] /\ frames'[2] = z /\ frames'[3] = f
  <2>1. z \in Frames /\ f \in Frames
    BY <1>4, <1>5 DEF Frames
  <2> QED
    BY <1>2, <1>6, <2>1, Push
<1>8. Nested'
  BY <1>1, <1>2, <1>3, <1>4, <1>5, <1>7 DEF Stack, Nested
<1>11. pushed' \in Seq(Seq(Tokens)) /\ Len(pushed') = 1 /\ pushed'[1] = buf \o Paren
  <2>1. "(" \in Tokens /\ "enc=" \in Tokens
    BY DEF Tokens
  <2>2. Paren \in Seq(Tokens)
    BY <2>1 DEF Paren
  <2>3. buf \o Paren \in Seq(Tokens)
    BY <1>3, <2>2
  <2>4. pushed' = Append(pushed, buf \o Paren)
    BY DEF OrigPushed
  <2> QED
    BY <1>3, <2>3, <2>4
<1>9. Saved'
  <2>1. config.compress
    BY <1>2 DEF Stack, Saved
  <2> QED
    BY <1>1, <1>3, <1>4, <1>7, <1>11, <2>1 DEF Saved
<1>10. Types'
  BY <1>1, <1>2 DEF Stack, Types, Returned, OrigPushed
<1> QED
  BY <1>1, <1>2, <1>4, <1>5, <1>7, <1>8, <1>9, <1>10, <1>11 DEF Stack, OrigPushed

\* A call of file_buffer() returns.
LEMMA Returning ==
    ASSUME Stack, Running("buffer"), Top.at = EndStage, Top.src \in {"z", "orig"}
    PROVE  /\ Len(frames) = 3 /\ frames \in Seq(Frames) /\ Top = frames[3] /\ Top \in Buffers
           /\ frames[2] \in Zmagics /\ frames[2].i \in 1..zmatch /\ zmatch \in Nat
           /\ frames[2].at = IF Top.src = "z" THEN "inner" ELSE "orig"
           /\ ~compress /\ result = "none" /\ config.compress
           /\ Len(pushed) = IF Top.src = "z" THEN 0 ELSE 1
<1>1. Top \in Buffers /\ Len(frames) \in {1, 3} /\ frames \in Seq(Frames) /\ Top = frames[Len(frames)] /\ result = "none"
  BY TopBuffer
<1>2. Len(frames) = 3
  BY <1>1 DEF Stack, Nested
<1>3. zmatch \in Nat
  BY MethodsNat DEF Stack, Types
<1>4. /\ frames[2] \in Zmagics /\ frames[2].i \in 1..(zmatch + 1) /\ frames[2].i <= zmatch
      /\ Top.src = (IF frames[2].at = "inner" THEN "z" ELSE "orig") /\ frames[2].at \in {"inner", "orig"}
  BY <1>1, <1>2 DEF Stack, Nested
<1>5. config.compress
  BY <1>2 DEF Stack, Saved
<1>6. ~compress /\ Len(pushed) = IF frames[2].at = "orig" THEN 1 ELSE 0
  BY <1>2 DEF Stack, Saved
<1> QED
  BY <1>1, <1>2, <1>3, <1>4, <1>5, <1>6

\* What returning to file_zmagic() keeps.
LEMMA ReturnKeeps ==
    ASSUME Stack, Len(frames) = 3, NEW g \in Zmagics, g.i \in 1..(zmatch + 1), g.at \notin {"inner", "orig"},
           g.at \in {"open", "close", "out"} => g.i <= zmatch, ReturnTo(g),
           UNCHANGED <<config, zmatch, compress, result>>, result = "none",
           pushed' \in Seq(Seq(Tokens)), Len(pushed') = 0,
           buf' \in Seq(Tokens), hadErr' \in BOOLEAN, silent' \in BOOLEAN, mute' \in BOOLEAN, aborted' \in BOOLEAN
    PROVE  Stack' /\ Len(frames') = 2 /\ frames'[1] = frames[1] /\ frames'[2] = g
<1>1. frames \in Seq(Frames) /\ g \in Frames
  BY DEF Stack, Nested, Frames
<1>2. frames' \in Seq(Frames) /\ Len(frames') = 2 /\ frames'[1] = frames[1] /\ frames'[2] = g
  BY <1>1, PopFrame DEF ReturnTo
<1>3. Nested'
  BY <1>2 DEF Stack, Nested
<1>4. Saved'
  <2>1. config.compress /\ ~compress
    BY DEF Stack, Saved
  <2> QED
    BY <1>2, <2>1 DEF Saved
<1>5. Types'
  BY DEF Stack, Types, Returned
<1> QED
  BY <1>2, <1>3, <1>4, <1>5 DEF Stack

\* The return from the contents: an error goes on to the next method, anything else matches.
LEMMA InnerReturn ==
    ASSUME Stack, ReturnInner
    PROVE  /\ Stack' /\ Len(frames) = 3 /\ Len(frames') = 2 /\ frames'[1] = frames[1]
           /\ frames[3] \in Buffers /\ frames[3].at = EndStage /\ frames[3].src = "z"
           /\ frames'[2] \in Zmagics
           /\ \/ Value(frames[3]) = -1 /\ frames'[2].at = "next" /\ frames'[2].rv = -1
              \/ /\ Value(frames[3]) # -1 /\ frames'[2].at \in {"open", "out"} /\ frames'[2].rv = 1
                 /\ frames'[2].at = "open" => config.mime \in {"no", "full"}
           /\ UNCHANGED <<config, zmatch, buf, hadErr, silent, mute, aborted, result>>
<1> USE Typed
<1>1. /\ Running("buffer") /\ Top.at = EndStage /\ Top.src = "z"
      /\ UNCHANGED <<config, zmatch, compress, buf, pushed, hadErr, silent, mute, aborted, result>>
  BY DEF ReturnInner, const
<1>2. /\ Len(frames) = 3 /\ Top = frames[3] /\ Top \in Buffers
      /\ frames[2] \in Zmagics /\ frames[2].i \in 1..zmatch /\ zmatch \in Nat
      /\ result = "none" /\ Len(pushed) = 0
  BY <1>1, Returning
<1>3. aborted \in BOOLEAN
  BY DEF Stack, Types
<1> DEFINE z == frames[2]
<1>4. CASE Value(Top) = -1
  <2>1. ReturnTo(ZError(z))
    BY <1>2, <1>4 DEF ReturnInner
  <2>2. ZError(z) \in Zmagics /\ ZError(z).i = z.i + 1 /\ ZError(z).at = "next" /\ ZError(z).rv = -1
    BY <1>2, ZErrors
  <2>3. Stack' /\ Len(frames') = 2 /\ frames'[1] = frames[1] /\ frames'[2] = ZError(z)
    BY <1>1, <1>2, <1>3, <2>1, <2>2, ReturnKeeps
  <2> QED
    BY <1>1, <1>2, <1>4, <2>2, <2>3
<1>5. CASE Value(Top) # -1
  <2>1. ReturnTo(AfterInner(z))
    BY <1>2, <1>5 DEF ReturnInner
  <2>2. /\ AfterInner(z) \in Zmagics /\ AfterInner(z).i = z.i /\ AfterInner(z).at \in {"open", "out"}
        /\ AfterInner(z).rv = 1
        /\ AfterInner(z).at = "open" => config.mime \in {"no", "full"}
    BY <1>2, AfterInners
  <2>3. Stack' /\ Len(frames') = 2 /\ frames'[1] = frames[1] /\ frames'[2] = AfterInner(z)
    BY <1>1, <1>2, <1>3, <2>1, <2>2, ReturnKeeps
  <2> QED
    BY <1>1, <1>2, <1>5, <2>2, <2>3
<1> QED
  BY <1>4, <1>5

\* Nothing is left below the only element of a sequence.
LEMMA EmptyPrefix ==
    ASSUME NEW S, NEW q \in Seq(S), Len(q) = 1
    PROVE  SubSeq(q, 1, 0) \in Seq(S) /\ Len(SubSeq(q, 1, 0)) = 0 /\ q[1] \in S
OBVIOUS

\* The return from the original data: the buffer pushed comes back in front of what was said,
\* unless the call failed, when there must be an error or nothing said.
LEMMA OrigReturn ==
    ASSUME Stack, ReturnOrig
    PROVE  /\ Stack' /\ Len(frames) = 3 /\ Len(frames') = 2 /\ frames'[1] = frames[1]
           /\ frames[3] \in Buffers /\ frames[3].at = EndStage /\ frames[3].src = "orig"
           /\ frames[2].at = "orig" /\ frames'[2] \in Zmagics /\ pushed[1] \in Seq(Tokens)
           /\ \/ /\ Value(frames[3]) = -1 /\ frames'[2].at = "next" /\ frames'[2].rv = -1
                 /\ aborted' = (~hadErr /\ buf # << >>)
              \/ /\ Value(frames[3]) # -1 /\ frames'[2].at = "close" /\ frames'[2].rv = frames[2].rv
                 /\ ~hadErr => buf' = pushed[1] \o buf
                 /\ aborted' = aborted
           /\ UNCHANGED <<config, zmatch, hadErr, silent, mute, result>>
<1> USE Typed
<1>1. /\ Running("buffer") /\ Top.at = EndStage /\ Top.src = "orig"
      /\ UNCHANGED <<config, zmatch, compress, silent, mute, result>>
  BY DEF ReturnOrig, const
<1>2. /\ Len(frames) = 3 /\ Top = frames[3] /\ Top \in Buffers
      /\ frames[2] \in Zmagics /\ frames[2].i \in 1..zmatch /\ zmatch \in Nat /\ frames[2].at = "orig"
      /\ result = "none" /\ Len(pushed) = 1
  BY <1>1, Returning
<1>3. aborted \in BOOLEAN
  BY DEF Stack, Types
<1>4. pushed' \in Seq(Seq(Tokens)) /\ Len(pushed') = 0 /\ pushed[1] \in Seq(Tokens)
  <2>1. pushed' = SubSeq(pushed, 1, 0)
    BY <1>2 DEF ReturnOrig
  <2>2. pushed[1] \in Seq(Tokens)
    BY <1>2, EmptyPrefix
  <2> QED
    BY <1>2, <2>1, <2>2, EmptyPrefix
<1>5. pushed[1] \o buf \in Seq(Tokens)
  BY <1>4
<1> DEFINE z == frames[2]
<1>6. CASE Value(Top) = -1
  <2>1. ReturnTo(ZError(z)) /\ Pop(pushed[1]) /\ aborted' = (~hadErr /\ buf # << >>)
    BY <1>2, <1>6 DEF ReturnOrig
  <2>2. ZError(z) \in Zmagics /\ ZError(z).i = z.i + 1 /\ ZError(z).at = "next" /\ ZError(z).rv = -1
    BY <1>2, ZErrors
  <2>3. aborted' \in BOOLEAN
    BY <2>1
  <2>4. buf' \in Seq(Tokens) /\ hadErr' = hadErr
    BY <1>4, <2>1 DEF Pop
  <2>5. Stack' /\ Len(frames') = 2 /\ frames'[1] = frames[1] /\ frames'[2] = ZError(z)
    <3>1. ReturnTo(ZError(z)) /\ hadErr' \in BOOLEAN /\ silent' \in BOOLEAN /\ mute' \in BOOLEAN
      BY <1>1, <2>1, <2>4
    <3>2. ZError(z).i \in 1..(zmatch + 1) /\ ZError(z).at \notin {"inner", "orig", "open", "close", "out"}
      BY <1>2, <2>2
    <3> QED
      BY <1>1, <1>2, <1>4, <2>2, <2>3, <2>4, <3>1, <3>2, ReturnKeeps, Zenon
  <2> QED
    BY <1>1, <1>2, <1>4, <1>6, <2>1, <2>2, <2>4, <2>5
<1>7. CASE Value(Top) # -1
  <2> DEFINE g == [z EXCEPT !.at = "close"]
  <2>1. ReturnTo(g) /\ Pop(pushed[1] \o buf) /\ aborted' = aborted
    BY <1>2, <1>7 DEF ReturnOrig
  <2>2. g \in Zmagics /\ g.i = z.i /\ g.at = "close" /\ g.rv = z.rv
    BY <1>2 DEF Zmagics
  <2> HIDE DEF g
  <2>4. buf' \in Seq(Tokens) /\ hadErr' = hadErr /\ (~hadErr => buf' = pushed[1] \o buf)
    BY <1>5, <2>1 DEF Pop
  <2>5. Stack' /\ Len(frames') = 2 /\ frames'[1] = frames[1] /\ frames'[2] = g
    <3>1. hadErr' \in BOOLEAN /\ silent' \in BOOLEAN /\ mute' \in BOOLEAN /\ aborted' \in BOOLEAN
      BY <1>1, <1>3, <2>1, <2>4
    <3>2. g.i \in 1..(zmatch + 1) /\ g.at \notin {"inner", "orig"} /\ g.i <= zmatch
      BY <1>2, <2>2
    <3> QED
      BY <1>1, <1>2, <1>4, <2>1, <2>2, <2>4, <3>1, <3>2, ReturnKeeps, Zenon
  <2> QED
    BY <1>1, <1>2, <1>4, <1>7, <2>1, <2>2, <2>4, <2>5
<1> QED
  BY <1>6, <1>7

\* The frame of a call that file_zmagic() ends.
LEMMA EndFrame ==
    ASSUME NEW f \in Buffers
    PROVE  LET g == [f EXCEPT !.at = EndStage]
           IN  g \in Buffers /\ g.src = f.src /\ g.at = EndStage /\ g.m = f.m /\ g.rv = f.rv
BY FrameUpdates, StageNumbers, EndStage \in 1..12

\* The return from file_zmagic(): its result is the match, and ends file_buffer() unless 0.
LEMMA ZmagicReturn ==
    ASSUME Stack, ZReturn
    PROVE  /\ Stack' /\ Len(frames) = 2 /\ Len(frames') = 1 /\ frames[2] \in Zmagics
           /\ frames[2].at \in {"out", "next"} /\ (frames[2].at = "next" => frames[2].i > zmatch)
           /\ frames'[1] \in Buffers /\ frames'[1].m = frames[2].rv /\ frames'[1].rv = 0
           /\ frames'[1].at = IF frames[2].rv # 0 THEN EndStage ELSE 2
           /\ UNCHANGED <<config, zmatch, buf, hadErr, silent, mute, aborted, result>>
<1> USE Typed
<1>1. /\ Running("zmagic") /\ Top.at \in {"out", "next"} /\ (Top.at = "next" => Top.i > zmatch) /\ compress' = TRUE
      /\ UNCHANGED <<config, zmatch, buf, pushed, hadErr, silent, mute, aborted, result>>
  BY DEF ZReturn, AtZ, RestoreCompress, const
<1>2. /\ Top \in Zmagics /\ Len(frames) = 2 /\ frames \in Seq(Frames) /\ Top = frames[2]
      /\ result = "none" /\ zmatch \in Nat
  BY <1>1, TopZmagic
<1>3. frames[1] \in Buffers /\ frames[1].src = "main" /\ frames[1].at = 1 /\ frames[1].rv = 0
  BY <1>2 DEF Stack, Nested
<1> DEFINE f == [frames[1] EXCEPT !.m = Top.rv]
           g == IF Top.rv # 0 THEN [f EXCEPT !.at = EndStage] ELSE Skip(f)
<1>4. f \in Buffers /\ f.src = "main" /\ f.m = Top.rv /\ f.rv = 0 /\ f.at = 1
  BY ZenonT(30), <1>2, <1>3, FrameUpdates, Top.rv \in {-1, 0, 1} DEF Zmagics
<1>5. frames' = Append(SubSeq(frames, 1, Len(frames) - 2), g)
  BY <1>2 DEF ZReturn
<1> HIDE DEF f
<1>6. /\ g \in Buffers /\ g.src = "main" /\ g.m = Top.rv /\ g.rv = 0
      /\ g.at = IF Top.rv # 0 THEN EndStage ELSE 2
  <2>1. CASE Top.rv # 0
    <3>1. g = [f EXCEPT !.at = EndStage] /\ EndStage \in 1..12
      BY <2>1, StageNumbers
    <3> HIDE DEF g
    <3> QED
      BY <1>4, <2>1, <3>1, EndFrame
  <2>2. CASE Top.rv = 0
    BY <1>4, <2>2, Skips
  <2> QED
    BY <2>1, <2>2
<1> HIDE DEF g
<1>7. frames' \in Seq(Frames) /\ Len(frames') = 1 /\ frames'[1] = g
  BY <1>2, <1>5, <1>6, PopFrame DEF Frames
<1>8. Nested'
  BY <1>6, <1>7, StageNumbers DEF Nested
<1>9. Saved'
  <2>1. config.compress \in BOOLEAN /\ config.compress
    BY <1>2, Constants DEF Stack, Saved
  <2>2. compress' = config'.compress
    BY <1>1, <2>1, Zenon
  <2>3. pushed' \in Seq(Seq(Tokens)) /\ Len(pushed') = 0
    BY <1>1, <1>2 DEF Stack, Saved
  <2> QED
    BY <1>7, <2>2, <2>3 DEF Saved
<1>10. Types'
  BY <1>1, <1>2 DEF Stack, Types, Returned
<1> QED
  BY <1>1, <1>2, <1>6, <1>7, <1>8, <1>9, <1>10 DEF Stack

\* The return to the caller of the library turns the value into the result.
LEMMA MainReturn ==
    ASSUME Stack, ReturnMain
    PROVE  /\ Stack' /\ Len(frames) = 1 /\ frames' = << >> /\ Len(frames') = 0
           /\ frames[1] \in Buffers /\ frames[1].at = EndStage
           /\ result' = (CASE Value(frames[1]) = -1 -> "error" [] Value(frames[1]) = 0 -> "notfound"
                           [] Value(frames[1]) = 1 -> "found")
           /\ Value(frames[1]) \in {-1, 0, 1} /\ result = "none"
           /\ UNCHANGED <<config, zmatch, buf, hadErr, silent, mute, aborted>>
<1> USE Typed
<1>1. /\ Running("buffer") /\ Top.at = EndStage /\ Top.src = "main" /\ frames' = << >>
      /\ UNCHANGED <<config, zmatch, compress, buf, pushed, hadErr, silent, mute, aborted>>
  BY DEF ReturnMain, const
<1>2. Top \in Buffers /\ Len(frames) \in {1, 3} /\ Top = frames[Len(frames)] /\ result = "none"
  BY <1>1, TopBuffer
<1>3. Len(frames) = 1
  BY <1>1, <1>2 DEF Stack, Nested
<1>4. Value(Top) \in {-1, 0, 1}
  BY <1>2 DEF Value, Buffers
<1>5. result' \in {"error", "notfound", "found"}
  BY <1>4 DEF ReturnMain
<1>6. Nested' /\ Len(frames') = 0
  BY <1>1 DEF Nested
<1>7. Saved'
  <2>1. compress = config.compress
    <3>1. Len(frames) <= 1
      BY <1>3
    <3> QED
      BY <3>1, Zenon DEF Stack, Saved
  <2>2. compress' = config'.compress
    BY <1>1, <2>1, Zenon
  <2>3. pushed' \in Seq(Seq(Tokens)) /\ Len(pushed') = 0
    BY <1>1, <1>3 DEF Stack, Saved
  <2> QED
    BY <1>6, <2>2, <2>3 DEF Saved
<1>8. Types'
  BY <1>1, <1>5 DEF Stack, Types, Returned
<1> QED
  BY <1>1, <1>2, <1>3, <1>4, <1>6, <1>7, <1>8 DEF Stack, ReturnMain

\* Every step is one of these nine.
LEMMA Cases ==
    ASSUME Stack, Step
    PROVE  \/ Running("buffer") /\ \E g : Effect(g)
           \/ Zmagic /\ compress
           \/ Running("zmagic") /\ \E g : Zeffect(g)
           \/ ZData \/ OrigPushed \/ ReturnInner \/ ReturnOrig \/ ZReturn \/ ReturnMain
<1>1. ASSUME BufferStep PROVE Running("buffer") /\ \E g : Effect(g)
  BY <1>1, BufferSteps
<1>2. ASSUME ZErrdata \/ ZNodata \/ ZClose PROVE Running("zmagic") /\ \E g : Zeffect(g)
  BY <1>2, ZSteps
<1>3. ASSUME ZOpen PROVE (Running("zmagic") /\ \E g : Zeffect(g)) \/ OrigPushed
  BY <1>3, ZOpenStep
<1> QED
  BY <1>1, <1>2, <1>3, Zenon DEF Step, BufferStep

\* Each effect of a step of file_zmagic() leaves the stack in order.
LEMMA ZeffectKeeps ==
    ASSUME Stack, Running("zmagic"), NEW g, Zeffect(g)
    PROVE  Stack' /\ Len(frames') = 2 /\ frames'[2] = g /\ frames'[1] = frames[1]
BY ZworkKeeps DEF Zeffect

\* Every step leaves the stack in order,
LEMMA StackStep ==
    ASSUME Stack, [Next]_vars
    PROVE  Stack'
<1>1. CASE Step
  <2>1. ASSUME NEW g, Running("buffer"), Effect(g) PROVE Stack'
    BY <2>1, EffectKeeps
  <2>2. ASSUME NEW g, Running("zmagic"), Zeffect(g) PROVE Stack'
    BY <2>2, ZeffectKeeps
  <2> QED
    BY <1>1, <2>1, <2>2, Cases, ZmagicCall, ZDataCall, OrigCall, InnerReturn, OrigReturn, ZmagicReturn, MainReturn
<1>2. CASE UNCHANGED vars
  BY <1>2 DEF vars, Stack, Types, Nested, Saved, Returned
<1> QED
  BY <1>1, <1>2 DEF Next, Finished

\* in which it is at first,
LEMMA StackInit == Init => Stack
<1> SUFFICES ASSUME Init PROVE Stack
  OBVIOUS
<1>1. PICK fd \in Fds, size \in Sizes : frames = << FirstStage(BufferFrame("main", fd, size)) >>
  BY DEF Init
<1> DEFINE f == FirstStage(BufferFrame("main", fd, size))
<1>2. fd \in BOOLEAN
  BY InputsAssumption
<1>3. f \in Buffers /\ f.src = "main" /\ f.rv = 0
  BY <1>2, BufferFrames
<1>4. frames = << f >>
  BY <1>1
<1> HIDE DEF f
<1>5. frames \in Seq(Frames) /\ Len(frames) = 1 /\ frames[1] = f
  BY <1>3, <1>4 DEF Frames
<1>6. Nested
  BY <1>3, <1>5 DEF Nested
<1>7. config \in Configs /\ compress = config.compress /\ pushed = << >> /\ buf = << >> /\ zmatch \in Methods
      /\ hadErr = FALSE /\ silent = FALSE /\ mute = FALSE /\ aborted = FALSE /\ result = "none"
  BY DEF Init
<1>8. pushed \in Seq(Seq(Tokens)) /\ Len(pushed) = 0
  BY <1>7
<1>9. Saved
  BY <1>5, <1>7, <1>8 DEF Saved
<1>10. compress \in BOOLEAN
  BY <1>7, Constants, Zenon
<1>11. Types
  <2>1. buf \in Seq(Tokens)
    BY <1>7
  <2>2. hadErr \in BOOLEAN /\ silent \in BOOLEAN /\ mute \in BOOLEAN /\ aborted \in BOOLEAN
    BY <1>7
  <2>3. result \in {"none", "error", "notfound", "found"} /\ ~Returned
    BY <1>7 DEF Returned
  <2> QED
    BY <1>7, <1>10, <2>1, <2>2, <2>3 DEF Types
<1> QED
  BY <1>6, <1>9, <1>11 DEF Stack

\* and a stack in order has its types and the caller's MAGIC_COMPRESS when the call is over.
LEMMA StackTypes == Stack => TypeOK /\ CookieRestored
<1> SUFFICES ASSUME Stack PROVE TypeOK /\ CookieRestored
  OBVIOUS
<1>1. ASSUME NEW f \in Buffers PROVE FrameOK(f)
  BY DEF Buffers, FrameOK
<1>2. ASSUME NEW f \in Zmagics, f.i \in 1..(zmatch + 1) PROVE FrameOK(f)
  BY <1>2 DEF Zmagics, FrameOK
<1>3. \A i \in 1..Len(frames) : FrameOK(frames[i])
  <2>1. Len(frames) \in 0..3 /\ frames \in Seq(Frames)
    BY DEF Stack, Nested
  <2>2. /\ Len(frames) >= 1 => FrameOK(frames[1])
        /\ Len(frames) >= 2 => FrameOK(frames[2])
        /\ Len(frames) = 3 => FrameOK(frames[3])
    <3>1. /\ Len(frames) >= 1 => frames[1] \in Buffers
          /\ Len(frames) >= 2 => frames[2] \in Zmagics /\ frames[2].i \in 1..(zmatch + 1)
          /\ Len(frames) = 3 => frames[3] \in Buffers
      BY DEF Stack, Nested
    <3> QED
      BY <1>1, <1>2, <3>1, Zenon
  <2>3. ASSUME NEW i \in 1..Len(frames) PROVE i \in {1, 2, 3} /\ i <= Len(frames)
    <3> DEFINE n == Len(frames)
    <3>1. i \in 1..n /\ n \in 0..3
      BY <2>1
    <3> HIDE DEF n
    <3>2. i \in {1, 2, 3} /\ i <= n
      BY <3>1
    <3> QED
      BY <3>2 DEF n
  <2> QED
    BY <2>1, <2>2, <2>3
<1>4. Len(frames) <= 3 /\ Len(pushed) <= 1
  <2>1. Len(frames) \in 0..3 /\ frames \in Seq(Frames)
    BY DEF Stack, Nested
  <2>2. Len(pushed) \in 0..1 /\ pushed \in Seq(Seq(Tokens))
    BY DEF Stack, Saved
  <2> DEFINE n == Len(frames)
             k == Len(pushed)
  <2>3. n \in 0..3 /\ k \in 0..1
    BY <2>1, <2>2
  <2> HIDE DEF n, k
  <2>4. n <= 3 /\ k <= 1
    BY <2>3
  <2> QED
    BY <2>4 DEF n, k
<1>5. TypeOK
  BY <1>3, <1>4 DEF Stack, Types, TypeOK
<1>6. ASSUME Returned PROVE compress = config.compress /\ pushed = << >>
  <2>1. frames = << >>
    BY <1>6 DEF Stack, Types
  <2>2. Len(frames) = 0
    BY <2>1
  <2>3. pushed \in Seq(Seq(Tokens)) /\ Len(pushed) = 0
    BY <2>2 DEF Stack, Saved
  <2>4. compress = config.compress
    <3>1. Len(frames) <= 1
      BY <2>2
    <3> QED
      BY <3>1, Zenon DEF Stack, Saved
  <2> QED
    BY <2>3, <2>4, EmptySeq
<1> QED
  BY <1>5, <1>6 DEF CookieRestored

\* The calls nest as Stack says: file_zmagic() is never entered a second time, and every
\* variable has its type, for every set of flags and any number of entries of compr[].
THEOREM TypeCorrect == Spec => []TypeOK
<1>1. Spec => []Stack
  BY StackInit, StackStep, PTL DEF Spec
<1> QED
  BY <1>1, StackTypes, PTL

\* When file_buffer() returns, MAGIC_COMPRESS is what the caller set and no pushed
\* buffer is left, on every path through file_zmagic().
THEOREM CookieIsRestored == Spec => []CookieRestored
<1>1. Spec => []Stack
  BY StackInit, StackStep, PTL DEF Spec
<1> QED
  BY <1>1, StackTypes, PTL

-----------------------------------------------------------------------------
(* What is recorded.                                                       *)

\* A call that has failed has left an error, or one of its calls has failed in silence.
Failure == hadErr \/ silent
Recorded ==
    /\ Len(frames) >= 1 => (frames[1].rv = -1 \/ frames[1].m = -1 => Failure)
    /\ Len(frames) >= 2 => (frames[2].rv = -1 => Failure)
    /\ Len(frames) = 3 => (frames[3].rv = -1 \/ frames[3].m = -1 => Failure)
    /\ ErrorRecorded /\ NoAbort

\* A step of file_buffer() that ends with -1 leaves an error or has failed in silence;
LEMMA RecordedWork ==
    ASSUME Stack, Recorded, NEW g, Running("buffer"), Effect(g)
    PROVE  Recorded'
<1>1. /\ Top = frames[Len(frames)] /\ Len(frames) \in {1, 3} /\ result = "none"
  BY TopBuffer
<1>2. /\ frames'[Len(frames')] = g /\ Len(frames') = Len(frames)
      /\ \A i \in 1..(Len(frames) - 1) : frames'[i] = frames[i]
  BY EffectKeeps
<1>3. Failure => Failure'
  BY DEF Effect, Failure
<1>4. result' = result /\ aborted' = aborted /\ (silent => silent') /\ (mute => mute')
  BY DEF Effect, Work
<1>5. (g.rv = -1 /\ Top.rv # -1 => Failure') /\ (g.m = -1 /\ Top.m # -1 => Failure')
  BY DEF Effect, Failure
<1>6. ErrorRecorded' /\ NoAbort'
  BY <1>1, <1>4 DEF Recorded, ErrorRecorded, NoAbort
<1>7. CASE Len(frames) = 1
  BY <1>1, <1>2, <1>3, <1>5, <1>6, <1>7 DEF Recorded
<1>8. CASE Len(frames) = 3
  BY <1>1, <1>2, <1>3, <1>5, <1>6, <1>8 DEF Recorded
<1> QED
  BY <1>1, <1>7, <1>8

\* so does one of file_zmagic().
LEMMA RecordedZwork ==
    ASSUME Stack, Recorded, NEW g, Running("zmagic"), Zeffect(g)
    PROVE  Recorded'
<1>1. Top = frames[2] /\ Len(frames) = 2 /\ result = "none"
  BY TopZmagic
<1>2. Len(frames') = 2 /\ frames'[2] = g /\ frames'[1] = frames[1]
  BY ZeffectKeeps
<1>3. Failure => Failure'
  BY DEF Zeffect, Failure
<1>4. result' = result /\ aborted' = aborted /\ (silent => silent') /\ (mute => mute')
  BY DEF Zeffect, Zwork
<1>5. g.rv = -1 /\ Top.rv # -1 => Failure'
  BY DEF Zeffect, Failure
<1>6. ErrorRecorded' /\ NoAbort'
  BY <1>1, <1>4 DEF Recorded, ErrorRecorded, NoAbort
<1> QED
  BY <1>1, <1>2, <1>3, <1>5, <1>6 DEF Recorded

\* The value of a call is -1 only when its result or its match is.
LEMMA FailedValue ==
    ASSUME NEW f \in Buffers
    PROVE  /\ Value(f) = -1 => f.rv = -1 \/ f.m = -1
           /\ Value(f) \in {-1, 0, 1}
BY DEF Value, Buffers

\* Every failure is recorded, by every step,
LEMMA RecordedStep ==
    ASSUME Stack, Recorded, [Next]_vars
    PROVE  Recorded'
<1> SUFFICES ASSUME Step PROVE Recorded'
  BY DEF Next, Finished, vars, Recorded, ErrorRecorded, NoAbort, Failure
<1>1. CASE Zmagic /\ compress
  <2>1. Failure' = Failure /\ ErrorRecorded' = ErrorRecorded /\ NoAbort' = NoAbort
    BY <1>1, ZmagicCall DEF Failure, ErrorRecorded, NoAbort
  <2>2. Len(frames) = 1 /\ Len(frames') = 2 /\ frames'[1] = frames[1] /\ frames'[2].rv = 0
    BY <1>1, ZmagicCall DEF ZmagicFrame
  <2> QED
    BY <2>1, <2>2 DEF Recorded
<1>2. CASE ZData
  <2>1. Failure' = Failure /\ ErrorRecorded' = ErrorRecorded /\ NoAbort' = NoAbort
    BY <1>2, ZDataCall DEF Failure, ErrorRecorded, NoAbort
  <2>2. /\ Len(frames) = 2 /\ Len(frames') = 3 /\ frames'[1] = frames[1] /\ frames'[2].rv = frames[2].rv
        /\ frames'[3].rv = 0 /\ frames'[3].m = 0
    BY <1>2, ZDataCall
  <2> QED
    BY <2>1, <2>2 DEF Recorded
<1>3. CASE OrigPushed
  <2>1. Failure' = Failure /\ ErrorRecorded' = ErrorRecorded /\ NoAbort' = NoAbort
    BY <1>3, OrigCall DEF Failure, ErrorRecorded, NoAbort
  <2>2. /\ Len(frames) = 2 /\ Len(frames') = 3 /\ frames'[1] = frames[1] /\ frames'[2].rv = frames[2].rv
        /\ frames'[3].rv = 0 /\ frames'[3].m = 0
    BY <1>3, OrigCall
  <2> QED
    BY <2>1, <2>2 DEF Recorded
<1>4. CASE ReturnInner
  <2>1. Failure' = Failure /\ ErrorRecorded' = ErrorRecorded /\ NoAbort' = NoAbort
    BY <1>4, InnerReturn DEF Failure, ErrorRecorded, NoAbort
  <2>2. /\ Len(frames) = 3 /\ Len(frames') = 2 /\ frames'[1] = frames[1]
        /\ frames'[2].rv = -1 => Value(frames[3]) = -1
        /\ frames[3] \in Buffers
    BY <1>4, InnerReturn
  <2>3. frames'[2].rv = -1 => Failure
    BY <2>2, FailedValue DEF Recorded
  <2> QED
    BY <2>1, <2>2, <2>3 DEF Recorded
<1>5. CASE ReturnOrig
  <2>1. Failure' = Failure /\ ErrorRecorded' = ErrorRecorded
    BY <1>5, OrigReturn DEF Failure, ErrorRecorded
  <2>2. /\ Len(frames) = 3 /\ Len(frames') = 2 /\ frames'[1] = frames[1] /\ frames[3] \in Buffers
        /\ \/ Value(frames[3]) = -1 /\ frames'[2].rv = -1
           \/ frames'[2].rv = frames[2].rv /\ aborted' = aborted
    BY <1>5, OrigReturn
  <2>3. Value(frames[3]) = -1 => Failure
    BY <2>2, FailedValue DEF Recorded
  <2>4. frames'[2].rv = -1 => Failure
    BY <2>2, <2>3 DEF Recorded
  <2>5. NoAbort'
    <3>1. CASE Value(frames[3]) = -1
      <4>1. aborted' = (~hadErr /\ buf # << >>) /\ silent' = silent /\ mute' = mute
        BY <1>5, <3>1, OrigReturn
      <4> QED
        BY <2>3, <3>1, <4>1, Zenon DEF NoAbort, Failure
    <3>2. CASE Value(frames[3]) # -1
      <4>1. aborted' = aborted /\ silent' = silent /\ mute' = mute
        BY <1>5, <3>2, OrigReturn
      <4> QED
        BY <4>1, Zenon DEF NoAbort, Recorded
    <3> QED
      BY <3>1, <3>2
  <2> QED
    BY <2>1, <2>2, <2>4, <2>5 DEF Recorded
<1>6. CASE ZReturn
  <2>1. Failure' = Failure /\ ErrorRecorded' = ErrorRecorded /\ NoAbort' = NoAbort
    BY <1>6, ZmagicReturn DEF Failure, ErrorRecorded, NoAbort
  <2>2. /\ Len(frames) = 2 /\ Len(frames') = 1 /\ frames'[1].m = frames[2].rv /\ frames'[1].rv = 0
    BY <1>6, ZmagicReturn
  <2> QED
    BY <2>1, <2>2 DEF Recorded
<1>7. CASE ReturnMain
  <2>1. Failure' = Failure /\ NoAbort' = NoAbort
    BY <1>7, MainReturn DEF Failure, NoAbort
  <2>2. /\ Len(frames) = 1 /\ Len(frames') = 0 /\ frames[1] \in Buffers
        /\ result' = "error" => Value(frames[1]) = -1
    BY <1>7, MainReturn
  <2>3. ErrorRecorded'
    BY <2>1, <2>2, FailedValue DEF Recorded, ErrorRecorded, Failure
  <2> QED
    BY <2>1, <2>2, <2>3 DEF Recorded
<1>8. ASSUME NEW g, Running("buffer"), Effect(g) PROVE Recorded'
  BY <1>8, RecordedWork
<1>9. ASSUME NEW g, Running("zmagic"), Zeffect(g) PROVE Recorded'
  BY <1>9, RecordedZwork
<1> QED
  BY <1>1, <1>2, <1>3, <1>4, <1>5, <1>6, <1>7, <1>8, <1>9, Cases

\* and there is none at first.
LEMMA RecordedInit == Init => Recorded
<1> SUFFICES ASSUME Init PROVE Recorded
  OBVIOUS
<1>1. PICK fd \in Fds, size \in Sizes : frames = << FirstStage(BufferFrame("main", fd, size)) >>
  BY DEF Init
<1> DEFINE f == FirstStage(BufferFrame("main", fd, size))
<1>2. fd \in BOOLEAN
  BY InputsAssumption
<1>3. f.m = 0 /\ f.rv = 0
  BY <1>2, BufferFrames
<1>4. Len(frames) = 1 /\ frames[1] = f
  BY <1>1
<1> HIDE DEF f
<1>5. ErrorRecorded /\ NoAbort
  BY DEF Init, ErrorRecorded, NoAbort
<1> QED
  BY <1>3, <1>4, <1>5 DEF Recorded

\* file_buffer() returns -1 only when an error was recorded or a call failed in silence.
THEOREM ErrorIsRecorded == Spec => []ErrorRecorded
<1>1. Spec => [](Stack /\ Recorded)
  BY StackInit, StackStep, RecordedInit, RecordedStep, PTL DEF Spec
<1> QED
  BY <1>1, PTL DEF Recorded

\* The abort() of file_zmagic() is reached only after a call that failed in silence.
THEOREM NeverAborts == Spec => []NoAbort
<1>1. Spec => [](Stack /\ Recorded)
  BY StackInit, StackStep, RecordedInit, RecordedStep, PTL DEF Spec
<1> QED
  BY <1>1, PTL DEF Recorded

-----------------------------------------------------------------------------
(* What is said.                                                           *)

Good(b) == b # << >> /\ b[Len(b)] # "sep"
\* trim_separator() makes it good or empty.
Tidy(b) == b # << >> /\ b[Len(b)] = "sep" => Len(b) > 1 /\ b[Len(b) - 1] # "sep"

\* Text that ends in more than a separator still does behind other text.
LEMMA GoodConcat ==
    ASSUME NEW a \in Seq(Tokens), NEW b \in Seq(Tokens)
    PROVE  /\ Good(b) => Good(a \o b)
           /\ Good(Append(a, "charset"))
           /\ Good(b) => Tidy(b)
<1>1. ASSUME Good(b) PROVE Good(a \o b)
  <2>1. Len(a \o b) = Len(a) + Len(b) /\ Len(b) \in Nat /\ Len(a) \in Nat
    OBVIOUS
  <2>2. Len(b) # 0
    BY <1>1 DEF Good
  <2>3. (a \o b)[Len(a) + Len(b)] = b[Len(b)]
    BY <2>1, <2>2
  <2> QED
    BY <1>1, <2>1, <2>2, <2>3 DEF Good
<1>2. Good(Append(a, "charset"))
  <2>1. "charset" \in Tokens /\ "charset" # "sep"
    BY DEF Tokens
  <2>2. Len(Append(a, "charset")) = Len(a) + 1 /\ Len(a) \in Nat
        /\ Append(a, "charset")[Len(a) + 1] = "charset" /\ Append(a, "charset") \in Seq(Tokens)
    BY <2>1
  <2> QED
    BY <2>1, <2>2 DEF Good
<1>3. Good(b) => Tidy(b)
  BY DEF Good, Tidy
<1> QED
  BY <1>1, <1>2, <1>3

\* Tidy text has an end that is no separator once trimmed.
LEMMA TrimGood ==
    ASSUME NEW b \in Seq(Tokens), Tidy(b), b # << >>
    PROVE  Good(TrimSep(b))
<1>1. Len(b) \in Nat \ {0}
  OBVIOUS
<1>2. CASE Len(b) > 1 /\ b[Len(b)] = "sep"
  <2> DEFINE c == SubSeq(b, 1, Len(b) - 1)
  <2>1. Len(c) = Len(b) - 1 /\ c[Len(b) - 1] = b[Len(b) - 1] /\ c \in Seq(Tokens)
    BY <1>1, <1>2
  <2>2. b[Len(b) - 1] # "sep"
    BY <1>2 DEF Tidy
  <2>3. TrimSep(b) = c
    BY <1>2 DEF TrimSep
  <2> HIDE DEF c
  <2> QED
    BY <1>1, <1>2, <2>1, <2>2, <2>3 DEF Good
<1>3. CASE ~(Len(b) > 1 /\ b[Len(b)] = "sep")
  BY <1>3 DEF TrimSep, Tidy, Good
<1> QED
  BY <1>2, <1>3

\* A description with or without its separator is tidy.
LEMMA SaidTidy ==
    ASSUME NEW b \in Seq(Tokens), NEW t \in Tokens, t # "sep",
           NEW e \in {<< >>, << "elf" >>}, NEW s \in {<< >>, << "sep" >>}
    PROVE  Tidy(b \o (<< t >> \o e \o s)) /\ b \o (<< t >> \o e \o s) # << >>
<1>1. "elf" \in Tokens /\ "sep" \in Tokens
  BY DEF Tokens
<1> DEFINE c == << t >> \o e
<1>2. c \in Seq(Tokens) /\ Good(c)
  <2>1. CASE e = << >>
    BY <2>1 DEF Good
  <2>2. CASE e = << "elf" >>
    BY <1>1, <2>2 DEF Good
  <2> QED
    BY <2>1, <2>2
<1> HIDE DEF c
<1>3. CASE s = << >>
  <2>1. c \o s = c
    BY <1>2, <1>3
  <2>2. Good(b \o (c \o s)) /\ b \o (c \o s) \in Seq(Tokens)
    BY <1>2, <2>1, GoodConcat
  <2> QED
    BY <2>2 DEF c, Good, Tidy
<1>4. CASE s = << "sep" >>
  <2> DEFINE d == b \o c
  <2>1. Good(d) /\ d \in Seq(Tokens)
    BY <1>2, GoodConcat
  <2>2. b \o (c \o s) = Append(d, "sep")
    <3>1. (b \o c) \o << "sep" >> = b \o (c \o << "sep" >>)
      BY <1>1, <1>2
    <3>2. d \o << "sep" >> = Append(d, "sep")
      BY <1>1, <2>1
    <3> QED
      BY <1>4, <3>1, <3>2
  <2> HIDE DEF d
  <2>3. Len(Append(d, "sep")) = Len(d) + 1 /\ Len(d) \in Nat \ {0}
        /\ Append(d, "sep")[Len(d)] = d[Len(d)] /\ Append(d, "sep")[Len(d) + 1] = "sep"
    BY <1>1, <2>1 DEF Good
  <2>4. Tidy(Append(d, "sep")) /\ Append(d, "sep") # << >>
    BY <2>1, <2>3 DEF Good, Tidy
  <2> QED
    BY <2>2, <2>4 DEF c
<1> QED
  BY <1>3, <1>4

\* The call on top of the stack has said something when its result says so.
BufferSays(f) ==
    /\ f.at = DoneStage => f.m # 0
    /\ f.at = EndStage => Value(f) # 0
    /\ ~hadErr /\ ~silent /\ ~mute =>
        /\ config.mime # "enc" => Tidy(buf) /\ (f.m # 0 => buf # << >>)
        /\ f.at = EndStage => Good(buf)
ZmagicSays(f) ==
    /\ f.at \in {"open", "close", "out", "orig"} => f.rv = 1
    /\ ~hadErr /\ ~silent /\ ~mute =>
        /\ config.mime # "enc" => Tidy(buf)
        /\ f.rv = 1 => Good(buf)
Answering ==
    /\ Len(frames) \in {1, 3} => BufferSays(frames[Len(frames)])
    /\ Len(frames) = 2 => ZmagicSays(frames[2])
    /\ Len(frames) = 3 /\ frames[2].at = "orig" => frames[2].rv = 1
    /\ AlwaysAnswers

\* A step of file_buffer() that reports a match has said something;
LEMMA AnsweringWork ==
    ASSUME Stack, Recorded, Answering, NEW g, Running("buffer"), Effect(g)
    PROVE  Answering'
<1> USE Typed
<1>1. /\ Top = frames[Len(frames)] /\ Len(frames) \in {1, 3} /\ result = "none" /\ Top \in Buffers
  BY TopBuffer
<1>2. /\ frames'[Len(frames')] = g /\ Len(frames') = Len(frames)
      /\ \A i \in 1..(Len(frames) - 1) : frames'[i] = frames[i]
  BY EffectKeeps
<1>3. BufferSays(Top)
  BY <1>1 DEF Answering
<1>4. config' = config /\ result' = "none" /\ g \in Buffers
  BY <1>1 DEF Effect, Work
<1>5. g.at = DoneStage => g.m # 0
  BY DEF Effect
<1>6. g.at = EndStage => Value(g) # 0
  <2>1. g.at = EndStage => g.rv = -1 \/ (Top.at = DoneStage /\ g.m = Top.m)
    BY DEF Effect
  <2>2. Top.at = DoneStage => Top.m # 0
    BY <1>3 DEF BufferSays
  <2> QED
    BY <2>1, <2>2 DEF Value
<1>7. ASSUME ~hadErr', ~silent', ~mute'
      PROVE  /\ config.mime # "enc" => Tidy(buf') /\ (g.m # 0 => buf' # << >>)
             /\ g.at = EndStage => Good(buf')
  <2>1. ~hadErr /\ ~silent /\ ~mute
    BY <1>7 DEF Effect
  <2>2. config.mime # "enc" => Tidy(buf) /\ (Top.m # 0 => buf # << >>)
    BY <1>3, <2>1 DEF BufferSays
  <2>3. Quiet(g) \/ Says(g) \/ Ends(g)
    BY <1>7 DEF Effect
  <2>4. CASE Quiet(g)
    BY <2>2, <2>4 DEF Quiet
  <2>5. CASE Says(g)
    <3>1. g.at # EndStage
      BY <2>5 DEF Says
    <3>2. ASSUME config.mime # "enc" PROVE Tidy(buf') /\ buf' # << >>
      <4>1. PICK e \in {<< >>, << "elf" >>}, s \in {<< >>, << "sep" >>} :
               buf' = buf \o (Description(Top) \o e \o s)
        BY <2>5 DEF Says
      <4>2. Description(Top) = << Top.src >> /\ Top.src \in Tokens /\ Top.src # "sep"
        BY <1>1, <3>2 DEF Description, Buffers, Tokens
      <4>3. buf' = buf \o (<< Top.src >> \o e \o s)
        BY <4>1, <4>2
      <4> QED
        BY <4>2, <4>3, SaidTidy
    <3> QED
      BY <3>1, <3>2
  <2>6. CASE Ends(g)
    <3>1. Good(buf') /\ buf' \in Seq(Tokens)
      <4>1. CASE config.mime \in {"enc", "full"}
        BY <2>6, <4>1, Trimmed, GoodConcat DEF Ends
      <4>2. CASE config.mime \notin {"enc", "full"}
        <5>1. buf' = TrimSep(buf) /\ Top.at = DoneStage
          BY <2>6, <4>2 DEF Ends
        <5>2. Top.m # 0
          BY <1>3, <5>1 DEF BufferSays
        <5>3. Tidy(buf) /\ buf # << >>
          BY <2>2, <4>2, <5>2
        <5> QED
          BY <5>1, <5>3, TrimGood, Trimmed
      <4> QED
        BY <4>1, <4>2
    <3> QED
      BY <3>1, GoodConcat DEF Good
  <2> QED
    BY <2>3, <2>4, <2>5, <2>6
<1>8. BufferSays(g)'
  BY <1>4, <1>5, <1>6, <1>7 DEF BufferSays
<1>9. Len(frames) = 3 => frames'[2] = frames[2]
  BY <1>2, 2 \in 1..(3 - 1)
<1>10. AlwaysAnswers'
  BY <1>4 DEF AlwaysAnswers, Returned
<1> QED
  <2>1. BufferSays(frames[Len(frames)])'
    BY <1>2, <1>8 DEF BufferSays
  <2>2. Len(frames') = 3 /\ frames'[2].at = "orig" => frames'[2].rv = 1
    BY <1>2, <1>9 DEF Answering
  <2>3. Len(frames') # 2
    <3> DEFINE n == Len(frames)
    <3>1. n \in {1, 3} /\ Len(frames') = n
      BY <1>1, <1>2
    <3> HIDE DEF n
    <3> QED
      BY <3>1
  <2> QED
    BY <1>10, <2>1, <2>2, <2>3 DEF Answering

\* so has one of file_zmagic().
LEMMA AnsweringZwork ==
    ASSUME Stack, Recorded, Answering, NEW g, Running("zmagic"), Zeffect(g)
    PROVE  Answering'
<1> USE Typed
<1>1. Top = frames[2] /\ Len(frames) = 2 /\ result = "none"
  BY TopZmagic
<1>2. Len(frames') = 2 /\ frames'[2] = g /\ frames'[1] = frames[1]
  BY ZeffectKeeps
<1>3. ZmagicSays(Top)
  BY <1>1 DEF Answering
<1>4. config' = config /\ result' = "none" /\ g.at \notin {"orig", "inner"}
      /\ (g.at \in {"open", "close", "out"} => g.rv = 1)
  BY <1>1 DEF Zeffect, Zwork
<1>5. ASSUME ~hadErr', ~silent', ~mute'
      PROVE  /\ config.mime # "enc" => Tidy(buf')
             /\ g.rv = 1 => Good(buf')
  <2>1. ~hadErr /\ ~silent /\ ~mute /\ (ZQuiet(g) \/ ZSays(g) \/ ZCloses(g)) /\ buf' \in Seq(Tokens)
    BY <1>5 DEF Zeffect
  <2>2. (config.mime # "enc" => Tidy(buf)) /\ (Top.rv = 1 => Good(buf))
    BY <1>3, <2>1 DEF ZmagicSays
  <2>3. CASE ZQuiet(g)
    BY <2>2, <2>3 DEF ZQuiet
  <2>4. CASE ZSays(g)
    <3>1. << "z" >> \in Seq(Tokens) /\ Good(<< "z" >>)
      BY DEF Tokens, Good
    <3>2. Good(buf')
      BY <2>4, <3>1, GoodConcat DEF ZSays
    <3> QED
      BY <2>1, <3>2, GoodConcat
  <2>5. CASE ZCloses(g)
    <3>1. Top.rv = 1
      BY <1>3, <2>5 DEF ZmagicSays, ZCloses
    <3>2. Good(buf) /\ buf' = buf \o Closing
      BY <2>2, <2>5, <3>1 DEF ZCloses
    <3>3. Good(buf')
      <4>1. CASE config.mime = "no"
        <5>1. << ")" >> \in Seq(Tokens) /\ Good(<< ")" >>)
          BY DEF Tokens, Good
        <5>2. buf' = buf \o << ")" >>
          BY <3>2, <4>1 DEF Closing
        <5> QED
          BY <5>1, <5>2, GoodConcat
      <4>2. CASE config.mime # "no"
        <5>1. buf' = buf
          BY <3>2, <4>2 DEF Closing
        <5> QED
          BY <3>2, <5>1
      <4> QED
        BY <4>1, <4>2
    <3> QED
      BY <2>1, <3>3, GoodConcat
  <2> QED
    BY <2>1, <2>3, <2>4, <2>5
<1>6. ZmagicSays(g)'
  BY <1>4, <1>5 DEF ZmagicSays
<1>7. AlwaysAnswers'
  BY <1>4 DEF AlwaysAnswers, Returned
<1>8. ZmagicSays(frames[2])'
  BY <1>2, <1>6 DEF ZmagicSays
<1> QED
  BY <1>2, <1>7, <1>8 DEF Answering

\* Every step keeps the results and the text in agreement,
LEMMA AnsweringStep ==
    ASSUME Stack, Recorded, Answering, [Next]_vars
    PROVE  Answering'
<1> USE Typed
<1> SUFFICES ASSUME Step PROVE Answering'
  BY DEF Next, Finished, vars, Answering, BufferSays, ZmagicSays, AlwaysAnswers, Returned
<1>1. CASE Zmagic /\ compress
  <2>1. /\ Len(frames) = 1 /\ Len(frames') = 2 /\ frames'[2].at = "next" /\ frames'[2].rv = 0
        /\ UNCHANGED <<config, buf, hadErr, silent, mute, result>>
    BY <1>1, ZmagicCall DEF ZmagicFrame
  <2>2. BufferSays(frames[1])
    BY <2>1 DEF Answering
  <2>3. ZmagicSays(frames[2])'
    BY <2>1, <2>2 DEF ZmagicSays, BufferSays
  <2>4. AlwaysAnswers'
    BY <2>1 DEF Answering, AlwaysAnswers, Returned
  <2> QED
    BY <2>1, <2>3, <2>4 DEF Answering
<1>2. CASE ZData
  <2>1. /\ Len(frames) = 2 /\ Len(frames') = 3 /\ frames'[2].at = "inner" /\ frames'[3].m = 0
        /\ frames'[3].at \in {1, SimpleStage}
        /\ UNCHANGED <<config, buf, hadErr, silent, mute, result>>
    BY <1>2, ZDataCall
  <2>2. ZmagicSays(frames[2])
    BY <2>1 DEF Answering
  <2>3. BufferSays(frames[3])'
    BY <2>1, <2>2, StageNumbers DEF ZmagicSays, BufferSays
  <2>4. AlwaysAnswers'
    BY <2>1 DEF Answering, AlwaysAnswers, Returned
  <2> QED
    BY <2>1, <2>3, <2>4 DEF Answering
<1>3. CASE OrigPushed
  <2>1. /\ Len(frames) = 2 /\ Len(frames') = 3 /\ frames[2].at = "open" /\ frames'[2].rv = frames[2].rv
        /\ frames'[3].m = 0 /\ frames'[3].at = 1 /\ buf' = << >>
        /\ UNCHANGED <<config, hadErr, silent, mute, result>>
    BY <1>3, OrigCall
  <2>2. frames[2].rv = 1
    BY <2>1 DEF Answering, ZmagicSays
  <2>3. BufferSays(frames[3])'
    BY <2>1, StageNumbers DEF BufferSays, Tidy
  <2>4. AlwaysAnswers'
    <3>1. result = "none"
      BY <1>3, TopZmagic DEF OrigPushed, AtZ
    <3> QED
      BY <2>1, <3>1 DEF AlwaysAnswers, Returned
  <2> QED
    BY <2>1, <2>2, <2>3, <2>4 DEF Answering
<1>4. CASE ReturnInner
  <2>1. /\ Len(frames) = 3 /\ Len(frames') = 2 /\ frames[3] \in Buffers /\ frames[3].at = EndStage
        /\ \/ frames'[2].at = "next" /\ frames'[2].rv = -1
           \/ frames'[2].at \in {"open", "out"} /\ frames'[2].rv = 1
        /\ UNCHANGED <<config, buf, hadErr, silent, mute, result>>
    BY <1>4, InnerReturn
  <2>2. BufferSays(frames[3])
    BY <2>1 DEF Answering
  <2>3. ~hadErr /\ ~silent /\ ~mute => Good(buf)
    BY <2>1, <2>2 DEF BufferSays
  <2>4. ~hadErr /\ ~silent /\ ~mute => Tidy(buf)
    BY <2>3, GoodConcat
  <2>5. ZmagicSays(frames[2])'
    BY <2>1, <2>3, <2>4 DEF ZmagicSays
  <2>6. AlwaysAnswers'
    BY <2>1 DEF Answering, AlwaysAnswers, Returned
  <2> QED
    BY <2>1, <2>5, <2>6 DEF Answering
<1>5. CASE ReturnOrig
  <2>1. /\ Len(frames) = 3 /\ Len(frames') = 2 /\ frames[3] \in Buffers /\ frames[3].at = EndStage
        /\ frames[2].at = "orig" /\ pushed[1] \in Seq(Tokens) /\ UNCHANGED <<config, hadErr, silent, mute, result>>
        /\ \/ Value(frames[3]) = -1 /\ frames'[2].at = "next" /\ frames'[2].rv = -1
           \/ frames'[2].at = "close" /\ frames'[2].rv = frames[2].rv /\ (~hadErr => buf' = pushed[1] \o buf)
    BY <1>5, OrigReturn
  <2>2. BufferSays(frames[3]) /\ frames[2].rv = 1
    BY <2>1 DEF Answering
  <2>3. ~hadErr /\ ~silent /\ ~mute => Good(buf)
    BY <2>1, <2>2 DEF BufferSays
  <2>4. Value(frames[3]) = -1 => hadErr \/ silent
    BY <2>1, FailedValue DEF Recorded, Failure
  <2>5. ~hadErr' /\ ~silent' /\ ~mute' => Good(buf') /\ Tidy(buf')
    <3> SUFFICES ASSUME ~hadErr', ~silent', ~mute' PROVE Good(buf') /\ Tidy(buf')
      OBVIOUS
    <3>1. buf' = pushed[1] \o buf /\ Good(buf) /\ pushed[1] \in Seq(Tokens)
      BY <2>1, <2>3, <2>4
    <3>2. buf' \in Seq(Tokens)
      BY <3>1
    <3>3. Good(buf')
      BY <3>1, GoodConcat
    <3> QED
      BY <3>2, <3>3, GoodConcat
  <2>6. frames'[2].at \in {"next", "close"} /\ (frames'[2].at = "close" => frames'[2].rv = 1)
    BY <2>1, <2>2
  <2>7. ZmagicSays(frames[2])'
    BY <2>5, <2>6 DEF ZmagicSays
  <2>8. AlwaysAnswers'
    <3>1. result = "none"
      BY <1>5, TopBuffer DEF ReturnOrig
    <3> QED
      BY <2>1, <3>1 DEF AlwaysAnswers, Returned
  <2> QED
    BY <2>1, <2>7, <2>8 DEF Answering
<1>6. CASE ZReturn
  <2>1. /\ Len(frames) = 2 /\ Len(frames') = 1 /\ frames[2] \in Zmagics
        /\ frames'[1].m = frames[2].rv /\ frames'[1].rv = 0
        /\ frames'[1].at = IF frames[2].rv # 0 THEN EndStage ELSE 2
        /\ UNCHANGED <<config, buf, hadErr, silent, mute, result>>
    BY <1>6, ZmagicReturn
  <2>2. ZmagicSays(frames[2])
    BY <2>1 DEF Answering
  <2>3. frames[2].rv \in {-1, 0, 1} /\ (frames[2].rv = -1 => hadErr \/ silent)
    BY <2>1 DEF Zmagics, Recorded, Failure
  <2>4. ~hadErr /\ ~silent /\ ~mute =>
           /\ config.mime # "enc" => Tidy(buf)
           /\ frames[2].rv # 0 => Good(buf) /\ buf # << >>
    BY <2>2, <2>3 DEF ZmagicSays, Good
  <2>5. BufferSays(frames[1])'
    <3> DEFINE f == frames'[1]
    <3>1. f.m = frames[2].rv /\ f.rv = 0 /\ f.at = (IF frames[2].rv # 0 THEN 12 ELSE 2)
      BY <2>1, StageNumbers
    <3> HIDE DEF f
    <3>2. f.at # 11 /\ (f.at = 12 => f.m # 0) /\ (f.m # 0 => frames[2].rv # 0)
      BY <3>1
    <3>3. f.at = 12 => Value(f) # 0
      BY <3>1, <3>2 DEF Value
    <3>4. /\ f.at = DoneStage => f.m # 0
          /\ f.at = EndStage => Value(f) # 0
          /\ ~hadErr' /\ ~silent' /\ ~mute' =>
              /\ config'.mime # "enc" => Tidy(buf') /\ (f.m # 0 => buf' # << >>)
              /\ f.at = EndStage => Good(buf')
      <4>1. f.at # DoneStage /\ (f.at = EndStage => Value(f) # 0 /\ f.m # 0)
        BY <3>2, <3>3, StageNumbers
      <4>2. ~hadErr' /\ ~silent' /\ ~mute' =>
               /\ config'.mime # "enc" => Tidy(buf')
               /\ f.m # 0 => Good(buf') /\ buf' # << >>
        BY <2>1, <2>4, <3>2
      <4> QED
        BY <4>1, <4>2
    <3> QED
      BY <3>4, Zenon DEF BufferSays, f, Value
  <2>6. AlwaysAnswers'
    BY <2>1 DEF Answering, AlwaysAnswers, Returned
  <2> QED
    BY <2>1, <2>5, <2>6 DEF Answering
<1>7. CASE ReturnMain
  <2>1. /\ Len(frames) = 1 /\ Len(frames') = 0 /\ frames[1].at = EndStage
        /\ Value(frames[1]) \in {-1, 0, 1}
        /\ UNCHANGED <<config, buf, hadErr, silent, mute>>
    BY <1>7, MainReturn
  <2>2. BufferSays(frames[1])
    BY <2>1 DEF Answering
  <2>3. Value(frames[1]) # 0 /\ (~hadErr /\ ~silent /\ ~mute => Good(buf))
    BY <2>1, <2>2 DEF BufferSays
  <2>4. result' # "notfound"
    BY <1>7, <2>3, MainReturn
  <2>5. AlwaysAnswers'
    BY <2>1, <2>3, <2>4 DEF AlwaysAnswers, Good
  <2> QED
    BY <2>1, <2>5 DEF Answering
<1>8. ASSUME NEW g, Running("buffer"), Effect(g) PROVE Answering'
  BY <1>8, AnsweringWork
<1>9. ASSUME NEW g, Running("zmagic"), Zeffect(g) PROVE Answering'
  BY <1>9, AnsweringZwork
<1> QED
  BY <1>1, <1>2, <1>3, <1>4, <1>5, <1>6, <1>7, <1>8, <1>9, Cases

\* which they are at first.
LEMMA AnsweringInit == Init => Answering
<1> SUFFICES ASSUME Init PROVE Answering
  OBVIOUS
<1>1. PICK fd \in Fds, size \in Sizes : frames = << FirstStage(BufferFrame("main", fd, size)) >>
  BY DEF Init
<1> DEFINE f == FirstStage(BufferFrame("main", fd, size))
<1>2. fd \in BOOLEAN
  BY InputsAssumption
<1>3. f.m = 0 /\ f.at \in {1, SimpleStage}
  BY <1>2, BufferFrames
<1>4. Len(frames) = 1 /\ frames[1] = f
  BY <1>1
<1> HIDE DEF f
<1>5. BufferSays(f)
  BY <1>3, StageNumbers DEF BufferSays, Init, Tidy
<1>6. AlwaysAnswers
  BY DEF Init, AlwaysAnswers, Returned
<1> QED
  BY <1>4, <1>5, <1>6 DEF Answering

\* file_buffer() never returns 0, and without an error what it says is neither empty nor
\* ends in a separator, whatever the detectors find.
THEOREM Answers == Spec => []AlwaysAnswers
<1>1. Spec => [](Stack /\ Recorded /\ Answering)
  BY StackInit, StackStep, RecordedInit, RecordedStep, AnsweringInit, AnsweringStep, PTL DEF Spec
<1> QED
  BY <1>1, PTL DEF Answering

-----------------------------------------------------------------------------
(* How often.                                                              *)

\* The description of one piece of data.
Plain(b, src) ==
    /\ \A i \in 1..Len(b) : b[i] \in {src, "elf", "charset"} /\ (b[i] = src => i = 1)
    /\ config.mime # "enc" => b # << >> /\ b[1] = src

\* That of the contents, and then of the original data behind the parenthesis at k, which is
\* there only without a MIME type.
Behind(b, k, mime) ==
    \A i \in 1..Len(b) : /\ b[i] = "z" <=> i = 1
                         /\ b[i] = "(" <=> mime = "no" /\ i = k
                         /\ b[i] # "main"
Described(b, mime) == \E k \in 2..Len(b) : Behind(b, k, mime) /\ \A i \in 1..Len(b) : b[i] # ")"
Closed(b, mime) == \E k \in 2..Len(b) :
                     /\ Behind(b, k, mime)
                     /\ \A i \in 1..Len(b) : b[i] = ")" <=> mime = "no" /\ i = Len(b)

BufferOnce(f) == IF f.at <= SimpleStage THEN buf = << >> /\ f.m = 0 ELSE Plain(buf, f.src)
Whole(b) == Plain(b, "main") \/ Plain(b, "z") \/ Closed(b, config.mime)
ZmagicOnce(f) ==
    /\ f.at \in {"open", "out"} => Plain(buf, "z")
    /\ f.at = "close" => Described(buf, config.mime)
    /\ f.at = "open" => config.mime \in {"no", "full"}
    /\ f.at = "next" => IF f.rv = 0 THEN buf = << >> ELSE f.i > 1 /\ Closed(buf, config.mime)
OrigOnce == Described(pushed[1], config.mime)
Once ==
    ~hadErr /\ ~silent /\ ~mute /\ ~config.cont /\ zmatch <= 1 =>
        /\ Len(frames) = 1 => IF frames[1].at = EndStage THEN Whole(buf) ELSE BufferOnce(frames[1])
        /\ Len(frames) = 2 => ZmagicOnce(frames[2])
        /\ Len(frames) = 3 => BufferOnce(frames[3])
        /\ Len(frames) = 3 /\ frames[2].at = "orig" => OrigOnce
        /\ Returned => Whole(buf)

\* The pieces of text, one index at a time.
LEMMA Joined ==
    ASSUME NEW a \in Seq(Tokens), NEW b \in Seq(Tokens)
    PROVE  /\ a \o b \in Seq(Tokens) /\ Len(a \o b) = Len(a) + Len(b)
           /\ Len(a) \in Nat /\ Len(b) \in Nat
           /\ \A i \in 1..Len(a) : (a \o b)[i] = a[i]
           /\ \A i \in 1..(Len(a) + Len(b)) : i > Len(a) => (a \o b)[i] = b[i - Len(a)] /\ i - Len(a) \in 1..Len(b)
OBVIOUS

\* One piece of text behind others is the last.
LEMMA Tacked ==
    ASSUME NEW a \in Seq(Tokens), NEW b \in Seq(Tokens), Len(b) = 1
    PROVE  (a \o b)[Len(a) + 1] = b[1]
OBVIOUS

\* The ELF text, or none.
Elves == {<< >>, << "elf" >>}

\* What one detector says of the data, with the ELF text or without, is one description.
LEMMA PlainSaid ==
    ASSUME NEW f \in Buffers, NEW e \in Elves
    PROVE  Plain(Description(f) \o e, f.src)
<1> USE DEF Elves
<1> DEFINE t == f.src
           d == Description(f)
           c == d \o e
<1>1. t \in {"main", "z", "orig"} /\ t \in Tokens /\ "elf" \in Tokens
  BY DEF Tokens, Buffers
<1>2. CASE config.mime = "enc"
  <2>1. d = << >>
    BY <1>2 DEF Description
  <2>2. c = e
    BY <2>1
  <2>3. Len(e) \in {0, 1} /\ (Len(e) = 1 => e[1] = "elf")
    OBVIOUS
  <2> HIDE DEF c, d, t
  <2>4. Plain(c, t)
    BY <1>1, <1>2, <2>2, <2>3 DEF Plain
  <2> QED
    BY <2>4 DEF c, d, t
<1>3. CASE config.mime # "enc"
  <2>1. d = << t >>
    BY <1>3 DEF Description
  <2> HIDE DEF d, t
  <2>2. d \in Seq(Tokens) /\ Len(d) = 1 /\ d[1] = t
    BY <1>1, <2>1
  <2>3. e \in Seq(Tokens) /\ Len(e) \in {0, 1} /\ (Len(e) = 1 => e[1] = "elf")
    <3>1. CASE e = << >>
      BY <3>1
    <3>2. CASE e = << "elf" >>
      BY <1>1, <3>2
    <3> QED
      BY <3>1, <3>2
  <2>4. Len(c) = 1 + Len(e) /\ c[1] = t /\ (Len(e) = 1 => c[2] = "elf") /\ c \in Seq(Tokens)
    <3>1. Len(c) = 1 + Len(e) /\ c[1] = t /\ c \in Seq(Tokens)
      BY <2>2, <2>3, Joined
    <3>2. Len(e) = 1 => c[Len(d) + 1] = "elf"
      BY <2>2, <2>3, Tacked
    <3> QED
      BY <2>2, <3>1, <3>2
  <2> HIDE DEF c
  <2>5. \A i \in 1..Len(c) : c[i] \in {t, "elf", "charset"} /\ (c[i] = t => i = 1)
    <3>1. CASE Len(e) = 0
      BY <2>4, <3>1
    <3>2. CASE Len(e) = 1
      BY <1>1, <2>4, <3>2
    <3> QED
      BY <2>3, <3>1, <3>2
  <2>6. c # << >>
    BY <2>3, <2>4
  <2>7. Plain(c, t)
    BY <2>4, <2>5, <2>6 DEF Plain
  <2> QED
    BY <2>7 DEF c, d, t
<1> QED
  BY <1>2, <1>3

\* One description without separators is not trimmed, and may get its character set.
LEMMA PlainEnd ==
    ASSUME NEW b \in Seq(Tokens), NEW src \in {"main", "z", "orig"}, Plain(b, src)
    PROVE  /\ TrimSep(b) = b
           /\ Plain(Append(b, "charset"), src)
<1>1. Len(b) > 1 => b[Len(b)] # "sep"
  <2>1. Len(b) > 1 => Len(b) \in 1..Len(b)
    OBVIOUS
  <2> QED
    BY <2>1 DEF Plain
<1>2. TrimSep(b) = b
  BY <1>1 DEF TrimSep
<1> DEFINE c == Append(b, "charset")
<1>3. Len(c) = Len(b) + 1 /\ c[Len(b) + 1] = "charset" /\ Len(b) \in Nat /\ \A i \in 1..Len(b) : c[i] = b[i]
  OBVIOUS
<1> HIDE DEF c
<1>4. ASSUME NEW i \in 1..Len(c) PROVE c[i] \in {src, "elf", "charset"} /\ (c[i] = src => i = 1)
  <2>1. CASE i \in 1..Len(b)
    BY <1>3, <2>1 DEF Plain
  <2>2. CASE i = Len(b) + 1
    BY <1>3, <2>2
  <2> QED
    BY <1>3, <2>1, <2>2
<1>5. ASSUME config.mime # "enc" PROVE c # << >> /\ c[1] = src
  <2>1. b # << >> /\ b[1] = src
    BY <1>5 DEF Plain
  <2>2. 1 \in 1..Len(b)
    BY <2>1
  <2> QED
    BY <1>3, <2>1, <2>2
<1>6. Plain(c, src)
  BY <1>4, <1>5 DEF Plain
<1> QED
  BY <1>2, <1>6 DEF c

\* The contents and the opening parenthesis.
LEMMA OpenedDescribed ==
    ASSUME NEW b \in Seq(Tokens), Plain(b, "z"), config.mime \in {"no", "full"}
    PROVE  Described(b \o Paren, config.mime)
<1>1. Paren \in Seq(Tokens) /\ Len(Paren) = 1 /\ Paren[1] = IF config.mime = "no" THEN "(" ELSE "enc="
  <2>1. "(" \in Tokens /\ "enc=" \in Tokens
    BY DEF Tokens
  <2>2. CASE config.mime = "no"
    BY <2>1, <2>2 DEF Paren
  <2>3. CASE config.mime # "no"
    BY <2>1, <2>3 DEF Paren
  <2> QED
    BY <2>2, <2>3
<1>2. b # << >> /\ b[1] = "z"
  BY DEF Plain
<1>3. Len(b) \in Nat \ {0}
  BY <1>2
<1> DEFINE p == b \o Paren
           k == Len(b) + 1
<1>4. Len(p) = k /\ p[k] = Paren[1] /\ \A i \in 1..Len(b) : p[i] = b[i]
  <2>1. Len(p) = Len(b) + 1 /\ \A i \in 1..Len(b) : p[i] = b[i]
    <3>1. Len(p) = Len(b) + Len(Paren) /\ \A i \in 1..Len(b) : p[i] = b[i]
      BY <1>1, Joined, Zenon
    <3> QED
      BY <1>1, <3>1, Zenon
  <2>2. k \in 1..(Len(b) + Len(Paren)) /\ k > Len(b) /\ k - Len(b) = 1
    BY <1>1, <1>3
  <2>3. p[k] = Paren[1]
    BY <1>1, Tacked
  <2> QED
    BY <2>1, <2>3
<1> HIDE DEF p
<1>5. ASSUME NEW i \in 1..Len(p)
      PROVE  /\ p[i] = "z" <=> i = 1
             /\ p[i] = "(" <=> config.mime = "no" /\ i = k
             /\ p[i] # "main" /\ p[i] # ")"
  <2>1. CASE i \in 1..Len(b)
    <3>1. p[i] = b[i] /\ b[i] \in {"z", "elf", "charset"} /\ (b[i] = "z" => i = 1) /\ i # k
      BY <1>3, <1>4, <2>1 DEF Plain
    <3> QED
      BY <1>2, <3>1
  <2>2. CASE i = k
    BY <1>1, <1>3, <1>4, <2>2
  <2> QED
    BY <1>3, <1>4, <2>1, <2>2
<1>6. k \in 2..Len(p)
  BY <1>3, <1>4
<1> HIDE DEF k
<1> QED
  BY <1>5, <1>6 DEF Described, Behind, p

\* The contents, the parenthesis and the original data.
LEMMA DescribedJoined ==
    ASSUME NEW p \in Seq(Tokens), NEW o \in Seq(Tokens), Described(p, config.mime), Plain(o, "orig")
    PROVE  Described(p \o o, config.mime)
<1>1. PICK k \in 2..Len(p) : Behind(p, k, config.mime) /\ \A i \in 1..Len(p) : p[i] # ")"
  BY DEF Described
<1> DEFINE b == p \o o
<1>2. /\ Len(b) = Len(p) + Len(o) /\ Len(p) \in Nat /\ Len(o) \in Nat
      /\ \A i \in 1..Len(p) : b[i] = p[i]
      /\ \A i \in 1..(Len(p) + Len(o)) : i > Len(p) => b[i] = o[i - Len(p)] /\ i - Len(p) \in 1..Len(o)
  BY Joined
<1> HIDE DEF b
<1>3. ASSUME NEW i \in 1..Len(b)
      PROVE  /\ b[i] = "z" <=> i = 1
             /\ b[i] = "(" <=> config.mime = "no" /\ i = k
             /\ b[i] # "main" /\ b[i] # ")"
  <2>1. CASE i \in 1..Len(p)
    BY <1>1, <1>2, <2>1 DEF Behind
  <2>2. CASE i \notin 1..Len(p)
    <3>1. i > Len(p) /\ i # 1 /\ i # k
      BY <1>1, <1>2, <2>2
    <3>2. b[i] = o[i - Len(p)] /\ i - Len(p) \in 1..Len(o)
      BY <1>2, <3>1
    <3>3. b[i] \in {"orig", "elf", "charset"}
      BY <3>2 DEF Plain
    <3> QED
      BY <3>1, <3>3
  <2> QED
    BY <2>1, <2>2
<1>4. k \in 2..Len(b)
  BY <1>1, <1>2
<1> QED
  BY <1>3, <1>4 DEF Described, Behind, b

\* The same with its closing parenthesis.
LEMMA DescribedClosed ==
    ASSUME NEW p \in Seq(Tokens), Described(p, config.mime)
    PROVE  Closed(p \o Closing, config.mime)
<1>1. PICK k \in 2..Len(p) : Behind(p, k, config.mime) /\ \A i \in 1..Len(p) : p[i] # ")"
  BY DEF Described
<1>2. CASE config.mime # "no"
  <2>1. p \o Closing = p
    BY <1>2 DEF Closing
  <2> QED
    BY <1>1, <1>2, <2>1 DEF Closed
<1>3. CASE config.mime = "no"
  <2> DEFINE b == p \o << ")" >>
  <2>1. b = p \o Closing
    BY <1>3 DEF Closing
  <2>2. ")" \in Tokens
    BY DEF Tokens
  <2>3. Len(b) = Len(p) + 1 /\ Len(p) \in Nat /\ b[Len(p) + 1] = ")" /\ \A i \in 1..Len(p) : b[i] = p[i]
    BY <2>2
  <2> HIDE DEF b
  <2>4. ASSUME NEW i \in 1..Len(b)
        PROVE  /\ b[i] = "z" <=> i = 1
               /\ b[i] = "(" <=> config.mime = "no" /\ i = k
               /\ b[i] # "main"
               /\ b[i] = ")" <=> config.mime = "no" /\ i = Len(b)
    <3>1. CASE i \in 1..Len(p)
      BY <1>1, <1>3, <2>3, <3>1 DEF Behind
    <3>2. CASE i = Len(p) + 1
      <4>1. b[i] = ")" /\ i # 1 /\ i # k /\ i = Len(b)
        BY <1>1, <2>3, <3>2
      <4> QED
        BY <1>3, <4>1
    <3> QED
      BY <2>3, <3>1, <3>2
  <2>5. k \in 2..Len(b)
    BY <1>1, <2>3
  <2>6. Closed(b, config.mime)
    BY <2>4, <2>5 DEF Closed, Behind
  <2> QED
    BY <2>1, <2>6
<1> QED
  BY <1>2, <1>3

\* A step of file_buffer() says nothing twice;
LEMMA OnceWork ==
    ASSUME Stack, Once, NEW g, Running("buffer"), Effect(g)
    PROVE  Once'
<1> USE Typed
<1>1. /\ Top = frames[Len(frames)] /\ Len(frames) \in {1, 3} /\ result = "none" /\ Top \in Buffers
  BY TopBuffer
<1>2. /\ frames'[Len(frames')] = g /\ Len(frames') = Len(frames)
      /\ \A i \in 1..(Len(frames) - 1) : frames'[i] = frames[i]
  BY EffectKeeps
<1>3. config' = config /\ zmatch' = zmatch /\ pushed' = pushed /\ result' = "none" /\ g \in Buffers /\ g.src = Top.src
  BY <1>1 DEF Effect, Work
<1> SUFFICES ASSUME ~hadErr', ~silent', ~mute', ~config.cont, zmatch <= 1
             PROVE  /\ Len(frames') = 1 => IF g.at = EndStage THEN Whole(buf)' ELSE BufferOnce(g)'
                    /\ Len(frames') = 3 => BufferOnce(g)'
                    /\ Len(frames') = 3 /\ frames'[2].at = "orig" => OrigOnce'
  <2>1. ~Returned'
    BY <1>3 DEF Returned
  <2>2. Len(frames') # 2
    <3> DEFINE n == Len(frames)
    <3>1. n \in {1, 3} /\ Len(frames') = n
      BY <1>1, <1>2
    <3> HIDE DEF n
    <3> QED
      BY <3>1
  <2>3. Len(frames') = 1 => frames'[1] = g
    BY <1>2
  <2>4. Len(frames') = 3 => frames'[3] = g
    BY <1>2
  <2> QED
    BY <1>3, <2>1, <2>2, <2>3, <2>4 DEF Once, BufferOnce
<1>4. ~hadErr /\ ~silent /\ ~mute
  BY DEF Effect
<1>5. (Quiet(g) /\ Top.at <= SimpleStage) \/ (Says(g) /\ Top.at <= SimpleStage) \/ (Ends(g) /\ Top.at = DoneStage)
  BY DEF Effect, Quiet, Says, Ends
<1>6. Top.at # EndStage
  BY <1>1, <1>5, StageNumbers DEF Buffers
<1>11. Len(frames') = 3 /\ frames'[2].at = "orig" => OrigOnce'
  <2> SUFFICES ASSUME Len(frames') = 3, frames'[2].at = "orig" PROVE OrigOnce'
    OBVIOUS
  <2>1. Len(frames) = 3 /\ frames'[2] = frames[2]
    BY <1>2, 2 \in 1..(3 - 1)
  <2>2. OrigOnce
    BY <1>4, <2>1 DEF Once
  <2>3. pushed'[1] = pushed[1] /\ config' = config
    BY <1>3
  <2> QED
    BY <2>2, <2>3, Zenon DEF OrigOnce
<1>7. BufferOnce(Top)
  <2>1. CASE Len(frames) = 1
    BY <1>1, <1>4, <1>6, <2>1 DEF Once
  <2>2. CASE Len(frames) = 3
    BY <1>1, <1>4, <2>2 DEF Once
  <2> QED
    BY <1>1, <2>1, <2>2
<1>8. CASE Quiet(g) /\ Top.at <= SimpleStage
  <2>1. buf = << >> /\ Top.m = 0
    BY <1>7, <1>8 DEF BufferOnce
  <2>2. buf' = << >> /\ g.m = 0 /\ ~(g.at > SimpleStage)
    BY <1>8, <2>1 DEF Quiet
  <2>3. g.at <= SimpleStage /\ g.at # EndStage
    BY <1>3, <2>2, StageNumbers DEF Buffers
  <2> QED
    BY <1>11, <2>2, <2>3 DEF BufferOnce
<1>9. CASE Says(g) /\ Top.at <= SimpleStage
  <2>1. buf = << >>
    BY <1>7, <1>9 DEF BufferOnce
  <2>2. g.at = DoneStage
    BY <1>9 DEF Says
  <2>3. PICK e \in {<< >>, << "elf" >>}, s \in {<< >>, << "sep" >>} :
           buf' = buf \o (Description(Top) \o e \o s) /\ (s # << >> => config.cont)
    BY <1>9 DEF Says
  <2>4. s = << >>
    BY <2>3
  <2>5. Description(Top) \o e \in Seq(Tokens)
    <3>1. Description(Top) \in Seq(Tokens) /\ << "elf" >> \in Seq(Tokens) /\ << >> \in Seq(Tokens)
      BY Descriptions
    <3>2. e \in Seq(Tokens)
      BY <3>1
    <3> QED
      BY <3>1, <3>2
  <2>6. buf' = Description(Top) \o e
    BY <2>1, <2>3, <2>4, <2>5
  <2>7. Plain(buf', Top.src)
    <3>2. Plain(Description(Top) \o e, Top.src)
      <4>1. e \in Elves
        BY DEF Elves
      <4> QED
        BY <1>1, <4>1, PlainSaid
    <3> QED
      BY <2>6, <3>2
  <2>8. BufferOnce(g)' /\ g.at # EndStage
    BY <1>3, <2>2, <2>7, StageNumbers DEF BufferOnce, Plain
  <2> QED
    BY <1>11, <2>8
<1>10. CASE Ends(g) /\ Top.at = DoneStage
  <2>1. Plain(buf, Top.src) /\ Top.src \in {"main", "z", "orig"}
    BY <1>1, <1>7, <1>10, StageNumbers DEF BufferOnce, Buffers
  <2>2. Plain(buf', Top.src)
    <3>1. TrimSep(buf) = buf /\ Plain(Append(buf, "charset"), Top.src)
      BY <2>1, PlainEnd
    <3>2. buf' \in {buf, Append(buf, "charset")}
      BY <1>10, <3>1 DEF Ends
    <3> QED
      BY <2>1, <3>1, <3>2
  <2>3. g.at = EndStage
    BY <1>10 DEF Ends
  <2>4. BufferOnce(g)'
    BY <1>3, <2>2, <2>3, StageNumbers DEF BufferOnce, Plain
  <2>5. Len(frames) = 1 => Whole(buf)'
    <3>1. Len(frames) = 1 => Top.src = "main"
      BY <1>1 DEF Stack, Nested
    <3> QED
      BY <1>3, <2>2, <3>1 DEF Whole, Plain
  <2> QED
    BY <1>2, <1>11, <2>3, <2>4, <2>5
<1> QED
  BY <1>5, <1>8, <1>9, <1>10

\* nor does one of file_zmagic().
LEMMA OnceZwork ==
    ASSUME Stack, Once, Answering, NEW g, Running("zmagic"), Zeffect(g)
    PROVE  Once'
<1> USE Typed
<1>1. Top = frames[2] /\ Len(frames) = 2 /\ result = "none" /\ Top \in Zmagics /\ zmatch \in Nat
  BY TopZmagic
<1>2. Len(frames') = 2 /\ frames'[2] = g /\ frames'[1] = frames[1]
  BY ZeffectKeeps
<1>3. config' = config /\ zmatch' = zmatch /\ result' = "none" /\ g \in Zmagics
  BY <1>1 DEF Zeffect, Zwork
<1> SUFFICES ASSUME ~hadErr', ~silent', ~mute', ~config.cont, zmatch <= 1
             PROVE  ZmagicOnce(g)'
  BY <1>2, <1>3 DEF Once, Returned, ZmagicOnce
<1>4. ~hadErr /\ ~silent /\ ~mute /\ (ZQuiet(g) \/ ZSays(g) \/ ZCloses(g))
      /\ (g.at \in {"open", "close"} => config.mime \in {"no", "full"})
  BY DEF Zeffect
<1>5. ZmagicOnce(Top) /\ Top.i \in 1..(zmatch + 1)
  BY <1>1, <1>4 DEF Once, Stack, Nested
<1>6. ASSUME Top.at = "next", Top.i <= zmatch PROVE Top.rv = 0 /\ buf = << >>
  <2>1. ~(Top.i > 1)
    BY <1>1, <1>5, <1>6
  <2> QED
    BY <1>5, <1>6, <2>1 DEF ZmagicOnce
<1>7. CASE ZQuiet(g)
  <2>1. g.at = "next" /\ g.rv = 0 /\ buf' = << >>
    BY <1>6, <1>7 DEF ZQuiet
  <2> QED
    BY <2>1 DEF ZmagicOnce
<1>8. CASE ZSays(g)
  <2>1. g.at \in {"open", "out"} /\ buf' = << "z" >>
    <3>1. g.at \in {"open", "out"} /\ buf' = buf \o << "z" >> /\ buf = << >>
      BY <1>6, <1>8 DEF ZSays
    <3>2. << >> \o << "z" >> = << "z" >>
      OBVIOUS
    <3> QED
      BY <3>1, <3>2
  <2>2. Plain(buf, "z")'
    BY <2>1 DEF Plain
  <2> QED
    BY <1>3, <1>4, <2>1, <2>2 DEF ZmagicOnce
<1>9. CASE ZCloses(g)
  <2>1. Described(buf, config.mime) /\ buf' = buf \o Closing /\ g.at = "next" /\ g.rv = Top.rv /\ g.i = Top.i + 1
    BY <1>5, <1>9 DEF ZmagicOnce, ZCloses
  <2>2. Closed(buf', config.mime)
    BY <2>1, DescribedClosed
  <2>3. Closed(buf, config.mime)'
    BY <1>3, <2>2
  <2>4. g.rv # 0
    BY <1>1, <1>9, <2>1 DEF Answering, ZmagicSays, ZCloses
  <2>5. g.i > 1
    BY <1>1, <1>5, <2>1
  <2> QED
    BY <2>1, <2>3, <2>4, <2>5 DEF ZmagicOnce
<1> QED
  BY <1>4, <1>7, <1>8, <1>9

\* Every step keeps it so,
LEMMA OnceStep ==
    ASSUME Stack, Recorded, Answering, Once, [Next]_vars
    PROVE  Once'
<1> USE Typed
<1> SUFFICES ASSUME Step PROVE Once'
  <2> SUFFICES ASSUME UNCHANGED vars PROVE Once'
    BY DEF Next, Finished
  <2> USE DEF vars
  <2>1. Whole(buf)' <=> Whole(buf)
    BY DEF Whole, Plain
  <2>2. (BufferOnce(frames[1])' <=> BufferOnce(frames[1])) /\ (BufferOnce(frames[3])' <=> BufferOnce(frames[3]))
    BY DEF BufferOnce, Plain
  <2>3. (Described(buf, config.mime)' <=> Described(buf, config.mime)) /\ (Closed(buf, config.mime)' <=> Closed(buf, config.mime)) /\ (Plain(buf, "z")' <=> Plain(buf, "z"))
    BY DEF Plain
  <2>4. ZmagicOnce(frames[2])' <=> ZmagicOnce(frames[2])
    BY <2>3 DEF ZmagicOnce
  <2>5. OrigOnce' <=> OrigOnce
    BY DEF OrigOnce
  <2> QED
    BY <2>1, <2>2, <2>4, <2>5 DEF Once, Returned
<1> DEFINE H == ~hadErr /\ ~silent /\ ~mute /\ ~config.cont /\ zmatch <= 1
<1>1. CASE Zmagic /\ compress
  <2>1. /\ Len(frames) = 1 /\ Len(frames') = 2 /\ frames[1].at = 1 /\ frames'[2].at = "next" /\ frames'[2].rv = 0
        /\ UNCHANGED <<config, zmatch, buf, hadErr, silent, mute, result>> /\ result = "none"
    BY <1>1, ZmagicCall, TopBuffer DEF ZmagicFrame, Zmagic, AtStage
  <2>2. H => buf = << >>
    BY <2>1, StageNumbers DEF Once, BufferOnce
  <2>3. H => ZmagicOnce(frames[2])'
    BY <2>1, <2>2 DEF ZmagicOnce
  <2> QED
    BY <2>1, <2>3 DEF Once, Returned
<1>2. CASE ZData
  <2>1. /\ Len(frames) = 2 /\ Len(frames') = 3 /\ frames[2].at = "next" /\ frames[2].i <= zmatch
        /\ frames'[2].at = "inner" /\ frames'[3].m = 0 /\ frames'[3].at \in {1, SimpleStage}
        /\ UNCHANGED <<config, zmatch, buf, hadErr, silent, mute, result>>
    BY <1>2, ZDataCall
  <2>2. result = "none" /\ zmatch \in Nat /\ frames[2] \in Zmagics
    BY <1>2, TopZmagic DEF ZData, AtZ
  <2>3. H => ~(frames[2].i > 1)
    BY <2>1, <2>2 DEF Zmagics
  <2>4. H => buf = << >>
    BY <2>1, <2>3 DEF Once, ZmagicOnce
  <2>5. H => BufferOnce(frames[3])'
    BY <2>1, <2>4, StageNumbers DEF BufferOnce
  <2> QED
    BY <2>1, <2>2, <2>5 DEF Once, Returned
<1>3. CASE OrigPushed
  <2>1. /\ Len(frames) = 2 /\ Len(frames') = 3 /\ frames[2].at = "open" /\ pushed'[1] = buf \o Paren
        /\ frames'[3].m = 0 /\ frames'[3].at = 1 /\ buf' = << >>
        /\ UNCHANGED <<config, zmatch, hadErr, silent, mute, result>>
    BY <1>3, OrigCall
  <2>2. result = "none"
    BY <1>3, TopZmagic DEF OrigPushed, AtZ
  <2>3. BufferOnce(frames[3])'
    BY <2>1, StageNumbers DEF BufferOnce
  <2>4. H => Plain(buf, "z") /\ config.mime \in {"no", "full"}
    BY <2>1 DEF Once, ZmagicOnce
  <2>5. H => Described(buf \o Paren, config.mime)
    BY <2>4, OpenedDescribed
  <2>6. H => OrigOnce'
    BY <2>1, <2>5 DEF OrigOnce
  <2> QED
    BY <2>1, <2>2, <2>3, <2>6 DEF Once, Returned
<1>4. CASE ReturnInner
  <2>1. /\ Len(frames) = 3 /\ Len(frames') = 2 /\ frames[3] \in Buffers /\ frames[3].at = EndStage /\ frames[3].src = "z"
        /\ \/ Value(frames[3]) = -1
           \/ /\ frames'[2].at \in {"open", "out"}
              /\ frames'[2].at = "open" => config.mime \in {"no", "full"}
        /\ UNCHANGED <<config, zmatch, buf, hadErr, silent, mute, result>>
    BY <1>4, InnerReturn
  <2>2. result = "none"
    BY <1>4, TopBuffer DEF ReturnInner
  <2>3. H => Plain(buf, "z")
    BY <2>1, StageNumbers DEF Once, BufferOnce
  <2>4. H => Value(frames[3]) # -1
    BY <2>1, FailedValue DEF Recorded, Failure
  <2>5. H => ZmagicOnce(frames[2])'
    BY <2>1, <2>3, <2>4 DEF ZmagicOnce, Plain
  <2> QED
    BY <2>1, <2>2, <2>5 DEF Once, Returned
<1>5. CASE ReturnOrig
  <2>1. /\ Len(frames) = 3 /\ Len(frames') = 2 /\ frames[3] \in Buffers /\ frames[3].at = EndStage
        /\ frames[3].src = "orig" /\ frames[2].at = "orig" /\ pushed[1] \in Seq(Tokens)
        /\ \/ Value(frames[3]) = -1
           \/ frames'[2].at = "close" /\ (~hadErr => buf' = pushed[1] \o buf)
        /\ UNCHANGED <<config, zmatch, hadErr, silent, mute, result>>
    BY <1>5, OrigReturn
  <2>2. result = "none"
    BY <1>5, TopBuffer DEF ReturnOrig
  <2>3. H => Plain(buf, "orig") /\ Described(pushed[1], config.mime)
    BY <2>1, StageNumbers DEF Once, BufferOnce, OrigOnce
  <2>4. H => Value(frames[3]) # -1
    BY <2>1, FailedValue DEF Recorded, Failure
  <2>5. H => Described(pushed[1] \o buf, config.mime)
    BY <2>1, <2>3, DescribedJoined
  <2>7. H => ZmagicOnce(frames[2])'
    <3> SUFFICES ASSUME H PROVE ZmagicOnce(frames[2])'
      OBVIOUS
    <3>1. frames'[2].at = "close" /\ buf' = pushed[1] \o buf
      BY <2>1, <2>4
    <3>2. Described(buf, config.mime)'
      <4> DEFINE c == pushed[1] \o buf
      <4>1. Described(c, config.mime) /\ buf' = c /\ config' = config
        BY <2>1, <2>5, <3>1
      <4> HIDE DEF c
      <4> QED
        BY <4>1
    <3> QED
      BY <2>1, <3>1, <3>2 DEF ZmagicOnce
  <2> QED
    BY <2>1, <2>2, <2>7 DEF Once, Returned
<1>6. CASE ZReturn
  <2>1. /\ Len(frames) = 2 /\ Len(frames') = 1 /\ frames[2] \in Zmagics
        /\ frames[2].at \in {"out", "next"}
        /\ frames'[1].m = frames[2].rv /\ frames'[1].rv = 0
        /\ frames'[1].at = IF frames[2].rv # 0 THEN EndStage ELSE 2
        /\ UNCHANGED <<config, zmatch, buf, hadErr, silent, mute, result>>
    BY <1>6, ZmagicReturn
  <2>2. result = "none"
    BY <1>6, TopZmagic DEF ZReturn, AtZ
  <2>3. frames[2].at = "out" => frames[2].rv # 0
    BY <2>1 DEF Answering, ZmagicSays
  <2>4. H => IF frames[2].rv = 0 THEN buf = << >> ELSE Whole(buf)
    BY <2>1, <2>3 DEF Once, ZmagicOnce, Whole
  <2>5. CASE frames[2].rv = 0
    <3>1. frames'[1].at = 2 /\ frames'[1].m = 0 /\ (H => buf' = << >>)
      BY <2>1, <2>4, <2>5
    <3>2. H => BufferOnce(frames[1])' /\ frames'[1].at # EndStage
      BY <3>1, StageNumbers DEF BufferOnce
    <3> QED
      BY <2>1, <2>2, <3>2 DEF Once, Returned
  <2>6. CASE frames[2].rv # 0
    <3>1. frames'[1].at = EndStage /\ (H => Whole(buf))
      BY <2>1, <2>4, <2>6
    <3>2. H => Whole(buf)'
      BY <2>1, <3>1 DEF Whole, Plain
    <3> QED
      BY <2>1, <2>2, <3>1, <3>2 DEF Once, Returned
  <2> QED
    BY <2>5, <2>6
<1>7. CASE ReturnMain
  <2>1. /\ Len(frames) = 1 /\ Len(frames') = 0 /\ frames[1].at = EndStage
        /\ UNCHANGED <<config, zmatch, buf, hadErr, silent, mute>>
    BY <1>7, MainReturn
  <2>2. H => Whole(buf)
    BY <2>1 DEF Once
  <2>3. H => Whole(buf)'
    BY <2>1, <2>2 DEF Whole, Plain
  <2> QED
    BY <2>1, <2>3 DEF Once
<1>8. ASSUME NEW g, Running("buffer"), Effect(g) PROVE Once'
  BY <1>8, OnceWork
<1>9. ASSUME NEW g, Running("zmagic"), Zeffect(g) PROVE Once'
  BY <1>9, OnceZwork
<1> QED
  BY <1>1, <1>2, <1>3, <1>4, <1>5, <1>6, <1>7, <1>8, <1>9, Cases

\* as it is at first.
LEMMA OnceInit == Init => Once
<1> SUFFICES ASSUME Init PROVE Once
  OBVIOUS
<1>1. PICK fd \in Fds, size \in Sizes : frames = << FirstStage(BufferFrame("main", fd, size)) >>
  BY DEF Init
<1> DEFINE f == FirstStage(BufferFrame("main", fd, size))
<1>2. fd \in BOOLEAN
  BY InputsAssumption
<1>3. f.m = 0 /\ f.at \in {1, SimpleStage}
  BY <1>2, BufferFrames
<1>4. Len(frames) = 1 /\ frames[1] = f
  BY <1>1
<1> HIDE DEF f
<1>5. BufferOnce(f) /\ f.at # EndStage
  BY <1>3, StageNumbers DEF BufferOnce, Init
<1>6. ~Returned
  BY DEF Init, Returned
<1> QED
  BY <1>4, <1>5, <1>6 DEF Once

-----------------------------------------------------------------------------
(* Counting.                                                               *)

\* Text that is nowhere in the buffer is counted zero times,
LEMMA CountNone ==
    ASSUME NEW t, \A i \in 1..Len(buf) : buf[i] # t
    PROVE  Count(t) = 0
<1>1. {i \in 1..Len(buf) : buf[i] = t} = {}
  OBVIOUS
<1> QED
  BY <1>1, FS_EmptySet DEF Count

\* at one place only, once.
LEMMA CountOne ==
    ASSUME NEW t, NEW k \in 1..Len(buf), \A i \in 1..Len(buf) : buf[i] = t <=> i = k
    PROVE  Count(t) = 1
<1>1. {i \in 1..Len(buf) : buf[i] = t} = {k}
  OBVIOUS
<1> QED
  BY <1>1, FS_Singleton DEF Count

\* One description names its data at most once and no other.
LEMMA CountPlain ==
    ASSUME buf \in Seq(Tokens), NEW src \in {"main", "z"}, Plain(buf, src)
    PROVE  Count(src) \in {0, 1} /\ \A t \in {"main", "z", "(", ")", "orig"} : t # src => Count(t) = 0
<1>1. ASSUME NEW t \in {"main", "z", "(", ")", "orig"}, t # src PROVE Count(t) = 0
  <2>1. \A i \in 1..Len(buf) : buf[i] # t
    BY <1>1 DEF Plain
  <2> QED
    BY <2>1, CountNone
<1>2. Count(src) \in {0, 1}
  <2>1. CASE \A i \in 1..Len(buf) : buf[i] # src
    BY <2>1, CountNone
  <2>2. CASE \E i \in 1..Len(buf) : buf[i] = src
    <3>1. 1 \in 1..Len(buf) /\ \A i \in 1..Len(buf) : buf[i] = src <=> i = 1
      BY <2>2 DEF Plain
    <3> QED
      BY <3>1, CountOne
  <2> QED
    BY <2>1, <2>2
<1> QED
  BY <1>1, <1>2

\* A whole answer has one description and matching parentheses.
LEMMA WholeOnce ==
    ASSUME buf \in Seq(Tokens), Whole(buf)
    PROVE  /\ Count("main") + Count("z") <= 1
           /\ Count("(") = Count(")") /\ Count("(") <= Count("z")
           /\ Count("orig") > 0 => buf[1] = "z"
<1>1. CASE Plain(buf, "main")
  <2>1. Count("main") \in {0, 1} /\ Count("z") = 0 /\ Count("(") = 0 /\ Count(")") = 0 /\ Count("orig") = 0
    BY <1>1, CountPlain
  <2> QED
    BY <2>1
<1>2. CASE Plain(buf, "z")
  <2>1. Count("z") \in {0, 1} /\ Count("main") = 0 /\ Count("(") = 0 /\ Count(")") = 0 /\ Count("orig") = 0
    BY <1>2, CountPlain
  <2> QED
    BY <2>1
<1>3. CASE Closed(buf, config.mime)
  <2>1. PICK k \in 2..Len(buf) :
           /\ Behind(buf, k, config.mime)
           /\ \A i \in 1..Len(buf) : buf[i] = ")" <=> config.mime = "no" /\ i = Len(buf)
    BY <1>3 DEF Closed
  <2>2. 1 \in 1..Len(buf) /\ k \in 1..Len(buf) /\ Len(buf) \in 1..Len(buf)
    BY <2>1
  <2>3. Count("main") = 0
    BY <2>1, CountNone DEF Behind
  <2>4. Count("z") = 1
    BY <2>1, <2>2, CountOne DEF Behind
  <2>5. buf[1] = "z"
    BY <2>1, <2>2 DEF Behind
  <2>6. CASE config.mime = "no"
    <3>1. Count("(") = 1
      BY <2>1, <2>2, <2>6, CountOne DEF Behind
    <3>2. Count(")") = 1
      BY <2>1, <2>2, <2>6, CountOne
    <3> QED
      BY <2>3, <2>4, <2>5, <3>1, <3>2
  <2>7. CASE config.mime # "no"
    <3>1. Count("(") = 0
      BY <2>1, <2>7, CountNone DEF Behind
    <3>2. Count(")") = 0
      BY <2>1, <2>7, CountNone
    <3> QED
      BY <2>3, <2>4, <2>5, <3>1, <3>2
  <2> QED
    BY <2>6, <2>7
<1> QED
  BY <1>1, <1>2, <1>3 DEF Whole

\* Without MAGIC_CONTINUE every piece of data is described once, and the compressed data
\* between parentheses behind its contents.
THEOREM SaidOnce == Spec => []DescribedOnce
<1>1. Spec => [](Stack /\ Recorded /\ Answering /\ Once)
  BY StackInit, StackStep, RecordedInit, RecordedStep, AnsweringInit, AnsweringStep, OnceInit, OnceStep, PTL DEF Spec
<1>2. Stack /\ Once => DescribedOnce
  <2> SUFFICES ASSUME Stack, Once, Returned, ~hadErr, ~silent, ~mute, ~config.cont, zmatch <= 1
               PROVE  /\ Count("main") + Count("z") <= 1
                      /\ Count("(") = Count(")") /\ Count("(") <= Count("z")
                      /\ Count("orig") > 0 => buf[1] = "z"
    BY DEF DescribedOnce
  <2>1. Whole(buf) /\ buf \in Seq(Tokens)
    BY Typed DEF Once
  <2> QED
    BY <2>1, WholeOnce
<1> QED
  BY <1>1, <1>2, PTL
=============================================================================
