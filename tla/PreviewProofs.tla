----------------------------- MODULE PreviewProofs -----------------------------
(***************************************************************************)
(* The preview's pixel buffers stay apart in the whole process, for any    *)
(* limit on free buffers and any number of frames, panics and viewers.     *)
(*                                                                         *)
(* What has to be shown besides the property is that a new buffer is one   *)
(* that nobody holds: that there is one follows from the number of buffers *)
(* held, which the flag of the encoder and the limit on free ones bound.   *)
(***************************************************************************)
EXTENDS Appliance, FiniteSetTheorems, TLAPS

Types ==
  /\ staged \in Buffers \cup {NoBuffer} /\ free \in SUBSET Buffers
  /\ encoding \in SUBSET Buffers
  /\ flag \in BOOLEAN /\ looping \in Nat

BufferInv == Types /\ BuffersApart

-----------------------------------------------------------------------------

LEMMA BuffersFinite ==
  /\ IsFiniteSet(Buffers) /\ Cardinality(Buffers) = MaxFreeBuffers + 4
  /\ NoBuffer \notin Buffers /\ MaxFreeBuffers \in Nat
<1>1. MaxFreeBuffers \in Nat /\ MaxFreeBuffers + 4 \in Nat /\ 1 \in Int /\ MaxFreeBuffers + 4 \in Int
  BY PreviewAssumption
<1>2. IsFiniteSet(1..(MaxFreeBuffers + 4)) /\ Cardinality(1..(MaxFreeBuffers + 4)) = MaxFreeBuffers + 4
  BY <1>1, FS_Interval
<1> QED BY <1>1, <1>2 DEF Buffers, NoBuffer

LEMMA PartsFinite ==
  ASSUME BufferInv
  PROVE  /\ IsFiniteSet(free) /\ Cardinality(free) \in Nat
         /\ IsFiniteSet(encoding) /\ Cardinality(encoding) \in Nat
<1>1. IsFiniteSet(free) /\ IsFiniteSet(encoding)
  BY BuffersFinite, FS_Subset DEF BufferInv, Types
<1> QED BY <1>1, FS_CardinalityType

LEMMA WithOneMore ==
  ASSUME NEW S, IsFiniteSet(S), NEW x
  PROVE  /\ IsFiniteSet(S \cup {x}) /\ Cardinality(S) \in Nat
         /\ Cardinality(S \cup {x}) = IF x \in S THEN Cardinality(S) ELSE Cardinality(S) + 1
  BY FS_AddElement, FS_CardinalityType

LEMMA WithOneLess ==
  ASSUME NEW S, IsFiniteSet(S), NEW x \in S
  PROVE  /\ IsFiniteSet(S \ {x}) /\ Cardinality(S) \in Nat
         /\ Cardinality(S \ {x}) = Cardinality(S) - 1
  BY FS_RemoveElement, FS_CardinalityType

\* takeBufLocked finds a free buffer or makes one that nobody holds.
LEMMA TakenIsFree ==
  ASSUME BufferInv, NEW b \in Taken
  PROVE  b \in Buffers /\ b # staged /\ b \notin encoding /\ b # NoBuffer
<1>1. CASE b \in free
  BY <1>1, BuffersFinite DEF BufferInv, Types, BuffersApart
<1>2. CASE b \notin free
  <2>1. \E c \in Buffers : c \notin Held
    <3> SUFFICES ASSUME Buffers \subseteq Held PROVE FALSE
      OBVIOUS
    <3> DEFINE S == free \cup encoding
    <3>1. /\ IsFiniteSet(S) /\ Cardinality(S) \in Nat
          /\ Cardinality(S) <= Cardinality(free) + Cardinality(encoding)
      <4>1. /\ IsFiniteSet(S)
            /\ Cardinality(S) = Cardinality(free) + Cardinality(encoding) - Cardinality(free \cap encoding)
        BY PartsFinite, FS_Union
      <4>2. free \cap encoding = {}
        BY DEF BufferInv, BuffersApart
      <4>3. Cardinality(free \cap encoding) = 0
        BY <4>2, FS_EmptySet, Zenon
      <4>4. Cardinality(S) \in Nat
        BY <4>1, FS_CardinalityType
      <4> HIDE DEF S
      <4> QED BY <4>1, <4>3, <4>4, PartsFinite
    <3>2. Held \subseteq S \cup {staged}
      BY DEF Held
    <3> HIDE DEF S
    <3>3. /\ IsFiniteSet(S \cup {staged}) /\ Cardinality(S \cup {staged}) <= Cardinality(S) + 1
          /\ Cardinality(S \cup {staged}) \in Nat
      BY <3>1, WithOneMore
    <3>4. Buffers \subseteq S \cup {staged}
      BY <3>2
    <3>5. Cardinality(Buffers) <= Cardinality(S \cup {staged})
      BY <3>3, <3>4, FS_Subset
    <3>6. Cardinality(free) <= MaxFreeBuffers /\ Cardinality(encoding) <= 1
      BY PartsFinite DEF BufferInv, Types, BuffersApart
    <3> QED BY <3>1, <3>3, <3>5, <3>6, PartsFinite, BuffersFinite
  <2>2. b = CHOOSE c \in Buffers : c \notin Held
    BY <1>2 DEF Taken
  <2>3. b \in Buffers /\ b \notin Held
    BY <2>1, <2>2
  <2> QED BY <2>3, BuffersFinite DEF Held
<1> QED BY <1>1, <1>2

\* recycleLocked keeps the limit.
LEMMA RecycleKeeps ==
  ASSUME NEW bufs \in SUBSET Buffers, NEW b \in Buffers \cup {NoBuffer},
         Cardinality(bufs) <= MaxFreeBuffers
  PROVE  /\ Recycle(bufs, b) \in SUBSET Buffers
         /\ Recycle(bufs, b) \subseteq bufs \cup ({b} \ {NoBuffer})
         /\ Cardinality(Recycle(bufs, b)) <= MaxFreeBuffers
<1>1. IsFiniteSet(bufs) /\ Cardinality(bufs) \in Nat
  BY BuffersFinite, FS_Subset, FS_CardinalityType
<1>2. CASE b = NoBuffer \/ Cardinality(bufs) >= MaxFreeBuffers
  BY <1>2 DEF Recycle
<1>3. CASE ~(b = NoBuffer \/ Cardinality(bufs) >= MaxFreeBuffers)
  <2>1. Recycle(bufs, b) = bufs \cup {b}
    BY <1>3 DEF Recycle
  <2>2. Cardinality(bufs \cup {b}) \in {Cardinality(bufs), Cardinality(bufs) + 1}
    BY <1>1, WithOneMore
  <2>3. Cardinality(bufs \cup {b}) <= MaxFreeBuffers
    BY <1>1, <1>3, <2>2, BuffersFinite
  <2> QED BY <1>3, <2>1, <2>3
<1> QED BY <1>2, <1>3

-----------------------------------------------------------------------------
(* The steps of the preview.                                               *)

LEMMA PushApart ==
  ASSUME BufferInv, Push
  PROVE  BufferInv'
<1>1. CASE closed
  BY <1>1 DEF Push, previewVars, BufferInv, Types, BuffersApart
<1>2. CASE ~closed
  <2>1. PICK b \in Taken :
          /\ free' = Recycle(free \ {b}, staged) /\ staged' = b /\ flag' = TRUE
          /\ looping' = (IF flag THEN looping ELSE looping + 1) /\ encoding' = encoding
    BY <1>2 DEF Push
  <2>2. b \in Buffers /\ b # staged /\ b \notin encoding /\ b # NoBuffer
    BY TakenIsFree
  <2>3. free \ {b} \in SUBSET Buffers /\ Cardinality(free \ {b}) <= MaxFreeBuffers
    <3>1. CASE b \in free
      <4>1. free \in SUBSET Buffers /\ Cardinality(free) <= MaxFreeBuffers
        BY DEF BufferInv, Types, BuffersApart
      <4>2. IsFiniteSet(free) /\ Cardinality(free) \in Nat
        BY PartsFinite
      <4>3. Cardinality(free \ {b}) = Cardinality(free) - 1
        BY <3>1, <4>2, WithOneLess
      <4> QED BY <4>1, <4>2, <4>3, BuffersFinite
    <3>2. CASE b \notin free
      <4>1. free \ {b} = free
        BY <3>2
      <4> QED BY <4>1, Zenon DEF BufferInv, Types, BuffersApart
    <3> QED BY <3>1, <3>2
  <2>4. /\ free' \in SUBSET Buffers /\ free' \subseteq (free \ {b}) \cup ({staged} \ {NoBuffer})
        /\ Cardinality(free') <= MaxFreeBuffers
    BY <2>1, <2>3, RecycleKeeps DEF BufferInv, Types
  <2>5. staged' \notin free' \cup encoding' /\ free' \cap encoding' = {}
    BY <2>1, <2>2, <2>4 DEF BufferInv, BuffersApart
  <2>6. looping' \in Nat /\ looping' + Cardinality(encoding') = 1
    BY <2>1, PartsFinite DEF BufferInv, Types, BuffersApart
  <2> QED BY <2>1, <2>2, <2>4, <2>5, <2>6 DEF BufferInv, Types, BuffersApart
<1> QED BY <1>1, <1>2

LEMMA EncoderApart ==
  ASSUME BufferInv, EncoderStep \/ EncoderPanics
  PROVE  BufferInv'
<1>0. /\ staged \in Buffers \cup {NoBuffer} /\ free \in SUBSET Buffers
      /\ encoding \in SUBSET Buffers /\ flag \in BOOLEAN /\ looping \in Nat
      /\ staged \notin free \cup encoding /\ free \cap encoding = {}
      /\ Cardinality(free) <= MaxFreeBuffers
      /\ looping + Cardinality(encoding) = IF flag THEN 1 ELSE 0
  BY DEF BufferInv, Types, BuffersApart
<1>1. CASE Take
  <2>1. Cardinality(encoding') = Cardinality(encoding) + 1 /\ looping' = looping - 1 /\ looping > 0
    BY <1>0, <1>1, PartsFinite, WithOneMore DEF Take
  <2>2. looping' \in Nat /\ looping' + Cardinality(encoding') = looping + Cardinality(encoding)
    BY <1>0, <2>1, PartsFinite
  <2> QED BY <1>0, <1>1, <2>2, BuffersFinite DEF Take, BufferInv, Types, BuffersApart
<1>2. CASE EncoderEnds
  <2>1. looping' = looping - 1 /\ looping > 0 /\ UNCHANGED <<staged, free, encoding>> /\ flag' = FALSE
    BY <1>2 DEF EncoderEnds
  <2>2. looping' \in Nat /\ looping' + Cardinality(encoding) = 0
    BY <1>0, <2>1, PartsFinite
  <2> QED BY <1>0, <2>1, <2>2 DEF BufferInv, Types, BuffersApart
<1>3. CASE Encoded
  <2>1. PICK b \in encoding : /\ encoding' = encoding \ {b} /\ looping' = looping + 1
                              /\ free' = Recycle(free, b) /\ UNCHANGED <<staged, flag>>
    BY <1>3 DEF Encoded
  <2>2. Cardinality(encoding') = Cardinality(encoding) - 1
    BY <2>1, PartsFinite, WithOneLess
  <2>3. looping' \in Nat /\ looping' + Cardinality(encoding') = looping + Cardinality(encoding)
    BY <1>0, <2>1, <2>2, PartsFinite
  <2>4. /\ free' \in SUBSET Buffers /\ free' \subseteq free \cup {b}
        /\ Cardinality(free') <= MaxFreeBuffers
    BY <1>0, <2>1, RecycleKeeps
  <2> QED BY <1>0, <2>1, <2>3, <2>4 DEF BufferInv, Types, BuffersApart
<1>4. CASE EncoderPanics
  <2>1. PICK b \in encoding : /\ encoding' = encoding \ {b} /\ flag' = FALSE
                              /\ UNCHANGED <<staged, free, looping>>
    BY <1>4 DEF EncoderPanics
  <2>2. Cardinality(encoding') = Cardinality(encoding) - 1 /\ Cardinality(encoding') \in Nat
    <3>1. IsFiniteSet(encoding')
      BY <2>1, PartsFinite, WithOneLess
    <3> QED BY <2>1, <3>1, PartsFinite, WithOneLess, FS_CardinalityType
  <2>3. looping + Cardinality(encoding') = 0
    BY <1>0, <2>2, PartsFinite
  <2> QED BY <1>0, <2>1, <2>3 DEF BufferInv, Types, BuffersApart
<1> QED BY <1>1, <1>2, <1>3, <1>4 DEF EncoderStep

-----------------------------------------------------------------------------
(* The steps of the process.                                               *)

LEMMA StepApart ==
  ASSUME BufferInv, [Next]_vars
  PROVE  BufferInv'
<1> DEFINE Mailbox == <<staged, free, flag, looping, encoding>>
<1>1. CASE UNCHANGED Mailbox
  BY <1>1 DEF BufferInv, Types, BuffersApart
<1>2. CASE UNCHANGED vars
  BY <1>1, <1>2 DEF vars, previewVars
<1>3. CASE MainStep
  <2>1. Push \/ UNCHANGED Mailbox
    BY <1>3 DEF MainStep, InitDisplay, Poll, TickFrame, Show, Report, StopEngine, CancelRoot,
                AwaitRoot, CloseTheHub, CloseThePreview, StoppedAll, ShutDown, notFeed, notMain,
                ClosePreview, previewVars
  <2> QED BY <1>1, <2>1, PushApart
<1>4. CASE LoopPanics \/ Signal \/ Sync \/ ManagerEnds \/ FeedAct
  BY <1>1, <1>4 DEF LoopPanics, Signal, Sync, ManagerEnds, FeedAct, notMain, notStopping, previewVars
<1>5. CASE \E p \in Stoppers : StopStep(p)
  BY <1>1, <1>5 DEF StopStep, StopAllStarts, StopNext, SendUnbind, AwaitUnbind, CancelWorker,
                    notStopping, previewVars
<1>6. CASE PreviewAct
  <2>1. EncoderStep \/ EncoderPanics \/ UNCHANGED Mailbox
    BY <1>6 DEF PreviewAct, ViewerArrives, ViewerStream, Wait, Wake, ViewerEnds, ViewerReads,
                ViewerLeaves, viewerOnly
  <2> QED BY <1>1, <2>1, EncoderApart
<1> QED BY <1>2, <1>3, <1>4, <1>5, <1>6 DEF Next

\* A buffer is staged, being encoded, or free, and one encoder runs at most
\* (takeBufLocked, recycleLocked and the flag that PushRGBA and encodeLoop keep),
\* for any limit on free buffers, and whenever the encoder fails or panics.
THEOREM BuffersStayApart == Spec => []BuffersApart
<1>1. Init => BufferInv
  <2> SUFFICES ASSUME PreviewInit PROVE BufferInv
    BY DEF Init
  <2>1. Cardinality({}) = 0 /\ MaxFreeBuffers \in Nat
    BY FS_EmptySet, PreviewAssumption
  <2>2. staged = NoBuffer /\ free = {} /\ encoding = {} /\ flag = FALSE /\ looping = 0
    BY DEF PreviewInit
  <2>3. Cardinality(free) = 0 /\ Cardinality(encoding) = 0
    BY <2>1, <2>2, Zenon
  <2>4. Types
    BY <2>2 DEF Types
  <2>5. BuffersApart
    BY <2>1, <2>2, <2>3 DEF BuffersApart
  <2> QED BY <2>4, <2>5 DEF BufferInv
<1>2. BufferInv /\ [Next]_vars => BufferInv'
  BY StepApart
<1>3. BufferInv => BuffersApart
  BY DEF BufferInv
<1> QED BY <1>1, <1>2, <1>3, PTL DEF Spec
=============================================================================
