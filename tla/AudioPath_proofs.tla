--------------------------- MODULE AudioPath_proofs ---------------------------
(***************************************************************************)
(* Proofs about AudioPath, for any number of sample blocks and of slots    *)
(* that AudioAssumption admits.  That a block is in one place (OnePlace)   *)
(* holds because the interrupt frees only queued blocks, that is, because  *)
(* the channel runs only while something is queued (PlaysWhatIsQueued) and *)
(* is off when codec_close empties the ring (Closing); and because a       *)
(* queued block finds a slot, which is counted: more slots than blocks.    *)
(* The channel and MS agree because sample_rate, which reads MS and writes *)
(* it back, can bring back a bit that was cleared but not clear one that   *)
(* was set (Rating); with the bit brought back the I2S unit stays off, and *)
(* no interrupt comes (StaleMs).                                           *)
(***************************************************************************)
EXTENDS AudioPath, FiniteSetTheorems, TLAPS

(* The decoder holds one block from sbuf_alloc to codec_write.              *)
Decoding == {"decode", "rate", "send", "decoded", "write"}

Holding ==
  IF ppc \in Decoding THEN \E b \in Blocks : held = {b} ELSE held = {}

(* What codec_write tested is still true when it queues the block.          *)
Writing == ppc = "write" => Succ(put_index) # read_index

(* Inside codec_close: the ring is not empty unless it is drained empty,    *)
(* and from DisableDma on there is no interrupt.                            *)
Closing ==
  /\ raced => ppc \in {"tested", "dmaoff", "drain", "corrupt"} /\ read_index = put_index
  /\ ppc = "corrupt" => raced
  /\ ppc \in {"dmaoff", "drain", "corrupt"} => ~dma /\ ~i2s
  /\ ppc \in {"drain", "corrupt"} => ~ms
  /\ ppc \in {"tested", "dmaoff", "drain"} /\ ~raced => read_index # put_index

(* A stale MS keeps the I2S unit off.                                       *)
StaleMs == stale => ms /\ ~i2s

(* Inside sample_rate MS is not set behind its copy.                        *)
Rating == ppc \in {"rate", "send"} /\ ms => saved

Control == Holding /\ Writing /\ Closing /\ StaleMs /\ Rating /\ PlaysWhatIsQueued

IInv == TypeOK /\ Control /\ OnePlace

-----------------------------------------------------------------------------
(* The ring.                                                                *)

LEMMA TwoSlots == NodeMax \in Nat /\ NodeMax > 1
<1>1. IsFiniteSet(Blocks) /\ Blocks # {} /\ Cardinality(Blocks) < NodeMax
      /\ NodeMax \in Nat
  BY AudioAssumption
<1>2. Cardinality(Blocks) \in Nat /\ Cardinality(Blocks) # 0
  BY <1>1, FS_CardinalityType, FS_EmptySet
<1> QED
  BY <1>1, <1>2

(* The slots from r to p.                                                   *)
Between(r, p) ==
  {i \in Nodes : IF r <= p THEN r <= i /\ i < p ELSE r <= i \/ i < p}

LEMMA WindowBetween ==
  /\ Window = Between(read_index, put_index)
  /\ Window' = Between(read_index', put_index')
BY DEF Window, Between

LEMMA SuccOneToOne ==
  ASSUME NEW i \in Nodes, NEW j \in Nodes
  PROVE  Succ(i) \in Nodes /\ (Succ(i) = Succ(j) => i = j)
BY TwoSlots DEF Succ, Nodes

(* Queuing takes the slot behind the last, playing frees the first, and a   *)
(* ring with no next slot is full but for one.                              *)
LEMMA WindowGrows ==
  ASSUME NEW r \in Nodes, NEW p \in Nodes, Succ(p) # r
  PROVE  p \notin Between(r, p) /\ Between(r, Succ(p)) = Between(r, p) \cup {p}
BY TwoSlots DEF Succ, Nodes, Between

LEMMA WindowShrinks ==
  ASSUME NEW r \in Nodes, NEW p \in Nodes, r # p
  PROVE  r \in Between(r, p) /\ Between(Succ(r), p) = Between(r, p) \ {r}
BY TwoSlots DEF Succ, Nodes, Between

LEMMA WindowEmpty ==
  ASSUME NEW p \in Nodes
  PROVE  Between(p, p) = {}
BY DEF Nodes, Between

LEMMA WindowFull ==
  ASSUME NEW r \in Nodes, NEW p \in Nodes, Succ(p) = r
  PROVE  Between(r, p) = Nodes \ {p}
BY TwoSlots DEF Succ, Nodes, Between

(* Before codec_write: with one block in the decoder's hands the others     *)
(* cannot fill the ring.                                                    *)
LEMMA NeverRefused ==
  ASSUME TypeOK, OnePlace, ~raced, NEW b \in Blocks, held = {b}
  PROVE  Succ(put_index) # read_index
<1> SUFFICES ASSUME Succ(put_index) = read_index PROVE FALSE
  OBVIOUS
<1>1. read_index \in Nodes /\ put_index \in Nodes
  BY DEF TypeOK
<1>2. Window = Nodes \ {put_index}
  BY <1>1, WindowBetween, WindowFull
<1>3. IsFiniteSet(Window) /\ Cardinality(Window) = NodeMax - 1
  <2>1. IsFiniteSet(Nodes) /\ Cardinality(Nodes) = NodeMax
    BY TwoSlots, FS_Interval DEF Nodes
  <2> QED
    BY <1>1, <1>2, <2>1, FS_RemoveElement
<1>4. IsFiniteSet(Blocks \ {b}) /\ Cardinality(Blocks \ {b}) = Cardinality(Blocks) - 1
  BY AudioAssumption, FS_RemoveElement
<1>5. Cardinality(Blocks \ {b}) < Cardinality(Window)
  <2>1. Cardinality(Blocks) \in Nat
    BY AudioAssumption, FS_CardinalityType
  <2> QED
    BY <1>3, <1>4, <2>1, AudioAssumption
<1> DEFINE slot == [i \in Window |-> data_list[i]]
<1>6. slot \in [Window -> Blocks \ {b}]
  BY DEF OnePlace, Queued
<1>7. \E x, y \in Window : x # y /\ slot[x] = slot[y]
  <2> HIDE DEF slot
  <2> QED
    BY <1>3, <1>4, <1>5, <1>6, FS_PigeonHole
<1> QED
  BY <1>7 DEF OnePlace

-----------------------------------------------------------------------------
(* The steps.                                                               *)

(* The part of TypeOK about the flags and the player's place.               *)
Flags ==
  /\ ms \in BOOLEAN /\ i2s \in BOOLEAN /\ clock \in BOOLEAN /\ dma \in BOOLEAN
  /\ saved \in BOOLEAN /\ raced \in BOOLEAN /\ stale \in BOOLEAN
  /\ ppc \in PlayerAt

LEMMA InitIInv == Init => IInv
<1> SUFFICES ASSUME Init PROVE IInv
  OBVIOUS
<1>1. TypeOK
  <2>1. Flags
    BY Zenon DEF Init, Flags, PlayerAt
  <2>2. /\ free \subseteq Blocks /\ held \subseteq Blocks
        /\ data_list \in [Nodes -> Blocks \cup {RT_NULL}]
        /\ read_index \in Nodes /\ put_index \in Nodes
    BY TwoSlots DEF Init, Nodes
  <2> QED
    BY <2>1, <2>2, Zenon DEF TypeOK, Flags
<1>2. Window = {} /\ Queued = {}
  <2>1. Window = {}
    BY WindowBetween, WindowEmpty, TwoSlots DEF Init, Nodes
  <2> QED
    BY <2>1 DEF Queued
<1>3. OnePlace
  BY <1>2 DEF Init, OnePlace
<1>4. Control
  BY DEF Init, Control, Decoding, Holding, Writing, Closing, StaleMs, Rating,
         PlaysWhatIsQueued
<1> QED
  BY <1>1, <1>3, <1>4 DEF IInv

LEMMA FlagsKept == TypeOK /\ Next => Flags'
<1> SUFFICES ASSUME TypeOK, Next PROVE Flags'
  OBVIOUS
<1>1. Flags
  BY Zenon DEF TypeOK, Flags
<1> USE <1>1 DEF Flags, PlayerAt, codec, past
<1>2. CASE Open \/ AllocBlocks \/ Alloc \/ DropFrame \/ WriteTest
  BY <1>2, Zenon DEF Open, AllocBlocks, Alloc, DropFrame, WriteTest
<1>3. CASE RateReads \/ RateWrites \/ RateSends
  BY <1>3, Zenon DEF RateReads, RateWrites, RateSends
<1>4. CASE Enqueue
  BY <1>4, Zenon DEF Enqueue, ClockOn
<1>5. CASE CloseTest \/ DisableDma \/ ClearMs \/ Drain
  BY <1>5, Zenon DEF CloseTest, DisableDma, ClearMs, Drain
<1>6. CASE codec_dma_isr
  BY <1>6, Zenon DEF codec_dma_isr, ClockOn, ClockOff
<1> QED
  BY <1>2, <1>3, <1>4, <1>5, <1>6 DEF Next, PlayerStep

LEMMA RingKept ==
  ASSUME UNCHANGED ring
  PROVE  Window' = Window /\ Queued' = Queued
BY DEF ring, Window, Queued, Nodes

(* The codec's bits, the channel and the history, as they were.             *)
Regs ==
  /\ (ms' <=> ms) /\ (i2s' <=> i2s) /\ (clock' <=> clock) /\ (dma' <=> dma)
  /\ (saved' <=> saved) /\ (raced' <=> raced) /\ (stale' <=> stale)

LEMMA RegsKept ==
  ASSUME UNCHANGED <<codec, dma, saved, past>>
  PROVE  Regs
BY Zenon DEF Regs, codec, past

(* Steps that move no block.                                                *)
LEMMA BlocksKept ==
  ASSUME IInv, Next, UNCHANGED <<free, held, ring, raced>>
  PROVE  TypeOK' /\ OnePlace'
<1>1. TypeOK'
  BY FlagsKept, Zenon DEF IInv, TypeOK, Flags, ring
<1>2. OnePlace'
  BY RingKept, Zenon DEF IInv, OnePlace, ring
<1> QED
  BY <1>1, <1>2

(* Steps of the player that leave the ring and the codec alone, inside the  *)
(* decoder's work or outside it.                                            *)
Elsewhere == {"closed", "run", "alloc"}

LEMMA ControlKept ==
  ASSUME Control, UNCHANGED <<ring, codec, dma, saved, past>>, Holding', Writing',
         ppc \in Elsewhere \cup Decoding, ppc' \in (Elsewhere \cup Decoding) \ {"rate", "send"}
  PROVE  Control'
<1>1. Regs
  BY RegsKept
<1> QED
  BY <1>1
  DEF Control, Regs, Elsewhere, Decoding, Closing, StaleMs, Rating, PlaysWhatIsQueued, ring

(* While the decoder works codec_close does not.                            *)
LEMMA NotClosing ==
  ASSUME IInv
  PROVE  ppc \notin {"tested", "dmaoff", "drain", "corrupt"} => ~raced
BY DEF IInv, Control, Closing

LEMMA AllocKeepsIInv ==
  ASSUME IInv, Alloc
  PROVE  IInv'
<1>1. PICK b \in free : free' = free \ {b} /\ held' = {b}
  BY DEF Alloc
<1>2. /\ ppc \in {"run", "alloc"} /\ ppc' = "decode"
      /\ UNCHANGED <<ring, codec, dma, saved, past>>
  BY DEF Alloc
<1>3. ~raced /\ held = {} /\ b \in Blocks
  BY <1>2, NotClosing DEF IInv, Control, Decoding, Holding, TypeOK
<1>4. TypeOK'
  <2>1. Flags'
    BY FlagsKept DEF IInv, Next, PlayerStep
  <2> QED
    BY <1>1, <1>2, <1>3, <2>1, Zenon DEF IInv, TypeOK, Flags, ring
<1>5. OnePlace'
  <2>1. raced' <=> raced
    BY <1>2, RegsKept, Zenon DEF Regs
  <2> QED
    BY <1>1, <1>2, <1>3, <2>1, RingKept DEF IInv, OnePlace, ring
<1>6. Control'
  <2>1. Holding' /\ Writing'
    BY <1>1, <1>2, <1>3 DEF Decoding, Holding, Writing
  <2> QED
    BY <1>2, <2>1, ControlKept DEF IInv, Elsewhere, Decoding
<1> QED
  BY <1>4, <1>5, <1>6 DEF IInv

LEMMA DropFrameKeepsIInv ==
  ASSUME IInv, DropFrame
  PROVE  IInv'
<1>1. /\ ppc \in {"decode", "decoded"} /\ ppc' = "run"
      /\ free' = free \cup held /\ held' = {}
      /\ UNCHANGED <<ring, codec, dma, saved, past>>
  BY DEF DropFrame
<1>2. TypeOK'
  <2>1. Flags'
    BY FlagsKept DEF IInv, Next, PlayerStep
  <2>2. free' \subseteq Blocks /\ held' \subseteq Blocks
    BY <1>1 DEF IInv, TypeOK
  <2> QED
    BY <1>1, <2>1, <2>2, Zenon DEF IInv, TypeOK, Flags, ring
<1>3. OnePlace'
  <2>1. raced' <=> raced
    BY <1>1, RegsKept, Zenon DEF Regs
  <2> QED
    BY <1>1, <2>1, RingKept DEF IInv, OnePlace, ring
<1>4. Control'
  <2>1. Holding' /\ Writing'
    BY <1>1 DEF Decoding, Holding, Writing
  <2> QED
    BY <1>1, <2>1, ControlKept DEF IInv, Elsewhere, Decoding
<1> QED
  BY <1>2, <1>3, <1>4 DEF IInv

(* codec_write finds a slot: no block is ever refused.                      *)
LEMMA WriteTestKeepsIInv ==
  ASSUME IInv, WriteTest
  PROVE  IInv'
<1>1. ppc \in {"decode", "decoded"} /\ UNCHANGED <<free, ring, codec, dma, saved, past>>
  BY DEF WriteTest
<1>2. Succ(put_index) # read_index
  <2>1. PICK b \in Blocks : held = {b}
    BY <1>1 DEF IInv, Control, Decoding, Holding
  <2> QED
    BY <1>1, <2>1, NotClosing, NeverRefused DEF IInv
<1>3. ppc' = "write" /\ UNCHANGED held
  BY <1>2 DEF WriteTest
<1>4. TypeOK' /\ OnePlace'
  BY <1>1, <1>3, BlocksKept DEF Next, PlayerStep, past
<1>5. Control'
  <2>1. Succ(put_index)' = Succ(put_index)
    BY <1>1 DEF Succ, ring
  <2>2. Holding' /\ Writing'
    BY <1>1, <1>2, <1>3, <2>1 DEF IInv, Control, Decoding, Holding, Writing, ring
  <2> QED
    BY <1>1, <1>3, <2>2, ControlKept DEF IInv, Elsewhere, Decoding
<1> QED
  BY <1>4, <1>5 DEF IInv

(* sample_rate.                                                             *)
LEMMA RateKeepsIInv ==
  ASSUME IInv, RateReads \/ RateWrites \/ RateSends
  PROVE  IInv'
<1>1. /\ UNCHANGED <<free, held, ring, raced>>
      /\ ppc \in {"decode", "rate", "send"} /\ ppc' \in {"rate", "send", "decoded"}
      /\ (dma' <=> dma) /\ (i2s' <=> i2s) /\ (raced' <=> raced)
  <2>1. CASE RateReads
    BY <2>1, Zenon DEF RateReads, codec, past
  <2>2. CASE RateWrites
    BY <2>2, Zenon DEF RateWrites
  <2>3. CASE RateSends
    BY <2>3, Zenon DEF RateSends, past
  <2> QED
    BY <2>1, <2>2, <2>3
<1>2. TypeOK' /\ OnePlace'
  BY <1>1, BlocksKept DEF Next, PlayerStep
<1>3. read_index' = read_index /\ put_index' = put_index /\ held' = held
  BY <1>1 DEF ring
<1>4. Holding' /\ Writing' /\ Closing'
  BY <1>1, <1>3 DEF IInv, Control, Decoding, Holding, Writing, Closing
<1>5. CASE RateReads
  <2>1. /\ (saved' <=> ms) /\ (ms' <=> ms) /\ (clock' <=> clock)
        /\ (stale' <=> stale)
    BY <1>5, Zenon DEF RateReads, codec, past
  <2>2. StaleMs' /\ Rating' /\ PlaysWhatIsQueued'
    BY <1>1, <1>3, <2>1 DEF IInv, Control, StaleMs, Rating, PlaysWhatIsQueued
  <2> QED
    BY <1>2, <1>4, <2>2 DEF IInv, Control
<1>6. CASE RateWrites
  <2>1. /\ (ms' <=> saved) /\ (stale' <=> stale \/ (saved /\ ~ms))
        /\ (clock' <=> clock) /\ (saved' <=> saved) /\ ppc = "rate"
    BY <1>6, Zenon DEF RateWrites
  <2>2. StaleMs' /\ Rating' /\ PlaysWhatIsQueued'
    BY <1>1, <1>3, <2>1 DEF IInv, Control, StaleMs, Rating, PlaysWhatIsQueued
  <2> QED
    BY <1>2, <1>4, <2>2 DEF IInv, Control
<1>7. CASE RateSends
  <2>0. (clock' <=> saved) \/ (clock' <=> ms)
    BY <1>7, Zenon DEF RateSends
  <2>1. /\ (ms' <=> ms) /\ (saved' <=> saved) /\ (stale' <=> stale)
        /\ ppc = "send" /\ ppc' = "decoded"
    BY <1>7, Zenon DEF RateSends, past
  <2>2. StaleMs' /\ Rating' /\ PlaysWhatIsQueued'
    BY <1>1, <1>3, <2>0, <2>1 DEF IInv, Control, StaleMs, Rating, PlaysWhatIsQueued
  <2> QED
    BY <1>2, <1>4, <2>2 DEF IInv, Control
<1> QED
  BY <1>5, <1>6, <1>7

(* The block goes into the slot behind the last.                            *)
LEMMA EnqueueBlocks ==
  ASSUME IInv, Enqueue
  PROVE  \E b \in Blocks :
           /\ held = {b} /\ held' = {}
           /\ Window' = Window \cup {put_index} /\ put_index \notin Window
           /\ data_list' = [data_list EXCEPT ![put_index] = b]
           /\ Queued' = Queued \cup {b}
<1>1. PICK b \in held : data_list' = [data_list EXCEPT ![put_index] = b]
  BY DEF Enqueue
<1>2. ppc = "write" /\ put_index' = Succ(put_index) /\ read_index' = read_index
      /\ held' = {}
  BY DEF Enqueue
<1>3. b \in Blocks /\ held = {b}
  BY <1>2 DEF IInv, Control, Decoding, Holding
<1>4. /\ read_index \in Nodes /\ put_index \in Nodes
      /\ data_list \in [Nodes -> Blocks \cup {RT_NULL}]
  BY DEF IInv, TypeOK
<1>5. Window' = Window \cup {put_index} /\ put_index \notin Window
  <2>1. Succ(put_index) # read_index
    BY <1>2 DEF IInv, Control, Writing
  <2> QED
    BY <1>2, <1>4, <2>1, WindowBetween, WindowGrows
<1>6. Queued' = Queued \cup {b}
  <2>1. \A i \in Window : data_list'[i] = data_list[i]
    BY <1>1, <1>4, <1>5 DEF Window
  <2>2. data_list'[put_index] = b
    BY <1>1, <1>4
  <2> QED
    BY <1>5, <2>1, <2>2 DEF Queued
<1> QED
  BY <1>1, <1>2, <1>3, <1>5, <1>6

LEMMA EnqueueKeepsIInv ==
  ASSUME IInv, Enqueue
  PROVE  IInv'
<1>1. PICK b \in Blocks :
        /\ held = {b} /\ held' = {}
        /\ Window' = Window \cup {put_index} /\ put_index \notin Window
        /\ data_list' = [data_list EXCEPT ![put_index] = b]
        /\ Queued' = Queued \cup {b}
  BY EnqueueBlocks
<1>2. /\ ppc = "write" /\ ppc' = "run" /\ put_index' = Succ(put_index)
      /\ free' = free /\ read_index' = read_index /\ (raced' <=> raced)
      /\ (stale' <=> stale) /\ (saved' <=> saved)
  BY Zenon DEF Enqueue, past
<1>3. ~raced
  BY <1>2, NotClosing
<1>4. /\ read_index \in Nodes /\ put_index \in Nodes
      /\ data_list \in [Nodes -> Blocks \cup {RT_NULL}]
  BY DEF IInv, TypeOK
<1>5. TypeOK'
  <2>1. Flags'
    BY FlagsKept DEF IInv, Next, PlayerStep
  <2>2. put_index' \in Nodes
    BY <1>2, <1>4, SuccOneToOne
  <2>3. data_list' \in [Nodes -> Blocks \cup {RT_NULL}]
    BY <1>1, <1>4
  <2> QED
    BY <1>1, <1>2, <1>4, <2>1, <2>2, <2>3, Zenon DEF IInv, TypeOK, Flags
<1>6. OnePlace'
  <2>1. /\ free' \cap held' = {} /\ free' \cap Queued' = {} /\ held' \cap Queued' = {}
        /\ free' \cup held' \cup Queued' = Blocks
    BY <1>1, <1>2, <1>3 DEF IInv, OnePlace
  <2>2. \A i, j \in Window' : data_list'[i] = data_list'[j] => i = j
    <3>1. \A i \in Window : data_list'[i] = data_list[i] /\ data_list[i] # b
      BY <1>1, <1>3, <1>4 DEF IInv, OnePlace, Queued, Window
    <3>2. data_list'[put_index] = b
      BY <1>1, <1>4
    <3> QED
      BY <1>1, <1>3, <3>1, <3>2 DEF IInv, OnePlace
  <2> QED
    BY <2>1, <2>2 DEF OnePlace
<1>7. PlaysWhatIsQueued' /\ StaleMs'
  <2>1. read_index # Succ(put_index)
    BY <1>2 DEF IInv, Control, Writing
  <2>2. CASE Succ(read_index) = Succ(put_index)
    <3>1. /\ dma' /\ ms' /\ (i2s' <=> i2s \/ ~ms) /\ (clock' <=> clock \/ ~ms)
      BY <1>2, <2>2, Zenon DEF Enqueue, ClockOn
    <3> QED
      BY <1>2, <1>4, <2>1, <2>2, <3>1, SuccOneToOne
      DEF IInv, Control, StaleMs, PlaysWhatIsQueued
  <2>3. CASE Succ(read_index) # Succ(put_index)
    <3>1. read_index # put_index
      BY <2>3
    <3>2. (ms' <=> ms) /\ (dma' <=> dma) /\ (i2s' <=> i2s) /\ (clock' <=> clock)
      BY <1>2, <2>3, Zenon DEF Enqueue, codec
    <3> QED
      BY <1>2, <2>1, <3>1, <3>2 DEF IInv, Control, StaleMs, PlaysWhatIsQueued
  <2> QED
    BY <2>2, <2>3
<1>8. Holding' /\ Writing' /\ Closing' /\ Rating'
  BY <1>1, <1>2, <1>3 DEF Decoding, Holding, Writing, Closing, Rating
<1> QED
  BY <1>5, <1>6, <1>7, <1>8 DEF IInv, Control

(* codec_close's test: MS is set while the ring is not empty, and if it is  *)
(* stale.                                                                   *)
LEMMA CloseTestKeepsIInv ==
  ASSUME IInv, CloseTest
  PROVE  IInv'
<1>1. /\ UNCHANGED <<free, held, ring>> /\ ppc = "run"
      /\ ppc' = IF ms THEN "tested" ELSE "closed"
  BY DEF CloseTest
<1>2. /\ (ms' <=> ms) /\ (i2s' <=> i2s) /\ (clock' <=> clock) /\ (dma' <=> dma)
      /\ (stale' <=> stale)
      /\ (raced' <=> raced \/ (ms /\ read_index = put_index))
  BY Zenon DEF CloseTest, codec
<1>3. ~raced /\ held = {}
  BY <1>1, NotClosing DEF IInv, Control, Decoding, Holding
<1>4. read_index' = read_index /\ put_index' = put_index /\ held' = held
  BY <1>1 DEF ring
<1>5. TypeOK'
  BY <1>1, FlagsKept, Zenon DEF IInv, TypeOK, Flags, ring, Next, PlayerStep
<1>6. OnePlace'
  BY <1>1, <1>3, RingKept, Zenon DEF IInv, OnePlace, ring
<1>7. Control'
  <2>1. Holding' /\ Writing' /\ Rating'
    BY <1>1, <1>3, <1>4 DEF Decoding, Holding, Writing, Rating
  <2>2. Closing' /\ StaleMs' /\ PlaysWhatIsQueued'
    BY <1>1, <1>2, <1>3, <1>4 DEF IInv, Control, Closing, StaleMs, PlaysWhatIsQueued
  <2> QED
    BY <2>1, <2>2 DEF Control
<1> QED
  BY <1>5, <1>6, <1>7 DEF IInv

LEMMA CloseKeepsIInv ==
  ASSUME IInv, DisableDma \/ ClearMs
  PROVE  IInv'
<1>1. UNCHANGED <<free, held, ring, raced>>
  BY DEF DisableDma, ClearMs, past
<1>2. TypeOK' /\ OnePlace'
  BY <1>1, BlocksKept DEF Next, PlayerStep
<1>3. read_index' = read_index /\ put_index' = put_index /\ held' = held
      /\ (raced' <=> raced)
  BY <1>1, Zenon DEF ring
<1> USE DEF IInv, Control, Decoding, Holding, Writing, Closing, StaleMs, Rating,
            PlaysWhatIsQueued
<1>4. CASE DisableDma
  <2>1. /\ ppc = "tested" /\ ppc' = "dmaoff" /\ ~dma' /\ ~i2s'
        /\ (ms' <=> ms) /\ (stale' <=> stale)
    BY <1>4, Zenon DEF DisableDma, past
  <2> QED
    BY <1>2, <1>3, <2>1
<1>5. CASE ClearMs
  <2>1. /\ ppc = "dmaoff" /\ ppc' = "drain" /\ ~ms' /\ ~stale'
        /\ (dma' <=> dma) /\ (i2s' <=> i2s)
    BY <1>5, Zenon DEF ClearMs
  <2> QED
    BY <1>2, <1>3, <2>1
<1> QED
  BY <1>4, <1>5

(* A ring that is not empty is emptied; one that the interrupt has emptied  *)
(* is the race.                                                             *)
LEMMA DrainKeepsIInv ==
  ASSUME IInv, Drain
  PROVE  IInv'
<1>1. /\ ppc = "drain" /\ read_index' = put_index /\ put_index' = put_index
      /\ held' = held /\ data_list' = data_list
  BY Zenon DEF Drain
<1>0. Regs
  BY RegsKept DEF Drain
<1>2. put_index \in Nodes /\ ~ms /\ ~dma /\ ~i2s /\ ~stale /\ held = {}
  <2>1. put_index \in Nodes
    BY Zenon DEF IInv, TypeOK
  <2> QED
    BY <1>1, <2>1 DEF IInv, Control, Decoding, Closing, StaleMs, Holding
<1>3. raced <=> read_index = put_index
  BY <1>1 DEF IInv, Control, Closing
<1>4. /\ free' = IF raced THEN free ELSE free \cup Queued
      /\ ppc' = IF raced THEN "corrupt" ELSE "closed"
  BY <1>3 DEF Drain
<1>5. Window' = {} /\ Queued' = {}
  <2>1. Window' = {}
    BY <1>1, <1>2, WindowBetween, WindowEmpty
  <2> QED
    BY <2>1 DEF Queued
<1>6. TypeOK'
  <2>1. Flags'
    BY FlagsKept DEF IInv, Next, PlayerStep
  <2>2. free' \subseteq Blocks
    <3>1. CASE raced
      BY <1>4, <3>1, Zenon DEF IInv, TypeOK
    <3>2. CASE ~raced
      BY <1>4, <3>2, Zenon DEF IInv, TypeOK, OnePlace
    <3> QED
      BY <3>1, <3>2
  <2> QED
    BY <1>1, <1>2, <2>1, <2>2, Zenon DEF IInv, TypeOK, Flags
<1>7. OnePlace'
  BY <1>0, <1>1, <1>2, <1>4, <1>5 DEF Regs, IInv, OnePlace
<1>8. Control'
  BY <1>0, <1>1, <1>2, <1>4
  DEF Regs, Control, Decoding, Holding, Writing, Closing, StaleMs, Rating, PlaysWhatIsQueued
<1> QED
  BY <1>6, <1>7, <1>8 DEF IInv

-----------------------------------------------------------------------------
(* The interrupt comes only while something is queued, and frees the first  *)
(* of the ring.                                                             *)
LEMMA IsrBlocks ==
  ASSUME IInv, codec_dma_isr
  PROVE  /\ ppc \notin {"dmaoff", "drain", "corrupt"} /\ ~raced /\ ~stale
         /\ ms /\ dma /\ i2s /\ clock
         /\ read_index \in Window /\ data_list[read_index] \in Queued
         /\ read_index' \in Nodes
         /\ Window' = Window \ {read_index} /\ data_list' = data_list
         /\ Queued' = Queued \ {data_list[read_index]}
<1>1. dma /\ i2s /\ clock
  BY DEF codec_dma_isr
<1>2. ppc \notin {"dmaoff", "drain", "corrupt"} /\ ~stale
  BY <1>1 DEF IInv, Control, Closing, StaleMs
<1>3. ms /\ read_index # put_index /\ ~raced
  BY <1>1, <1>2 DEF IInv, Control, PlaysWhatIsQueued, Closing
<1>4. read_index \in Nodes /\ put_index \in Nodes
  BY Zenon DEF IInv, TypeOK
<1>5. /\ read_index' = Succ(read_index) /\ put_index' = put_index
      /\ data_list' = data_list
  BY DEF codec_dma_isr
<1>6. /\ read_index \in Window /\ Window' = Window \ {read_index}
      /\ read_index' \in Nodes
  BY <1>3, <1>4, <1>5, WindowBetween, WindowShrinks, SuccOneToOne
<1>7. \A i \in Window : data_list[i] = data_list[read_index] => i = read_index
  BY <1>3, <1>6 DEF IInv, OnePlace
<1>8. Queued' = Queued \ {data_list[read_index]}
  BY <1>5, <1>6, <1>7 DEF Queued
<1>9. data_list[read_index] \in Queued
  BY <1>6 DEF Queued
<1> QED
  BY <1>1, <1>2, <1>3, <1>5, <1>6, <1>8, <1>9

LEMMA IsrKeepsIInv ==
  ASSUME IInv, codec_dma_isr
  PROVE  IInv'
<1> DEFINE b == data_list[read_index]
<1>1. /\ read_index' = Succ(read_index) /\ put_index' = put_index
      /\ free' = free \cup {b}
      /\ held' = held /\ data_list' = data_list /\ ppc' = ppc
  BY DEF codec_dma_isr
<1>2. /\ ppc \notin {"dmaoff", "drain", "corrupt"} /\ ~raced /\ ~stale
      /\ ms /\ dma /\ i2s /\ clock
      /\ read_index \in Window /\ b \in Queued
      /\ read_index' \in Nodes
      /\ Window' = Window \ {read_index}
      /\ Queued' = Queued \ {b}
  BY IsrBlocks
<1>3. /\ (dma' <=> read_index' # put_index) /\ (ms' <=> dma') /\ (i2s' <=> dma')
      /\ (clock' <=> dma') /\ (saved' <=> saved) /\ (stale' <=> stale)
  BY <1>2, Zenon DEF codec_dma_isr, ClockOn, ClockOff
<1>4. raced' <=> ppc = "tested" /\ read_index' = put_index
  BY <1>2, Zenon DEF codec_dma_isr
<1>5. read_index \in Nodes /\ put_index \in Nodes /\ read_index # put_index
  <2>1. read_index \in Nodes /\ put_index \in Nodes
    BY Zenon DEF IInv, TypeOK
  <2> QED
    BY <1>2, <2>1 DEF IInv, Control, PlaysWhatIsQueued
<1>6. TypeOK'
  <2>1. Flags'
    BY FlagsKept DEF IInv, Next
  <2>2. free' \subseteq Blocks
    BY <1>1, <1>2, Zenon DEF IInv, TypeOK, OnePlace
  <2> QED
    BY <1>1, <1>2, <2>1, <2>2, Zenon DEF IInv, TypeOK, Flags
<1>7. OnePlace'
  <2> HIDE DEF b
  <2> QED
    BY <1>1, <1>2 DEF IInv, OnePlace
<1>8. Writing'
  <2>1. Succ(put_index)' = Succ(put_index)
    BY <1>1 DEF Succ
  <2>2. Succ(put_index) # Succ(read_index)
    BY <1>5, SuccOneToOne
  <2> QED
    BY <1>1, <2>1, <2>2 DEF Writing
<1>9. Holding' /\ Closing' /\ StaleMs' /\ Rating' /\ PlaysWhatIsQueued'
  BY <1>1, <1>2, <1>3, <1>4
  DEF IInv, Control, Decoding, Holding, Closing, StaleMs, Rating, PlaysWhatIsQueued
<1> QED
  BY <1>6, <1>7, <1>8, <1>9 DEF IInv, Control

-----------------------------------------------------------------------------

LEMMA NextKeepsIInv == IInv /\ Next => IInv'
<1> SUFFICES ASSUME IInv, Next PROVE IInv'
  OBVIOUS
<1>1. CASE Open \/ AllocBlocks
  <2>1. /\ UNCHANGED <<free, held, ring, codec, dma, saved, past>>
        /\ ppc \in {"closed", "run"} /\ ppc' \in {"run", "alloc"}
    BY <1>1 DEF Open, AllocBlocks
  <2>2. TypeOK' /\ OnePlace'
    BY <2>1, BlocksKept DEF past
  <2>3. Control'
    <3>1. Holding' /\ Writing'
      BY <2>1 DEF IInv, Control, Decoding, Holding, Writing
    <3> QED
      BY <2>1, <3>1, ControlKept DEF IInv, Elsewhere, Decoding
  <2> QED
    BY <2>2, <2>3 DEF IInv
<1> QED
  BY <1>1, AllocKeepsIInv, RateKeepsIInv, DropFrameKeepsIInv, WriteTestKeepsIInv,
     EnqueueKeepsIInv, CloseTestKeepsIInv, CloseKeepsIInv, DrainKeepsIInv, IsrKeepsIInv DEF Next, PlayerStep

LEMMA IInvInductive == Spec => []IInv
<1>1. IInv /\ UNCHANGED vars => IInv'
  <2> SUFFICES ASSUME IInv, UNCHANGED vars PROVE IInv'
    OBVIOUS
  <2>1. Window' = Window /\ Queued' = Queued
    BY RingKept DEF vars
  <2>2. TypeOK' /\ OnePlace'
    BY <2>1, Zenon DEF vars, ring, codec, past, IInv, TypeOK, OnePlace
  <2>3. Control'
    BY Zenon
    DEF vars, ring, codec, past, IInv, Control, Decoding, Holding, Writing, Succ, Closing,
        StaleMs, Rating, PlaysWhatIsQueued
  <2> QED
    BY <2>2, <2>3 DEF IInv
<1>2. IInv /\ [Next]_vars => IInv'
  BY <1>1, NextKeepsIInv
<1> QED
  BY <1>2, InitIInv, PTL DEF Spec

(* The values of the variables, for any number of blocks and slots.         *)
THEOREM TypeCorrect == Spec => []TypeOK
BY IInvInductive, PTL DEF IInv, Control

(* A block is in the pool, with the decoder or in one slot of the ring,     *)
(* unless codec_close drains an empty ring.                                 *)
THEOREM BlockInOnePlace == Spec => []OnePlace
BY IInvInductive, PTL DEF IInv, Control

(* codec_write and codec_dma_isr never miss each other: the channel runs    *)
(* exactly while something is queued, unless sample_rate has written back   *)
(* an MS that the interrupt had cleared (codec.c:358).                      *)
THEOREM PlaysWhileQueued == Spec => []PlaysWhatIsQueued
BY IInvInductive, PTL DEF IInv, Control

-----------------------------------------------------------------------------
(* The refinement: each step changes owners as BlockOwnership allows.       *)

LEMMA OwnerIs ==
  /\ \A b \in Blocks : Owner[b] = IF b \in held THEN "decoder"
                                 ELSE IF b \in Queued THEN "codec" ELSE "pool"
  /\ \A b \in Blocks : Owner'[b] = IF b \in held' THEN "decoder"
                                  ELSE IF b \in Queued' THEN "codec" ELSE "pool"
BY DEF Owner

(* Blocks of one owner that pass to another, and the others do not.         *)
LEMMA PassIs ==
  ASSUME NEW blocks, NEW to,
         \A b \in Blocks : Owner'[b] = IF b \in blocks THEN to ELSE Owner[b]
  PROVE  Ownership!Pass(blocks, to)
<1>1. Owner' = [b \in Blocks |-> Owner'[b]]
  BY DEF Owner
<1> QED
  BY <1>1 DEF Ownership!Pass

LEMMA OwnerKept ==
  ASSUME UNCHANGED <<held, ring>>
  PROVE  UNCHANGED Owner
BY RingKept DEF Owner

LEMMA StepPasses == IInv /\ Next => raced \/ Ownership!ONext \/ UNCHANGED Owner
<1> SUFFICES ASSUME IInv, Next, ~raced
             PROVE  Ownership!ONext \/ UNCHANGED Owner
  OBVIOUS
<1> USE DEF Ownership!ONext, Ownership!OwnedBy
<1>1. CASE \/ Open \/ AllocBlocks \/ RateReads \/ RateWrites \/ RateSends
           \/ CloseTest \/ DisableDma \/ ClearMs
  BY <1>1, OwnerKept
  DEF Open, AllocBlocks, RateReads, RateWrites, RateSends, CloseTest, DisableDma, ClearMs
<1>2. CASE Alloc
  <2>1. PICK b \in free : held' = {b} /\ UNCHANGED ring
    BY <1>2 DEF Alloc
  <2>2. held = {} /\ b \in Blocks /\ b \notin Queued /\ Queued' = Queued
    BY <1>2, <2>1, RingKept DEF IInv, Control, Decoding, Holding, TypeOK, OnePlace, Alloc
  <2>3. Ownership!Pass({b}, "decoder")
    BY <2>1, <2>2, OwnerIs, PassIs
  <2>4. Ownership!Take
    BY <2>2, <2>3, OwnerIs DEF Ownership!Take
  <2> QED
    BY <2>4
<1>3. CASE DropFrame
  <2>1. PICK b \in Blocks : held = {b} /\ held' = {} /\ UNCHANGED ring
    BY <1>3 DEF DropFrame, IInv, Control, Decoding, Holding
  <2>2. b \notin Queued /\ Queued' = Queued
    BY <2>1, RingKept DEF IInv, OnePlace
  <2>3. Ownership!Pass({b}, "pool")
    BY <2>1, <2>2, OwnerIs, PassIs
  <2>4. Ownership!GiveBack
    BY <2>1, <2>3, OwnerIs DEF Ownership!GiveBack
  <2> QED
    BY <2>4
<1>4. CASE WriteTest
  <2>1. PICK b \in Blocks : held = {b}
    BY <1>4 DEF WriteTest, IInv, Control, Decoding, Holding
  <2>2. UNCHANGED <<held, ring>>
    BY <1>4, <2>1, NeverRefused DEF WriteTest, IInv
  <2> QED
    BY <2>2, OwnerKept
<1>5. CASE Enqueue
  <2>1. PICK b \in Blocks : held = {b} /\ held' = {} /\ Queued' = Queued \cup {b}
    BY <1>5, EnqueueBlocks
  <2>2. b \notin Queued
    BY <2>1 DEF IInv, OnePlace
  <2>3. Ownership!Pass({b}, "codec")
    BY <2>1, <2>2, OwnerIs, PassIs
  <2>4. Ownership!Write
    BY <2>1, <2>3, OwnerIs DEF Ownership!Write
  <2> QED
    BY <2>4
<1>6. CASE Drain
  <2>1. held = {} /\ held' = {} /\ read_index' = put_index' /\ put_index' = put_index
    BY <1>6 DEF Drain, IInv, Control, Decoding, Holding
  <2>2. Queued' = {}
    <3>1. put_index \in Nodes
      BY Zenon DEF IInv, TypeOK
    <3>2. Window' = {}
      BY <2>1, <3>1, WindowBetween, WindowEmpty
    <3> QED
      BY <3>2 DEF Queued
  <2>3. Ownership!Pass(Ownership!OwnedBy("codec"), "pool")
    <3>1. Ownership!OwnedBy("codec") = {b \in Blocks : Owner[b] = "codec"}
      BY DEF Ownership!OwnedBy
    <3> QED
      BY <2>1, <2>2, <3>1, OwnerIs, PassIs
  <2> QED
    BY <2>3 DEF Ownership!Flush
<1>7. CASE codec_dma_isr
  <2> DEFINE b == data_list[read_index]
  <2>1. b \in Queued /\ Queued' = Queued \ {b} /\ held' = held
    BY <1>7, IsrBlocks DEF codec_dma_isr
  <2>2. b \in Blocks /\ b \notin held
    BY <2>1 DEF IInv, OnePlace
  <2> HIDE DEF b
  <2>3. Ownership!Pass({b}, "pool")
    BY <2>1, <2>2, OwnerIs, PassIs
  <2>4. Ownership!Played
    BY <2>1, <2>2, <2>3, OwnerIs DEF Ownership!Played
  <2> QED
    BY <2>4
<1> QED
  BY <1>1, <1>2, <1>3, <1>4, <1>5, <1>6, <1>7 DEF Next, PlayerStep

(* The audio path implements BlockOwnership until codec_close drains an     *)
(* empty ring.                                                              *)
THEOREM Implements == Spec => ImplementsOwnership
<1>1. Init => Ownership!OInit
  <2> SUFFICES ASSUME Init PROVE Ownership!OInit
    OBVIOUS
  <2>1. Window = {}
    BY WindowBetween, WindowEmpty, TwoSlots DEF Init, Nodes
  <2>2. held = {} /\ Queued = {}
    BY <2>1 DEF Init, Queued
  <2> QED
    BY <2>2 DEF Ownership!OInit, Owner
<1>2. IInv /\ [Next]_vars => [raced \/ Ownership!ONext]_Owner
  <2>1. UNCHANGED vars => UNCHANGED Owner
    BY OwnerKept DEF vars
  <2> QED
    BY <2>1, StepPasses
<1> QED
  BY <1>1, <1>2, IInvInductive, PTL DEF Spec, ImplementsOwnership

-----------------------------------------------------------------------------
(* What comes of it for the decoder and between stations.                   *)

(* The safety half of AllocServed: a decoder waits for a block only while   *)
(* the channel plays one, which the interrupt frees (mp3.c, sbuf_alloc;     *)
(* codec.c, codec_dma_isr), or MS is stale.                                 *)
BlockToCome == ppc = "alloc" /\ free = {} /\ ~stale => dma /\ i2s /\ clock

THEOREM BlockComes == Spec => []BlockToCome
<1>1. ASSUME IInv, ppc = "alloc", free = {}, ~stale PROVE dma /\ i2s /\ clock
  <2>1. ~raced /\ held = {}
    BY <1>1, NotClosing DEF IInv, Control, Decoding, Holding
  <2>2. Queued = Blocks /\ Blocks # {}
    BY <1>1, <2>1, AudioAssumption DEF IInv, OnePlace
  <2>3. Window # {}
    BY <2>2 DEF Queued
  <2>4. read_index # put_index
    BY <2>3, <1>1, WindowEmpty, WindowBetween DEF IInv, TypeOK
  <2> QED
    BY <1>1, <2>4 DEF IInv, Control, PlaysWhatIsQueued
<1>2. IInv => BlockToCome
  BY <1>1 DEF BlockToCome
<1> QED
  BY <1>2, IInvInductive, PTL

(* Between stations every block is back in the pool and the channel and the *)
(* I2S unit are off: codec_close, and a stream that has been played to its  *)
(* end, leave nothing in the ring (codec.c:446).                            *)
PoolWhole == ppc = "closed" => free = Blocks /\ ~dma /\ ~i2s /\ ~ms

THEOREM PoolWholeBetweenStations == Spec => []PoolWhole
<1> DEFINE Empty == ppc = "closed" => read_index = put_index /\ ~stale
<1>1. Init => Empty
  BY DEF Init
<1>2. ASSUME IInv, Empty, [Next]_vars PROVE Empty'
  <2>1. CASE CloseTest
    <3>1. /\ ppc = "run" /\ (ppc' = "closed" => ~ms) /\ UNCHANGED ring
          /\ (stale' <=> stale)
      BY <2>1, Zenon DEF CloseTest
    <3> QED
      BY <1>2, <3>1 DEF IInv, Control, StaleMs, PlaysWhatIsQueued, ring
  <2>2. CASE Drain
    <3>1. ppc = "drain" /\ read_index' = put_index' /\ (stale' <=> stale)
      BY <2>2, Zenon DEF Drain, past
    <3> QED
      BY <1>2, <3>1 DEF IInv, Control, Closing, StaleMs
  <2>3. CASE codec_dma_isr
    <3>1. dma /\ ppc' = ppc /\ (stale' <=> stale)
      BY <2>3, Zenon DEF codec_dma_isr
    <3> QED
      BY <1>2, <3>1 DEF IInv, Control, PlaysWhatIsQueued
  <2>4. CASE \/ Open \/ AllocBlocks \/ Alloc \/ RateReads \/ RateWrites \/ RateSends
             \/ DropFrame \/ WriteTest \/ Enqueue \/ DisableDma \/ ClearMs
    BY <2>4
    DEF Open, AllocBlocks, Alloc, RateReads, RateWrites, RateSends, DropFrame, WriteTest,
        Enqueue, DisableDma, ClearMs
  <2>5. CASE UNCHANGED vars
    BY <1>2, <2>5, Zenon DEF vars, ring, past
  <2> QED
    BY <1>2, <2>1, <2>2, <2>3, <2>4, <2>5 DEF Next, PlayerStep
<1>3. ASSUME IInv, Empty, ppc = "closed" PROVE free = Blocks /\ ~dma /\ ~i2s /\ ~ms
  <2>1. ~raced /\ held = {}
    BY <1>3, NotClosing DEF IInv, Control, Decoding, Holding
  <2>2. Queued = {}
    BY <1>3, WindowEmpty, WindowBetween DEF IInv, TypeOK, Queued
  <2> QED
    BY <1>3, <2>1, <2>2 DEF IInv, Control, OnePlace, PlaysWhatIsQueued
<1>4. IInv /\ Empty => PoolWhole
  BY <1>3 DEF PoolWhole
<1> QED
  BY <1>1, <1>2, <1>4, InitIInv, IInvInductive, PTL DEF Spec
=============================================================================
