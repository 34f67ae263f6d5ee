------------------------------ MODULE AudioPath ------------------------------
(***************************************************************************)
(* The path of decoded samples: the player thread takes a block from the   *)
(* pool (sbuf_alloc), decodes a frame into it and queues it in the ring of *)
(* codec.c (codec_write); the DMA interrupt frees a played block and goes  *)
(* on to the next (codec_dma_isr); leaving a station closes the device and *)
(* frees what is left (codec_close).  The interrupt comes between any two  *)
(* steps of the player, except where codec.c disables interrupts: each     *)
(* such section is one action.                                             *)
(***************************************************************************)
EXTENDS Integers, FiniteSets

CONSTANTS
  Blocks,   \* the sample blocks of the pool      (MP3_DECODE_MP_CNT of them)
  NodeMax,  \* slots of codec.data_list           (DATA_NODE_MAX)
  RT_NULL   \* an unused slot's pointer

(* Two blocks and five slots. *)
ASSUME AudioAssumption ==
  /\ IsFiniteSet(Blocks) /\ Blocks # {}
  /\ NodeMax \in Nat /\ Cardinality(Blocks) < NodeMax
  /\ RT_NULL \notin Blocks

VARIABLES
  free,       \* blocks in the pool
  held,       \* blocks the decoder has taken and not passed on: one or none
  data_list,  \* codec.data_list: the block each slot points to
  read_index, \* codec.read_index
  put_index,  \* codec.put_index
  ms,         \* r06 & MS: what the code takes for "the codec is clocking"
  i2s,        \* the I2S unit is enabled (I2SE)
  clock,      \* the MS bit last sent to the codec
  dma,        \* the DMA channel is enabled
  ppc,        \* where the player thread is
  saved,      \* sample_rate's copy of ms
  raced,      \* history: codec_close drains an empty ring
  stale       \* history: sample_rate wrote back an MS cleared meanwhile

ring == <<data_list, read_index, put_index>>
codec == <<ms, i2s, clock>>
past == <<raced, stale>>
vars == <<free, held, ring, codec, dma, ppc, saved, past>>

Nodes == 0..NodeMax-1

(* closed: between stations.  alloc: blocked in rt_mp_alloc.  decode: a     *)
(* frame is decoded.  rate, send: inside sample_rate.  decoded: it has      *)
(* returned.  write: codec_write has found a free slot.  tested, dmaoff,    *)
(* drain: inside codec_close.  corrupt: blocks were freed twice and the     *)
(* pool's list is destroyed; what follows is not modelled.                  *)
PlayerAt == {"closed", "run", "alloc", "decode", "rate", "send", "decoded",
             "write", "tested", "dmaoff", "drain", "corrupt"}

Succ(i) == IF i + 1 >= NodeMax THEN 0 ELSE i + 1

(* The slots between read_index and put_index. *)
Window ==
  {i \in Nodes : IF read_index <= put_index
                 THEN read_index <= i /\ i < put_index
                 ELSE read_index <= i \/ i < put_index}

Queued == {data_list[i] : i \in Window}

(* if ((r06 & MS) == 0) the unit is enabled, and MS set and sent.           *)
ClockOn ==
  /\ ms' = TRUE
  /\ i2s' = (i2s \/ ~ms) /\ clock' = (clock \/ ~ms)

(* if (r06 & MS) the channel and the unit are disabled, and MS cleared and  *)
(* sent.                                                                    *)
ClockOff ==
  /\ ms' = FALSE
  /\ dma' = (dma /\ ~ms) /\ i2s' = (i2s /\ ~ms) /\ clock' = (clock /\ ~ms)

-----------------------------------------------------------------------------
(* The player thread.                                                       *)

(* mp3_decoder_create opens the device.                                     *)
Open ==
  /\ ppc = "closed" /\ ppc' = "run"
  /\ UNCHANGED <<free, held, ring, codec, dma, saved, past>>

AllocBlocks ==
  /\ ppc = "run" /\ free = {}
  /\ ppc' = "alloc"
  /\ UNCHANGED <<free, held, ring, codec, dma, saved, past>>

(* rt_mp_alloc, at once or after rt_mp_free has resumed the thread.         *)
Alloc ==
  /\ ppc \in {"run", "alloc"}
  /\ \E b \in free : free' = free \ {b} /\ held' = {b}
  /\ ppc' = "decode"
  /\ UNCHANGED <<ring, codec, dma, saved, past>>

(* Fault: sample_rate puts r06 together without the MS bit.                 *)
RateReadsNot ==
  /\ ppc = "decode" /\ ppc' = "rate"
  /\ saved' = FALSE
  /\ UNCHANGED <<free, held, ring, codec, dma, past>>

(* A frame of another sample rate than the last: sample_rate puts r06       *)
(* together anew around the MS bit it reads, with interrupts enabled ...    *)
RateReads ==
  /\ ppc = "decode" /\ ppc' = "rate"
  /\ saved' = ms
  /\ UNCHANGED <<free, held, ring, codec, dma, past>>

(* ... writes it back, over what the interrupt has made of it ...           *)
RateWrites ==
  /\ ppc = "rate" /\ ppc' = "send"
  /\ ms' = saved
  /\ stale' = (stale \/ (saved /\ ~ms))
  /\ UNCHANGED <<free, held, ring, i2s, clock, dma, saved, raced>>

(* ... and sends it: the value written, or r06 read once more.              *)
RateSends ==
  /\ ppc = "send" /\ ppc' = "decoded"
  /\ clock' \in {saved, ms}
  /\ UNCHANGED <<free, held, ring, ms, i2s, dma, saved, past>>

(* Fault: the block of a frame without samples is not given back.           *)
DropFrameLeaks ==
  /\ ppc \in {"decode", "decoded"}
  /\ held' = {}
  /\ ppc' = "run"
  /\ UNCHANGED <<free, ring, codec, dma, saved, past>>

(* mp3_decoder_run: a decoding error, or a frame without samples.           *)
DropFrame ==
  /\ ppc \in {"decode", "decoded"}
  /\ free' = free \cup held /\ held' = {}
  /\ ppc' = "run"
  /\ UNCHANGED <<ring, codec, dma, saved, past>>

(* codec_write's test, made with interrupts enabled.  mp3_decoder_run does  *)
(* not look at the result: a block refused is in nobody's hands.            *)
WriteTest ==
  /\ ppc \in {"decode", "decoded"}
  /\ IF Succ(put_index) = read_index
     THEN held' = {} /\ ppc' = "run"
     ELSE ppc' = "write" /\ UNCHANGED held
  /\ UNCHANGED <<free, ring, codec, dma, saved, past>>

(* The rest of codec_write, with interrupts disabled.                       *)
Enqueue ==
  /\ ppc = "write"
  /\ \E b \in held : data_list' = [data_list EXCEPT ![put_index] = b]
  /\ put_index' = Succ(put_index)
  /\ held' = {}
  /\ IF Succ(read_index) = put_index'
     THEN dma' = TRUE /\ ClockOn
     ELSE UNCHANGED <<dma, codec>>
  /\ ppc' = "run"
  /\ UNCHANGED <<free, read_index, saved, past>>

(* The player leaves the station: codec_close tests MS ...                  *)
CloseTest ==
  /\ ppc = "run"
  /\ ppc' = IF ms THEN "tested" ELSE "closed"
  /\ raced' = (raced \/ (ms /\ read_index = put_index))
  /\ UNCHANGED <<free, held, ring, codec, dma, saved, stale>>

(* ... disables the DMA channel and the I2S unit ...                        *)
DisableDma ==
  /\ ppc = "tested" /\ ppc' = "dmaoff"
  /\ dma' = FALSE /\ i2s' = FALSE
  /\ UNCHANGED <<free, held, ring, ms, clock, saved, past>>

(* ... clears MS, and sends it, which may block on the SPI lock ...         *)
ClearMs ==
  /\ ppc = "dmaoff" /\ ppc' = "drain"
  /\ ms' = FALSE /\ clock' = FALSE /\ stale' = FALSE
  /\ UNCHANGED <<free, held, ring, i2s, dma, saved, raced>>

(* Fault: the blocks are released over a copy of read_index.                *)
DrainByCopy ==
  /\ ppc = "drain"
  /\ IF read_index # put_index
     THEN free' = free \cup Queued /\ ppc' = "closed"
     ELSE ppc' = "corrupt" /\ UNCHANGED free
  /\ UNCHANGED <<held, ring, codec, dma, saved, past>>

(* ... and, with interrupts disabled, releases the block at read_index and  *)
(* advances, until read_index is put_index.  Begun on an empty ring, that   *)
(* is a whole turn, over blocks that are in the pool already.               *)
Drain ==
  /\ ppc = "drain"
  /\ IF read_index # put_index
     THEN free' = free \cup Queued /\ ppc' = "closed"
     ELSE ppc' = "corrupt" /\ UNCHANGED free
  /\ read_index' = put_index
  /\ UNCHANGED <<held, data_list, put_index, codec, dma, saved, past>>

-----------------------------------------------------------------------------
(* Fault: the next block is released, not the one just played.              *)
codec_dma_isrNext ==
  /\ dma /\ i2s /\ clock
  /\ read_index' = Succ(read_index)
  /\ free' = free \cup {data_list[read_index']}
  /\ IF read_index' # put_index
     THEN ClockOn /\ UNCHANGED dma
     ELSE ClockOff
  /\ raced' = (raced \/ (ppc = "tested" /\ read_index' = put_index))
  /\ UNCHANGED <<held, data_list, put_index, ppc, saved, stale>>

(* The DMA interrupt: a block has been played, for which the channel, the   *)
(* I2S unit and the codec's clock are on.                                   *)
codec_dma_isr ==
  /\ dma /\ i2s /\ clock
  /\ read_index' = Succ(read_index)
  /\ free' = free \cup {data_list[read_index]}
  /\ IF read_index' # put_index
     THEN ClockOn /\ UNCHANGED dma
     ELSE ClockOff
  /\ raced' = (raced \/ (ppc = "tested" /\ read_index' = put_index))
  /\ UNCHANGED <<held, data_list, put_index, ppc, saved, stale>>

-----------------------------------------------------------------------------

Init ==
  /\ free = Blocks /\ held = {}
  /\ data_list = [i \in Nodes |-> RT_NULL]
  /\ read_index = 0 /\ put_index = 0
  /\ ms = FALSE /\ i2s = FALSE /\ clock = FALSE /\ dma = FALSE
  /\ ppc = "closed" /\ saved = FALSE
  /\ raced = FALSE /\ stale = FALSE

PlayerStep ==
  \/ Open \/ AllocBlocks \/ Alloc \/ RateReads \/ RateWrites \/ RateSends
  \/ DropFrame \/ WriteTest \/ Enqueue
  \/ CloseTest \/ DisableDma \/ ClearMs \/ Drain

Next == PlayerStep \/ codec_dma_isr

Spec == Init /\ [][Next]_vars

(* A transfer under way completes, and the player runs when it can.         *)
FairSpec == Spec /\ WF_vars(codec_dma_isr) /\ WF_vars(PlayerStep)

-----------------------------------------------------------------------------
(* Properties.                                                              *)

TypeOK ==
  /\ free \subseteq Blocks /\ held \subseteq Blocks
  /\ data_list \in [Nodes -> Blocks \cup {RT_NULL}]
  /\ read_index \in Nodes /\ put_index \in Nodes
  /\ ms \in BOOLEAN /\ i2s \in BOOLEAN /\ clock \in BOOLEAN /\ dma \in BOOLEAN
  /\ saved \in BOOLEAN /\ raced \in BOOLEAN /\ stale \in BOOLEAN
  /\ ppc \in PlayerAt

(* A block is in one place: in the pool, with the decoder, or in one slot   *)
(* of the ring (and not lost, freed twice or queued twice), unless          *)
(* codec_close drains an empty ring: the interrupt finished the last block  *)
(* after the test of MS (codec.c:446), or MS was stale (codec.c:358).  So   *)
(* codec_write never refuses a block, a result that mp3_decoder_run would   *)
(* not look at.                                                             *)
OnePlace ==
  ~raced =>
    /\ free \cap held = {} /\ free \cap Queued = {} /\ held \cap Queued = {}
    /\ free \cup held \cup Queued = Blocks
    /\ \A i, j \in Window : data_list[i] = data_list[j] => i = j

(* The channel plays exactly while there is something to play, the I2S unit *)
(* is on exactly while the channel plays, and the codec clocks then: the    *)
(* tests "is this the only block" of codec_write and "was this the last     *)
(* block" of the interrupt never miss each other.  MS says so, unless       *)
(* sample_rate has written back a bit that the interrupt had cleared: from  *)
(* then on no block starts the unit, until codec_close.                     *)
PlaysWhatIsQueued ==
  ppc \notin {"dmaoff", "drain", "corrupt"} /\ ~stale =>
    /\ dma <=> read_index # put_index
    /\ i2s <=> dma
    /\ dma => clock
    /\ ms <=> dma

(* A decoder that waits for a block gets one, unless MS is stale.           *)
AllocServed == ppc = "alloc" ~> ppc # "alloc" \/ stale

(* The audio path implements BlockOwnership as long as codec_close does not *)
(* drain an empty ring.                                                     *)
Owner ==
  [b \in Blocks |-> IF b \in held THEN "decoder"
                    ELSE IF b \in Queued THEN "codec" ELSE "pool"]

Ownership == INSTANCE BlockOwnership WITH owner <- Owner

ImplementsOwnership ==
  Ownership!OInit /\ [][raced \/ Ownership!ONext]_Owner
=============================================================================
