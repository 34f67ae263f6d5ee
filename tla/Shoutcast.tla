------------------------------ MODULE Shoutcast ------------------------------
(***************************************************************************)
(* shoutcast_session_read of http.c: the audio of an internet radio is     *)
(* taken out of a stream in which, after every metaint bytes, the server   *)
(* inserts one byte of length and that many units of metadata.  The        *)
(* network buffer's worker asks for whole blocks and gets what remains of  *)
(* each when the metadata is removed.                                      *)
(*                                                                         *)
(* The server is external: it is where it is in a chunk, and chooses the   *)
(* lengths.  A read ends early when the receive time-out or the end of the *)
(* connection comes before the block is full.                              *)
(***************************************************************************)
EXTENDS Naturals, Sequences

CONSTANTS
  Block,    \* NETBUF_BLOCK_SIZE: the bytes asked for (4096)
  Unit,     \* bytes of metadata per unit of the length byte (16)
  Lengths,  \* the length bytes that servers send
  Metaints  \* what they say in icy-metaint, 0 for no such header

ASSUME ShoutcastAssumption ==
  /\ Block \in Nat \ {0} /\ Unit \in Nat \ {0}
  /\ Lengths \subseteq Nat /\ Lengths # {}
  /\ Metaints \subseteq Nat

VARIABLES
  metaint,            \* session->metaint
  current_meta_chunk, \* session->current_meta_chunk
  first_meta_size,    \* static: it outlives the session
  open,               \* a session is open
  sent,     \* server: audio bytes sent of the chunk; metaint: now the length
  meta,     \* server: metadata bytes to send before the chunk goes on
  kept,     \* the bytes the last read returned
  lost,     \* history: the session's count and the stream have parted
  misread   \* a memmove of negative length, or from before the buffer, or
            \* no metadata to remove

counts == <<metaint, current_meta_chunk, first_meta_size>>
server == <<sent, meta>>
shoutcast_vars == <<counts, open, server, kept, lost, misread>>

Least(a, b) == IF a <= b THEN a ELSE b

-----------------------------------------------------------------------------
(* The stream, when the next length byte is l: metadata up to byte meta,    *)
(* audio up to Audio, the length byte, metadata up to Ends(l), then the     *)
(* audio of a chunk; what comes later may be in the same block if chunks    *)
(* are short, and is not told apart.                                        *)

Audio == meta + (metaint - sent)
Ends(l) == Audio + 1 + l * Unit

ByteAt(i, l) ==
  IF i <= meta \/ i \in Audio+2 .. Ends(l) THEN [kind |-> "meta", n |-> 0]
  ELSE IF i <= Audio THEN [kind |-> "audio", n |-> sent + (i - meta) - 1]
  ELSE IF i = Audio + 1 THEN [kind |-> "length", n |-> l]
  ELSE IF i <= Ends(l) + metaint THEN [kind |-> "audio", n |-> i - Ends(l) - 1]
  ELSE [kind |-> "later", n |-> 0]

(* The server has sent k bytes.                                             *)
Sends(k, l) ==
  \/ /\ k <= Audio
     /\ meta' = meta - Least(k, meta)
     /\ sent' = sent + (k - Least(k, meta))
  \/ /\ k > Audio /\ k <= Ends(l) + metaint
     /\ meta' = Ends(l) - Least(k, Ends(l))
     /\ sent' = k - Least(k, Ends(l))
  \/ /\ k > Ends(l) + metaint
     /\ \E m \in Lengths : meta' \in 0..m * Unit
     /\ sent' \in 0..metaint

(* What is taken for the length of metadata; audio can be anything.         *)
SizeIn(byte) ==
  {l * Unit : l \in IF byte.kind = "length" THEN {byte.n} ELSE Lengths}

-----------------------------------------------------------------------------
(* shoutcast_session_read, when recv has brought the k bytes of received.   *)

Fails(what) ==
  /\ misread' = what
  /\ UNCHANGED <<first_meta_size, current_meta_chunk, kept, lost>>

(* The new count is what remains of the block behind the metadata.  Nothing *)
(* looks for another length byte in there, which a short chunk has.         *)
CountFrom(rest) ==
  /\ current_meta_chunk' = rest
  /\ lost' = (lost \/ rest > metaint)

(* The metadata announced at the end of the last block is the beginning of  *)
(* this one.                                                                *)
Skip(k, received) ==
  IF k < first_meta_size THEN Fails("short")
  ELSE /\ kept' = SubSeq(received, first_meta_size + 1, k)
       /\ CountFrom(k - first_meta_size)
       /\ first_meta_size' = 0
       /\ UNCHANGED misread

(* Fault: the length byte is not removed.                                   *)
RemoveMetaOnly(k, received) ==
  LET at == metaint - current_meta_chunk
  IN \E size \in SizeIn(received[at + 1]) :
       IF k < at + size + 1 THEN Fails("split")
       ELSE /\ kept' = SubSeq(received, 1, at) \o SubSeq(received, at + size + 1, k)
            /\ CountFrom(k - at - (size + 1))
            /\ UNCHANGED <<first_meta_size, misread>>

(* The length byte and the metadata are inside the block: next_chunk_length *)
(* is what remains behind them.                                             *)
Remove(k, received) ==
  LET at == metaint - current_meta_chunk
  IN \E size \in SizeIn(received[at + 1]) :
       IF k < at + size + 1 THEN Fails("split")
       ELSE /\ kept' = SubSeq(received, 1, at) \o SubSeq(received, at + size + 2, k)
            /\ CountFrom(k - at - (size + 1))
            /\ UNCHANGED <<first_meta_size, misread>>

Count(k, received) ==
  /\ current_meta_chunk + k < metaint
  /\ kept' = received
  /\ current_meta_chunk' = current_meta_chunk + k
  /\ UNCHANGED <<first_meta_size, lost, misread>>

ReadBlock(k, received) ==
  IF metaint = 0 /\ k > 0 THEN Fails("unsized")
  ELSE IF first_meta_size > 0 THEN Skip(k, received)
  ELSE IF current_meta_chunk > metaint THEN Fails("before")
  ELSE IF current_meta_chunk + k > metaint THEN Remove(k, received)
  ELSE Count(k, received)

Reading == open /\ misread = "none"

(* In a session without metadata the loop receives audio alone.             *)
Received(k, l) ==
  [i \in 1..k |-> IF metaint = 0 THEN [kind |-> "audio", n |-> 0] ELSE ByteAt(i, l)]

shoutcast_session_read ==
  /\ Reading
  /\ \E k \in 0..Block, l \in Lengths :
       /\ first_meta_size > 0 \/ current_meta_chunk + k # metaint
       /\ ReadBlock(k, Received(k, l))
       /\ IF metaint = 0 THEN UNCHANGED server ELSE Sends(k, l)
  /\ UNCHANGED <<metaint, open>>

(* The block ends where the chunk does: one more byte is received, the      *)
(* length; if the time-out comes first, meta_data is not initialized.       *)
shoutcast_session_readWhole ==
  /\ Reading /\ first_meta_size = 0
  /\ \E k \in 0..Block, l \in Lengths :
       /\ current_meta_chunk + k = metaint
       /\ kept' = Received(k, l)
       /\ \/ /\ IF metaint = 0 THEN UNCHANGED server ELSE Sends(k + 1, l)
             /\ first_meta_size' \in
                  IF metaint = 0 THEN {m * Unit : m \in Lengths}
                  ELSE SizeIn(ByteAt(k + 1, l))
             /\ UNCHANGED lost
          \/ /\ IF metaint = 0 THEN UNCHANGED server ELSE Sends(k, l)
             /\ first_meta_size' \in {m * Unit : m \in Lengths}
             /\ lost' = TRUE
  /\ current_meta_chunk' = 0
  /\ UNCHANGED <<metaint, open, misread>>

-----------------------------------------------------------------------------

(* Fault: the first chunk is taken for begun.                               *)
shoutcast_session_openLate ==
  /\ ~open /\ misread = "none"
  /\ metaint' \in Metaints /\ current_meta_chunk' = 1
  /\ open' = TRUE
  /\ sent' = 0 /\ meta' = 0 /\ kept' = <<>>
  /\ lost' = (first_meta_size > 0)
  /\ UNCHANGED <<first_meta_size, misread>>

(* The header has been read: the stream begins with the first chunk.        *)
shoutcast_session_open ==
  /\ ~open /\ misread = "none"
  /\ metaint' \in Metaints /\ current_meta_chunk' = 0
  /\ open' = TRUE
  /\ sent' = 0 /\ meta' = 0 /\ kept' = <<>>
  /\ lost' = (first_meta_size > 0)
  /\ UNCHANGED <<first_meta_size, misread>>

shoutcast_session_close ==
  /\ open /\ misread = "none"
  /\ open' = FALSE
  /\ metaint' = 0 /\ current_meta_chunk' = 0
  /\ sent' = 0 /\ meta' = 0 /\ kept' = <<>>
  /\ UNCHANGED <<first_meta_size, lost, misread>>

ShoutcastInit ==
  /\ metaint = 0 /\ current_meta_chunk = 0 /\ first_meta_size = 0
  /\ open = FALSE /\ sent = 0 /\ meta = 0 /\ kept = <<>>
  /\ lost = FALSE /\ misread = "none"

Read == shoutcast_session_read \/ shoutcast_session_readWhole

ShoutcastNext == Read \/ shoutcast_session_open \/ shoutcast_session_close

ShoutcastSpec == ShoutcastInit /\ [][ShoutcastNext]_shoutcast_vars

-----------------------------------------------------------------------------
(* Properties.                                                              *)

Sizes == {l * Unit : l \in Lengths}

(* The values of the variables; the count stays in the chunk until a length *)
(* byte is missed, and then in the block.                                   *)
ShoutcastTypeOK ==
  /\ metaint \in Metaints \cup {0}
  /\ current_meta_chunk \in Nat
  /\ current_meta_chunk > metaint =>
       metaint > 0 /\ lost /\ current_meta_chunk < Block
  /\ first_meta_size \in Sizes \cup {0}
  /\ open \in BOOLEAN /\ lost \in BOOLEAN
  /\ sent \in 0..metaint /\ meta \in Nat
  /\ kept \in Seq([kind : {"audio", "meta", "length", "later"}, n : Nat])
  /\ misread \in {"none", "short", "split", "before", "unsized"}

(* The session's count is the server's place in the chunk, whatever blocks  *)
(* the stream was read in: as long as no session begins with the metadata   *)
(* of the one before and no length byte is missed.                          *)
ChunkAgrees ==
  open /\ metaint > 0 /\ ~lost /\ misread = "none" =>
    /\ first_meta_size = meta
    /\ current_meta_chunk = sent

(* The bytes of a read, as they should be: audio from the place where the   *)
(* server was to the place where it is.                                     *)
AudioBetween(bytes, from, to) ==
  /\ \A i \in 1..Len(bytes) :
       bytes[i] = [kind |-> "audio", n |-> (from + i - 1) % metaint]
  /\ (from + Len(bytes)) % metaint = to % metaint

(* Every read returns the audio that was received, all of it, in order and  *)
(* without metadata.                                                        *)
ReadsAudio ==
  [][Read /\ metaint > 0 /\ ~lost' /\ misread' = "none"
     => AudioBetween(kept', sent, sent')]_shoutcast_vars
=============================================================================
