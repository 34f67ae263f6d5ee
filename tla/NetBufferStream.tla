--------------------------- MODULE NetBufferStream ---------------------------
(***************************************************************************)
(* NetBuffer with the bytes in it: the array buffer_data, to show that the *)
(* ring of netbuffer.c implements BoundedFifo.  Bytes are labels: a job's  *)
(* stream is 0, 1, 2, ... modulo Labels, so that no two bytes in the ring  *)
(* look alike.  A ring that is cleared forgets its bytes: reading one that *)
(* the job has not saved shows as Unsaved.                                 *)
(***************************************************************************)
EXTENDS NetBuffer, Sequences

CONSTANT Labels

ASSUME LabelsAssumption == Labels \in Nat /\ Labels > Size + Block

VARIABLES
  buffer_data, \* the ring: _netbuf.buffer_data
  stream,      \* label of the next byte the worker fetches
  lost         \* history: the worker has saved a block without room

Unsaved == Labels

EmptyRing == [s \in 0..Size-1 |-> Unsaved]

svars == <<vars, buffer_data, stream, lost>>

(* Byte number i (from 0) past a start index. *)
Slot(start, i) == IF start + i < Size THEN start + i ELSE start + i - Size

(* The copies of net_buf_do_job: the fetched block into the ring. *)
Saved(ring) ==
  [s \in 0..Size-1 |->
     LET hits == {i \in 0..rlen-1 : Slot(save_index, i) = s}
     IN  IF hits = {} THEN ring[s]
         ELSE (stream + CHOOSE i \in hits : TRUE) % Labels]

StreamInit ==
  /\ Init
  /\ buffer_data = EmptyRing
  /\ stream = 0
  /\ lost = FALSE

StreamSave ==
  /\ Save
  /\ buffer_data' = Saved(buffer_data)
  /\ stream' = (stream + rlen) % Labels
  /\ lost' = (lost \/ data_length + rlen > Size)

StreamClear ==
  /\ CheckJob \/ ResetBuffer
  /\ lost' = FALSE
  /\ buffer_data' = EmptyRing
  /\ stream' = 0

StreamOther ==
  /\ \/ UiStep \/ PlayerStep
     \/ RecvJob \/ LoopTop \/ Fetch \/ CheckRoom \/ SuspendSelf \/ Resumed
     \/ AddLength \/ CheckReady \/ WakeReader
     \/ CloseJob \/ SetStopped \/ CheckWaiter \/ WakeStopped
  /\ UNCHANGED <<buffer_data, stream, lost>>

StreamNext == StreamSave \/ StreamClear \/ StreamOther

StreamSpec == StreamInit /\ [][StreamNext]_svars

FairStreamSpec == StreamSpec /\ Fairness

(* What a reader that took everything now would copy out. *)
Contents ==
  IF lost THEN <<>>
  ELSE [i \in 1..data_length |-> buffer_data[Slot(read_index, i - 1)]]

Fifo == INSTANCE BoundedFifo WITH
          queue <- Contents, Capacity <- Size, Byte <- 0..Labels-1, MaxPut <- Block

(* The ring, updated by two threads that share no lock for the copies, is a  *)
(* FIFO of bytes.                                                            *)
ImplementsFifo == Fifo!Spec
=============================================================================
