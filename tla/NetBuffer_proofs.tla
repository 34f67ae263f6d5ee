-------------------------- MODULE NetBuffer_proofs --------------------------
(***************************************************************************)
(* Proofs about NetBuffer, for every size of the ring, block and request   *)
(* that SizeAssumption admits.  The invariants of the runs are not         *)
(* inductive one by one: that a resumed worker has room depends on who may *)
(* resume it, that only one job is queued on which states of the worker go *)
(* with which value of stat.  IInv adds these two links.  RingOK, in the    *)
(* second half, says what is in the ring: the refinement of BoundedFifo.   *)
(***************************************************************************)
EXTENDS NetBufferStream, SequenceTheorems, TLAPS

Stopping == {"waiter", "wakestop", "reset"}

(* stat and jobs as the worker's place determines them: a job is in the     *)
(* queue or with the worker, not both, while the state is not STOPPED.      *)
StatOfWorker ==
  /\ jobs \in {0, 1}
  /\ stat = "STOPPED" => jobs = 0 /\ wpc \in Stopping \cup {"recv"}
  /\ wpc \in Stopping /\ stat # "STOPPED" => jobs = 1
  /\ wpc \notin Stopping \cup {"recv"} => jobs = 0

(* How full the ring can be.  A worker resumed by a reader finds less than   *)
(* resume_wm in it; only a stop lets the worker save past the end.           *)
Fill ==
  /\ data_length <= Size + Block
  /\ wpc \in {"fetch", "room", "suspend", "resume", "save", "add"}
       => data_length <= Size
  /\ wpc \in {"ready", "wake", "loop"} /\ stat # "STOPPING" => data_length <= Size
  /\ wpc = "resume" /\ stat = "BUFFERING" => data_length < resume_wm

IInv ==
  /\ TypeOK
  /\ WakeOnce
  /\ ResumeOnce
  /\ RoomToSave
  /\ IndicesAgree
  /\ StatOfWorker
  /\ Fill

-----------------------------------------------------------------------------
(* The water marks: a resumed worker, below the lower one, has room.        *)
LEMMA WaterMarks ==
  /\ ready_wm \in Nat /\ resume_wm \in Nat
  /\ Block + resume_wm <= Size + 1
BY SizeAssumption DEF ready_wm, resume_wm

(* Advancing an index by at most one turn keeps it in the ring and moves it  *)
(* by that length, but for one turn.                                         *)
LEMMA AdvanceInRing ==
  ASSUME NEW i \in 0..Size-1, NEW n \in 0..Size
  PROVE  /\ Advance(i, n) \in 0..Size-1
         /\ Advance(i, n) \in {i + n, i + n - Size}
BY SizeAssumption DEF Advance

LEMMA LesserIsLesser ==
  ASSUME NEW a \in Nat, NEW b \in Nat
  PROVE  Lesser(a, b) \in Nat /\ Lesser(a, b) <= a /\ Lesser(a, b) <= b
BY DEF Lesser

-----------------------------------------------------------------------------

(* The part of TypeOK about the two flags.                                  *)
Flags == is_wait_ready \in BOOLEAN /\ is_playing \in BOOLEAN

LEMMA FlagsKept == Flags /\ Next => Flags'
<1> SUFFICES ASSUME Flags, Next PROVE Flags'
  OBVIOUS
<1> USE DEF Flags
<1>1. CASE UiStep
  BY Zenon, <1>1 DEF UiStep, PlayReq, StopReq
<1>2. CASE PlayerStep
  <2>1. is_playing' \in BOOLEAN
    BY Zenon, <1>2
    DEF PlayerStep, Dequeue, ConnectFails, StartJob, ReadWaits, ReadTakes,
        ReadWoken, AudioBlocks, AudioReady, StopPlaying, TakeData, Leave
  <2>2. is_wait_ready' \in BOOLEAN
    BY Zenon, <1>2
    DEF PlayerStep, Dequeue, ConnectFails, StartJob, ReadWaits, ReadTakes,
        ReadWoken, AudioBlocks, AudioReady, StopPlaying
  <2> QED
    BY <2>1, <2>2
<1>3. CASE WorkerStep
  BY Zenon, <1>3
  DEF WorkerStep, RecvJob, CheckJob, LoopTop, Fetch, CheckRoom, SuspendSelf,
      Resumed, Save, AddLength, CheckReady, WakeReader, CloseJob, SetStopped,
      CheckWaiter, WakeStopped, ResetBuffer, player
<1> QED
  BY <1>1, <1>2, <1>3 DEF Next

LEMMA InitIInv == Init => IInv
<1> SUFFICES ASSUME Init PROVE IInv
  OBVIOUS
<1> USE SizeAssumption DEF Init
<1>1. TypeOK
  <2>1. Flags
    BY Zenon DEF Flags
  <2> QED
    BY <2>1 DEF TypeOK, Flags, Stats, PlayerAt, WorkerAt
<1>2. WakeOnce /\ ResumeOnce
  BY DEF WakeOnce, ResumeOnce, Count
<1>3. RoomToSave /\ IndicesAgree
  BY DEF RoomToSave, IndicesAgree
<1>4. StatOfWorker /\ Fill
  BY DEF StatOfWorker, Fill, Stopping
<1> QED
  BY <1>1, <1>2, <1>3, <1>4 DEF IInv

(* The user interface touches only requests and is_playing.                 *)
LEMMA UiKeepsIInv == IInv /\ UiStep => IInv'
<1> SUFFICES ASSUME IInv, UiStep PROVE IInv'
  OBVIOUS
<1>0. Flags'
  BY FlagsKept DEF IInv, TypeOK, Flags, Next
<1> USE SizeAssumption
    DEF IInv, TypeOK, WakeOnce, ResumeOnce, RoomToSave, IndicesAgree, Count,
        StatOfWorker, Fill, Stopping, Flags, indices, sems, worker
<1>1. CASE PlayReq
  <2>1. requests' \in 0..MaxRequests
    BY <1>0, <1>1, LesserIsLesser DEF PlayReq, Lesser
  <2> QED
    BY <1>0, <1>1, <2>1 DEF PlayReq
<1>2. CASE StopReq
  BY <1>2 DEF StopReq
<1> QED
  BY <1>1, <1>2 DEF UiStep

(* Whatever the worker is doing, after a stop it is stopped or will see the  *)
(* stop, and if it was suspended it can go on.                               *)
LEMMA StopJobEffect ==
  ASSUME IInv, StopJob
  PROVE  /\ stat' \in {"STOPPED", "STOPPING"}
         /\ stat' = "STOPPED" <=> stat = "STOPPED"
         /\ wait_resume' = Count(wpc = "resume")
BY DEF IInv, TypeOK, Stats, ResumeOnce, StopJob, Count, StatOfWorker, Stopping

(* A read takes n bytes from the front of the region and moves read_index    *)
(* over them, to i.                                                          *)
Moves(n, i) ==
  /\ n <= data_length /\ data_length' = data_length - n
  /\ read_index' = i /\ i \in {read_index + n, read_index + n - Size}
  /\ save_index' = save_index

(* It then goes on, leaving a suspended worker resumed below the lower mark, *)
(* or gives up, having stopped the job.                                      *)
GoesOn(n) ==
  /\ ppc' \in {"idle", "run"}
  /\ stat' \in Stats
  /\ stat' = "STOPPED" <=> stat = "STOPPED"
  /\ stat = "STOPPING" => stat' = "STOPPING"
  /\ wpc = "resume" => wait_resume' = Count(stat' # "SUSPEND")
  /\ wpc # "resume" => wait_resume' = 0 /\ stat' # "SUSPEND"
  /\ stat' = "BUFFERING" => stat = "BUFFERING" \/ data_length - n < resume_wm

LEMMA TakeDataEffect ==
  ASSUME IInv, NEW length \in 0..MaxRead, TakeData(length)
  PROVE  \E n \in 0..Size, i \in 0..Size-1 : Moves(n, i) /\ GoesOn(n)
<1> DEFINE n == Lesser(length, data_length)
           i == IF n > 0 THEN Advance(read_index, n) ELSE read_index
<1>1. n \in 0..Size /\ n <= data_length
  BY SizeAssumption DEF IInv, TypeOK, Lesser
<1>2. i \in 0..Size-1 /\ i \in {read_index + n, read_index + n - Size}
  <2>1. read_index \in 0..Size-1
    BY DEF IInv, IndicesAgree
  <2>2. Advance(read_index, n) \in 0..Size-1
        /\ Advance(read_index, n) \in {read_index + n, read_index + n - Size}
    <3> HIDE DEF n
    <3> QED
      BY <1>1, <2>1, AdvanceInRing
  <2> HIDE DEF n
  <2> QED
    BY <1>1, <2>1, <2>2, SizeAssumption
<1>3. Moves(n, i)
  BY <1>1, <1>2 DEF TakeData, Moves
<1>4. GoesOn(n)
  <2>1. CASE n = 0
    <3>1. Leave
      BY <2>1 DEF TakeData
    <3>2. StopJob /\ ppc' = "idle"
      BY <3>1 DEF Leave
    <3>3. /\ stat' \in {"STOPPED", "STOPPING"}
          /\ stat' = "STOPPED" <=> stat = "STOPPED"
          /\ wait_resume' = Count(wpc = "resume")
      BY <3>2, StopJobEffect
    <3> HIDE DEF n
    <3> QED
      BY <3>2, <3>3 DEF GoesOn, Count, Stats
  <2>2. CASE n # 0
    BY <1>1, <2>2, SizeAssumption
    DEF GoesOn, TakeData, Count, Stats, IInv, TypeOK, ResumeOnce
  <2> QED
    BY <2>1, <2>2
<1> HIDE DEF n, i
<1> QED
  BY <1>1, <1>2, <1>3, <1>4

LEMMA MovesKeepsIndices ==
  ASSUME IInv, UNCHANGED worker,
         NEW n \in 0..Size, NEW i \in 0..Size-1, Moves(n, i)
  PROVE  IndicesAgree'
BY SizeAssumption DEF IInv, TypeOK, IndicesAgree, Moves, worker

LEMMA PlayerKeepsIInv == IInv /\ PlayerStep => IInv'
<1> SUFFICES ASSUME IInv, PlayerStep PROVE IInv'
  OBVIOUS
<1>0. Flags'
  BY FlagsKept DEF IInv, TypeOK, Flags, Next
<1> USE SizeAssumption
    DEF IInv, TypeOK, WakeOnce, ResumeOnce, RoomToSave, IndicesAgree, Count,
        StatOfWorker, Fill, Stopping, Flags, indices, sems, worker, Stats, PlayerAt
<1>1. CASE Dequeue
  BY <1>1 DEF Dequeue
<1>2. CASE ConnectFails
  BY <1>0, <1>2, StopJobEffect DEF ConnectFails, Leave
<1>3. CASE StartJob
  <2>1. CASE stat = "STOPPED"
    BY <1>0, <1>3, <2>1 DEF StartJob
  <2>2. CASE stat # "STOPPED"
    BY <1>0, <1>3, <2>2, StopJobEffect DEF StartJob, Leave
  <2> QED
    BY <2>1, <2>2
<1>4. CASE ReadWaits
  BY <1>4 DEF ReadWaits, MustWait, Reading
<1>5. CASE AudioBlocks
  BY <1>5 DEF AudioBlocks
<1>6. CASE AudioReady
  BY <1>6 DEF AudioReady
<1>7. CASE StopPlaying
  BY <1>0, <1>7, StopJobEffect DEF StopPlaying, Leave
<1>8. CASE ReadTakes
  <2>1. PICK length \in 1..MaxRead : TakeData(length)
    BY <1>8 DEF ReadTakes
  <2>2. PICK n \in 0..Size, i \in 0..Size-1 : Moves(n, i) /\ GoesOn(n)
    BY <2>1, TakeDataEffect
  <2>3. IndicesAgree'
    BY <1>8, <2>2, MovesKeepsIndices DEF ReadTakes
  <2>4. TypeOK' /\ WakeOnce'
    BY <1>0, <1>8, <2>2 DEF ReadTakes, Reading, Moves, GoesOn
  <2>5. ResumeOnce' /\ RoomToSave'
    BY <1>8, <2>2 DEF ReadTakes, Moves, GoesOn
  <2>6. StatOfWorker' /\ Fill'
    BY <1>8, <2>2, WaterMarks DEF ReadTakes, Moves, GoesOn
  <2> QED
    BY <2>3, <2>4, <2>5, <2>6
<1>9. CASE ReadWoken
  <2>1. TakeData(plen) /\ plen \in 0..MaxRead
    BY <1>9 DEF ReadWoken
  <2>2. PICK n \in 0..Size, i \in 0..Size-1 : Moves(n, i) /\ GoesOn(n)
    BY <2>1, TakeDataEffect
  <2>3. IndicesAgree'
    BY <1>9, <2>2, MovesKeepsIndices DEF ReadWoken
  <2>4. TypeOK' /\ WakeOnce'
    BY <1>0, <1>9, <2>2 DEF ReadWoken, Moves, GoesOn
  <2>5. ResumeOnce' /\ RoomToSave'
    BY <1>9, <2>2 DEF ReadWoken, Moves, GoesOn
  <2>6. StatOfWorker' /\ Fill'
    BY <1>9, <2>2, WaterMarks DEF ReadWoken, Moves, GoesOn
  <2> QED
    BY <2>3, <2>4, <2>5, <2>6
<1> QED
  BY <1>1, <1>2, <1>3, <1>4, <1>5, <1>6, <1>7, <1>8, <1>9 DEF PlayerStep

LEMMA WorkerKeepsIInv == IInv /\ WorkerStep => IInv'
<1> SUFFICES ASSUME IInv, WorkerStep PROVE IInv'
  OBVIOUS
<1>0. Flags'
  BY FlagsKept DEF IInv, TypeOK, Flags, Next
<1> USE SizeAssumption
    DEF IInv, TypeOK, WakeOnce, ResumeOnce, RoomToSave, IndicesAgree, Count,
        StatOfWorker, Fill, Stopping, Flags, indices, sems, player, At, Goto, Stats,
        WorkerAt
<1>1. CASE RecvJob
  BY <1>1 DEF RecvJob
<1>2. CASE CheckJob
  BY <1>2 DEF CheckJob
<1>3. CASE LoopTop
  BY <1>3 DEF LoopTop
<1>4. CASE Fetch
  BY <1>4 DEF Fetch
<1>5. CASE CheckRoom
  BY <1>5 DEF CheckRoom
<1>6. CASE SuspendSelf
  BY <1>6 DEF SuspendSelf
<1>7. CASE Resumed
  BY <1>0, <1>7, WaterMarks DEF Resumed
<1>8. CASE Save
  <2>1. rlen \in 0..Size /\ save_index \in 0..Size-1
    OBVIOUS
  <2>2. /\ save_index' \in 0..Size-1
        /\ save_index' \in {save_index + rlen, save_index + rlen - Size}
    <3> HIDE DEF IInv
    <3> QED BY <1>8, <2>1, AdvanceInRing DEF Save
  <2> QED
    BY <1>8, <2>2 DEF Save
<1>9. CASE AddLength
  BY <1>9 DEF AddLength
<1>10. CASE CheckReady
  <2>1. CASE stat = "BUFFERING" /\ seen >= ready_wm /\ is_wait_ready
    BY <1>0, <1>10, <2>1 DEF CheckReady
  <2>2. CASE ~(stat = "BUFFERING" /\ seen >= ready_wm /\ is_wait_ready)
    BY <1>0, <1>10, <2>2 DEF CheckReady
  <2> QED
    BY <2>1, <2>2
<1>11. CASE WakeReader
  BY <1>11 DEF WakeReader
<1>12. CASE CloseJob
  BY <1>12 DEF CloseJob
<1>13. CASE SetStopped
  BY <1>13 DEF SetStopped
<1>14. CASE CheckWaiter
  BY <1>0, <1>14 DEF CheckWaiter
<1>15. CASE WakeStopped
  BY <1>15 DEF WakeStopped
<1>16. CASE ResetBuffer
  BY <1>16 DEF ResetBuffer
<1> QED
  BY <1>1, <1>2, <1>3, <1>4, <1>5, <1>6, <1>7, <1>8, <1>9, <1>10, <1>11,
     <1>12, <1>13, <1>14, <1>15, <1>16 DEF WorkerStep

-----------------------------------------------------------------------------

LEMMA IInvInductive == Spec => []IInv
<1>1. IInv /\ UNCHANGED vars => IInv'
  BY Zenon
  DEF vars, indices, sems, player, worker, IInv, TypeOK, WakeOnce, ResumeOnce,
      RoomToSave, IndicesAgree, StatOfWorker, Fill
<1>2. IInv /\ [Next]_vars => IInv'
  BY <1>1, UiKeepsIInv, PlayerKeepsIInv, WorkerKeepsIInv DEF Next
<1> QED
  BY <1>2, InitIInv, PTL DEF Spec

(* The values of every field stay in their ranges, whatever the sizes.      *)
THEOREM TypeCorrect == Spec => []TypeOK
BY IInvInductive, PTL DEF IInv

(* net_buf_read against net_buf_do_job and net_buf_do_stop: every blocked    *)
(* reader is owed exactly one release of wait_ready.                        *)
THEOREM NoLostWakeUp == Spec => []WakeOnce
BY IInvInductive, PTL DEF IInv

(* A worker blocked on wait_resume can be resumed and is resumed once.      *)
THEOREM NoLostResume == Spec => []ResumeOnce
BY IInvInductive, PTL DEF IInv

(* A resumed worker has room for its block although net_buf_do_job does not  *)
(* check again.                                                             *)
THEOREM ResumedHasRoom == Spec => []RoomToSave
BY IInvInductive, PTL DEF IInv

(* read_index, save_index and data_length describe one region of the ring.  *)
THEOREM IndicesStayInStep == Spec => []IndicesAgree
BY IInvInductive, PTL DEF IInv

(* rt_mq_send in net_buf_start_job never meets a full queue.                *)
THEOREM AtMostOneJob == Spec => []OneJob
<1>1. IInv => OneJob
  BY DEF IInv, StatOfWorker, OneJob
<1> QED
  BY <1>1, IInvInductive, PTL
-----------------------------------------------------------------------------
(* The bytes in the ring: NetBufferStream.                                  *)

Label == 0..Labels-1

(* The bytes that the worker has copied, whether it has counted them or not.*)
Filled == data_length + (IF wpc = "add" THEN rlen ELSE 0)

(* As long as every block had room, each slot from read_index on that is    *)
(* filled holds a byte of the job; and nothing is left of an earlier job.   *)
RingOK ==
  /\ buffer_data \in [0..Size-1 -> 0..Labels] /\ stream \in Label
  /\ wpc \in {"room", "suspend", "resume", "save", "add"} => rlen > 0
  /\ wpc \in {"recv", "check"} => data_length = 0
  /\ ~lost => Filled <= Size /\ \A j \in 0..Filled-1 : buffer_data[Slot(read_index, j)] \in Label

SInv == IInv /\ lost \in BOOLEAN /\ RingOK

LEMMA SlotInRing ==
  ASSUME NEW start \in 0..Size-1, NEW j \in 0..Size-1
  PROVE  Slot(start, j) \in 0..Size-1
BY SizeAssumption DEF Slot

LEMMA LabelsPositive == Labels \in Nat \ {0}
BY SizeAssumption, LabelsAssumption

(* Reading n bytes moves the start over them.                               *)
LEMMA SlotShift ==
  ASSUME NEW start \in 0..Size-1, NEW n \in 0..Size, NEW i \in 0..Size-1,
         i \in {start + n, start + n - Size}, NEW j \in Nat, j + n < Size
  PROVE  Slot(i, j) = Slot(start, j + n)
BY SizeAssumption DEF Slot

(* The block is saved behind the bytes that are there.                      *)
LEMMA SlotBehind ==
  ASSUME NEW start \in 0..Size-1, NEW length \in Nat, NEW end \in 0..Size-1,
         start + length - end \in {0, Size, 2 * Size},
         NEW n \in Nat \ {0}, length + n <= Size
  PROVE  /\ \A i \in 0..n-1 : Slot(end, i) = Slot(start, length + i)
         /\ \A j \in 0..length-1, i \in 0..n-1 : Slot(start, j) # Slot(end, i)
BY SizeAssumption DEF Slot

LEMMA Laid ==
  ASSUME NEW S, NEW n \in Nat, NEW f \in [1..n -> S]
  PROVE  f \in Seq(S) /\ Len(f) = n /\ \A i \in 1..n : f[i] \in S
<1>1. f \in Seq(S)
  BY SeqDef
<1>2. Len(f) \in Nat /\ DOMAIN f = 1..Len(f)
  BY <1>1, LenProperties
<1>3. 1..n = 1..Len(f)
  BY <1>2
<1>4. ASSUME NEW m \in Nat, 1..n = 1..m PROVE n = m
  <2>1. m > 0 => m \in 1..n
    BY <1>4
  <2>2. n > 0 => n \in 1..m
    BY <1>4
  <2> QED
    BY <2>1, <2>2
<1> QED
  BY <1>1, <1>2, <1>3, <1>4

(* What a reader would find.                                                *)
ContentsOK ==
  /\ Contents \in Seq(Label) /\ Len(Contents) = data_length
  /\ \A i \in 1..data_length : Contents[i] = buffer_data[Slot(read_index, i - 1)]

LEMMA ContentsAre == SInv /\ ~lost => ContentsOK
<1> SUFFICES ASSUME SInv, ~lost PROVE ContentsOK
  OBVIOUS
<1>1. data_length \in Nat /\ rlen \in Nat
  BY DEF SInv, IInv, TypeOK
<1>2. \A i \in 1..data_length : buffer_data[Slot(read_index, i - 1)] \in Label
  <2>1. ASSUME NEW i \in 1..data_length PROVE i - 1 \in 0..Filled-1
    BY <1>1 DEF Filled
  <2> QED
    BY <2>1 DEF SInv, RingOK
<1>3. Contents = [i \in 1..data_length |-> buffer_data[Slot(read_index, i - 1)]]
  BY DEF Contents
<1>4. Contents \in [1..data_length -> Label]
  BY <1>2, <1>3
<1>5. \A i \in 1..data_length : Contents[i] = buffer_data[Slot(read_index, i - 1)]
  BY <1>3
<1> QED
  BY <1>1, <1>4, <1>5, Laid DEF ContentsOK

LEMMA ContentsPrimed == (SInv /\ ~lost)' => ContentsOK'
  BY ContentsAre, PTL

-----------------------------------------------------------------------------
(* The player.                                                              *)

(* Whatever the player does, it takes n bytes or none.                      *)
LEMMA PlayerMoves ==
  ASSUME IInv, PlayerStep
  PROVE  UNCHANGED worker /\ \E n \in 0..Size, i \in 0..Size-1 : Moves(n, i)
<1>1. read_index \in 0..Size-1 /\ data_length \in Nat
  BY DEF IInv, TypeOK, IndicesAgree
<1>2. UNCHANGED worker
  BY DEF PlayerStep, Dequeue, ConnectFails, StartJob, ReadWaits, ReadTakes, ReadWoken,
         AudioBlocks, AudioReady, StopPlaying
<1>3. CASE ReadTakes
  <2>1. PICK length \in 1..MaxRead : TakeData(length)
    BY <1>3 DEF ReadTakes
  <2>2. length \in 0..MaxRead
    BY SizeAssumption
  <2>3. PICK n \in 0..Size, i \in 0..Size-1 : Moves(n, i)
    BY <2>1, <2>2, TakeDataEffect
  <2> QED
    BY <1>2, <2>3
<1>4. CASE ReadWoken
  <2>1. TakeData(plen) /\ plen \in 0..MaxRead
    BY <1>4 DEF ReadWoken, IInv, TypeOK
  <2>2. PICK n \in 0..Size, i \in 0..Size-1 : Moves(n, i)
    BY <2>1, TakeDataEffect
  <2> QED
    BY <1>2, <2>2
<1>5. ASSUME UNCHANGED indices PROVE Moves(0, read_index) /\ 0 \in 0..Size
  BY <1>1, <1>5, SizeAssumption DEF Moves, indices
<1>6. CASE ~ReadTakes /\ ~ReadWoken
  <2>1. UNCHANGED indices
    BY <1>6 DEF PlayerStep, Dequeue, ConnectFails, StartJob, ReadWaits, AudioBlocks,
                AudioReady, StopPlaying
  <2> QED
    BY <1>1, <1>2, <1>5, <2>1
<1> QED
  BY <1>3, <1>4, <1>6

LEMMA MovesRing ==
  ASSUME SInv, UNCHANGED <<worker, buffer_data, stream, lost>>,
         NEW n \in 0..Size, NEW i \in 0..Size-1, Moves(n, i)
  PROVE  RingOK'
<1>1. /\ data_length \in Nat /\ rlen \in Nat /\ read_index \in 0..Size-1
      /\ n <= data_length /\ data_length' = data_length - n
      /\ read_index' = i /\ i \in {read_index + n, read_index + n - Size}
      /\ wpc' = wpc /\ rlen' = rlen
  BY DEF SInv, IInv, TypeOK, IndicesAgree, Moves, worker
<1>2. Filled' = Filled - n /\ Filled \in Nat /\ Filled' \in Nat
  BY <1>1 DEF Filled
<1>3. ASSUME ~lost', NEW j \in 0..Filled'-1
      PROVE  buffer_data'[Slot(read_index', j)] \in Label
  <2>1. Filled <= Size /\ ~lost
    BY <1>3 DEF SInv, RingOK
  <2>2. j \in Nat /\ j + n < Size /\ j + n \in 0..Filled-1
    BY <1>2, <2>1, SizeAssumption
  <2>3. Slot(read_index', j) = Slot(read_index, j + n)
    BY <1>1, <2>2, SlotShift
  <2> QED
    BY <2>1, <2>2, <2>3 DEF SInv, RingOK
<1>4. ~lost' => Filled' <= Size
  BY <1>2, SizeAssumption DEF SInv, RingOK
<1>5. wpc' \in {"recv", "check"} => data_length' = 0
  BY <1>1 DEF SInv, RingOK
<1> QED
  BY <1>1, <1>3, <1>4, <1>5 DEF SInv, RingOK

(* To its reader the ring is shorter by the oldest bytes.                   *)
LEMMA MovesTakes ==
  ASSUME SInv, SInv', ~lost, UNCHANGED <<buffer_data, lost>>,
         NEW n \in 0..Size, NEW i \in 0..Size-1, Moves(n, i)
  PROVE  Fifo!Take \/ UNCHANGED <<Contents, lost>>
<1>1. /\ data_length \in Nat /\ read_index \in 0..Size-1
      /\ n <= data_length /\ data_length' = data_length - n
      /\ read_index' = i /\ i \in {read_index + n, read_index + n - Size}
  BY DEF SInv, IInv, TypeOK, IndicesAgree, Moves
<1>2. data_length <= Size
  <2>1. rlen \in Nat
    BY DEF SInv, IInv, TypeOK
  <2> QED
    BY <1>1, <2>1, SizeAssumption DEF SInv, RingOK, Filled
<1>3. CASE n = 0
  <2>1. read_index' = read_index /\ data_length' = data_length
    BY <1>1, <1>3, SizeAssumption
  <2> QED
    BY <2>1 DEF Contents
<1>4. CASE n # 0
  <2>1. /\ Contents \in Seq(Label) /\ Len(Contents) = data_length
        /\ \A k \in 1..data_length : Contents[k] = buffer_data[Slot(read_index, k - 1)]
    BY ContentsAre DEF ContentsOK
  <2>2. /\ Contents' \in Seq(Label) /\ Len(Contents') = data_length'
        /\ \A k \in 1..data_length' : Contents'[k] = buffer_data'[Slot(read_index', k - 1)]
    BY ContentsPrimed DEF ContentsOK
  <2> DEFINE rest == SubSeq(Contents, n + 1, data_length)
  <2>3. \A k \in n+1 .. data_length : Contents[k] \in Label
    BY <2>1, ElementOfSeq
  <2>4. /\ rest \in Seq(Label)
        /\ Len(rest) = IF n + 1 <= data_length THEN data_length - (n + 1) + 1 ELSE 0
        /\ \A k \in 1 .. data_length - (n + 1) + 1 : rest[k] = Contents[n + 1 + k - 1]
    BY <1>1, <2>3, SubSeqProperties
  <2> HIDE DEF rest
  <2>5. Len(rest) = data_length - n /\ \A k \in 1..data_length-n : rest[k] = Contents[n + k]
    BY <1>1, <2>4
  <2>6. ASSUME NEW k \in 1..data_length-n PROVE Contents'[k] = rest[k]
    <3>1. Contents'[k] = buffer_data[Slot(i, k - 1)]
      BY <1>1, <2>2
    <3>2. k - 1 \in Nat /\ (k - 1) + n < Size
      BY <1>1, <1>2, SizeAssumption
    <3>3. Slot(i, k - 1) = Slot(read_index, (k - 1) + n)
      BY <1>1, <3>2, SlotShift
    <3>4. n + k \in 1..data_length /\ (n + k) - 1 = (k - 1) + n
      BY <1>1
    <3>5. Contents[n + k] = buffer_data[Slot(read_index, (k - 1) + n)]
      BY <2>1, <3>4
    <3> QED
      BY <2>5, <3>1, <3>3, <3>5
  <2>7. Contents' = rest
    <3>1. Len(Contents') = Len(rest) /\ \A k \in 1..Len(Contents') : Contents'[k] = rest[k]
      BY <1>1, <2>2, <2>5, <2>6
    <3> QED
      BY <2>2, <2>4, <3>1, SeqEqual
  <2>8. n \in 1..Len(Contents)
    BY <1>1, <1>4, <2>1
  <2> QED
    BY <2>1, <2>7, <2>8 DEF Fifo!Take, rest
<1> QED
  BY <1>3, <1>4

-----------------------------------------------------------------------------
(* The worker.                                                              *)

(* The copy writes bytes of the job, behind those that are there.           *)
LEMMA SaveRing ==
  ASSUME SInv, StreamSave
  PROVE  /\ RingOK' /\ lost' \in BOOLEAN
         /\ Fifo!Overrun \/ UNCHANGED <<Contents, lost>>
<1>1. /\ Save /\ buffer_data' = Saved(buffer_data) /\ stream' = (stream + rlen) % Labels
      /\ lost' <=> (lost \/ data_length + rlen > Size)
      /\ wpc = "save" /\ wpc' = "add" /\ UNCHANGED <<data_length, read_index, rlen>>
  BY DEF StreamSave, Save, At, Goto, player
<1>2. /\ data_length \in Nat /\ rlen \in Nat \ {0} /\ read_index \in 0..Size-1
      /\ save_index \in 0..Size-1 /\ stream \in Label
      /\ read_index + data_length - save_index \in {0, Size, 2 * Size}
      /\ buffer_data \in [0..Size-1 -> 0..Labels]
  BY <1>1 DEF SInv, IInv, TypeOK, IndicesAgree, RingOK
<1>3. lost' \in BOOLEAN
  BY Zenon DEF StreamSave
<1>4. \A n \in Nat : n % Labels \in Label
  BY LabelsPositive DEF Label
<1> DEFINE Hits(s) == {i \in 0..rlen-1 : Slot(save_index, i) = s}
           New(s) == (stream + CHOOSE i \in Hits(s) : TRUE) % Labels
<1>5. \A s \in 0..Size-1 :
        /\ Hits(s) = {} => buffer_data'[s] = buffer_data[s]
        /\ Hits(s) # {} => buffer_data'[s] = New(s)
  BY <1>1 DEF Saved
<1>6. \A s \in 0..Size-1 : Hits(s) # {} => New(s) \in Label
  <2>1. ASSUME NEW s \in 0..Size-1, Hits(s) # {} PROVE New(s) \in Label
    <3>1. (CHOOSE i \in Hits(s) : TRUE) \in Hits(s)
      BY <2>1
    <3>2. (CHOOSE i \in Hits(s) : TRUE) \in Nat
      BY <1>2, <3>1
    <3> DEFINE c == CHOOSE i \in Hits(s) : TRUE
    <3> HIDE DEF c
    <3>3. stream + c \in Nat
      BY <1>2, <3>2 DEF Label, c
    <3>4. (stream + c) % Labels \in Label
      BY <1>4, <3>3
    <3> QED
      BY <3>4 DEF c
  <2> QED
    BY <2>1
<1>7. buffer_data' \in [0..Size-1 -> 0..Labels]
  <2>1. DOMAIN buffer_data' = 0..Size-1 /\ buffer_data' = [s \in 0..Size-1 |-> buffer_data'[s]]
    BY <1>1 DEF Saved
  <2> HIDE DEF Hits, New
  <2>2. \A s \in 0..Size-1 : buffer_data'[s] \in 0..Labels
    <3>1. ASSUME NEW s \in 0..Size-1 PROVE buffer_data'[s] \in 0..Labels
      <4>1. CASE Hits(s) = {}
        BY <1>2, <1>5, <4>1
      <4>2. CASE Hits(s) # {}
        <5>1. buffer_data'[s] \in Label
          BY <1>5, <1>6, <4>2
        <5> QED
          BY <5>1, LabelsPositive DEF Label
      <4> QED
        BY <4>1, <4>2
    <3> QED
      BY <3>1
  <2> QED
    BY <2>1, <2>2
<1>8. stream' \in Label
  BY <1>1, <1>2, <1>4 DEF Label
<1>9. ASSUME ~lost'
      PROVE  /\ data_length + rlen <= Size
             /\ \A j \in 0..data_length-1 :
                  buffer_data'[Slot(read_index, j)] = buffer_data[Slot(read_index, j)]
             /\ \A i \in 0..rlen-1 : buffer_data'[Slot(read_index, data_length + i)] \in Label
  <2>1. data_length + rlen <= Size
    BY <1>1, <1>2, <1>9, SizeAssumption
  <2>2. /\ \A i \in 0..rlen-1 : Slot(save_index, i) = Slot(read_index, data_length + i)
        /\ \A j \in 0..data_length-1, i \in 0..rlen-1 :
             Slot(read_index, j) # Slot(save_index, i)
    <3> HIDE DEF Hits, New
    <3>1. data_length \in Nat /\ rlen \in Nat \ {0}
      BY <1>2
    <3>2. read_index \in 0..Size-1 /\ save_index \in 0..Size-1
      BY <1>2
    <3>3. read_index + data_length - save_index \in {0, Size, 2 * Size}
      BY <1>2
    <3> QED
      BY <2>1, <3>1, <3>2, <3>3, SlotBehind
  <2>3. \A j \in 0..Size-1 : Slot(read_index, j) \in 0..Size-1
    BY <1>2, SlotInRing
  <2>4. ASSUME NEW j \in 0..data_length-1
        PROVE  buffer_data'[Slot(read_index, j)] = buffer_data[Slot(read_index, j)]
    <3>1. Hits(Slot(read_index, j)) = {}
      BY <2>2
    <3>2. j \in 0..Size-1
      BY <1>2, <2>1, SizeAssumption
    <3> HIDE DEF Hits
    <3> QED
      BY <1>5, <2>3, <3>1, <3>2
  <2>5. ASSUME NEW i \in 0..rlen-1
        PROVE  buffer_data'[Slot(read_index, data_length + i)] \in Label
    <3>1. i \in Hits(Slot(read_index, data_length + i))
      BY <2>2
    <3>2. data_length + i \in 0..Size-1
      BY <1>2, <2>1, SizeAssumption
    <3> HIDE DEF Hits, New
    <3> QED
      BY <1>5, <1>6, <2>3, <3>1, <3>2
  <2> QED
    BY <2>1, <2>4, <2>5
<1>10. RingOK'
  <2>1. Filled' = data_length + rlen /\ Filled = data_length
    BY <1>1, <1>2 DEF Filled
  <2>2. ASSUME ~lost', NEW j \in 0..Filled'-1
        PROVE  buffer_data'[Slot(read_index', j)] \in Label
    <3>1. CASE j < data_length
      <4>1. j \in 0..data_length-1 /\ j \in 0..Filled-1 /\ ~lost
        BY <1>1, <1>2, <2>1, <2>2, <3>1
      <4>2. buffer_data[Slot(read_index, j)] \in Label
        BY <4>1 DEF SInv, RingOK
      <4> QED
        BY <1>1, <1>9, <2>2, <4>1, <4>2
    <3>2. CASE ~(j < data_length)
      <4>1. j - data_length \in 0..rlen-1 /\ data_length + (j - data_length) = j
        BY <1>2, <2>1, <2>2, <3>2
      <4> QED
        BY <1>1, <1>9, <2>2, <4>1
    <3> QED
      BY <3>1, <3>2
  <2> QED
    BY <1>1, <1>2, <1>7, <1>8, <1>9, <2>1, <2>2 DEF RingOK
<1>11. CASE lost' /\ ~lost
  <2>1. lost' = TRUE
    BY Zenon, <1>3, <1>11
  <2>2. Contents' = <<>>
    BY Zenon, <1>11 DEF Contents
  <2> QED
    BY Zenon, <1>3, <1>10, <1>11, <2>1, <2>2 DEF Fifo!Overrun
<1>12. CASE lost
  <2>1. lost = TRUE /\ lost' = TRUE
    BY Zenon, <1>12 DEF SInv, StreamSave
  <2>2. Contents' = <<>> /\ Contents = <<>>
    BY Zenon, <2>1 DEF Contents
  <2> QED
    BY Zenon, <1>3, <1>10, <2>1, <2>2
<1>13. CASE ~lost'
  <2>1. ~lost /\ lost' = lost
    <3>1. ~lost
      BY <1>1, <1>13
    <3>2. lost = FALSE /\ lost' = FALSE
      BY Zenon, <1>3, <1>13, <3>1 DEF SInv
    <3> QED
      BY Zenon, <3>1, <3>2
  <2>2. \A i \in 1..data_length :
          buffer_data'[Slot(read_index, i - 1)] = buffer_data[Slot(read_index, i - 1)]
    <3>1. ASSUME NEW i \in 1..data_length PROVE i - 1 \in 0..data_length-1
      BY <1>2
    <3> QED
      BY <1>9, <1>13, <3>1
  <2>3. [i \in 1..data_length |-> buffer_data'[Slot(read_index, i - 1)]]
          = [i \in 1..data_length |-> buffer_data[Slot(read_index, i - 1)]]
    BY <2>2
  <2>4. Contents = [i \in 1..data_length |-> buffer_data[Slot(read_index, i - 1)]]
    BY Zenon, <2>1 DEF Contents
  <2>5. Contents' = [i \in 1..data_length |-> buffer_data'[Slot(read_index, i - 1)]]
    <3>1. Contents' = [i \in 1..data_length' |-> buffer_data'[Slot(read_index', i - 1)]]
      BY Zenon, <1>13 DEF Contents, Slot
    <3> QED
      BY Zenon, <1>1, <3>1
  <2> QED
    BY Zenon, <1>3, <1>10, <2>1, <2>3, <2>4, <2>5
<1> QED
  BY <1>3, <1>10, <1>11, <1>12, <1>13

(* The bytes become the reader's when they are counted.                     *)
LEMMA AddRing ==
  ASSUME SInv, AddLength, UNCHANGED <<buffer_data, stream, lost>>
  PROVE  RingOK'
<1>1. /\ wpc = "add" /\ wpc' = "ready" /\ data_length' = data_length + rlen
      /\ UNCHANGED <<read_index, rlen>>
  BY DEF AddLength, At, Goto
<1>2. data_length \in Nat /\ rlen \in Nat
  BY DEF SInv, IInv, TypeOK
<1>3. Filled' = Filled
  BY <1>1, <1>2 DEF Filled
<1> QED
  BY <1>1, <1>3 DEF SInv, RingOK

LEMMA AddPuts ==
  ASSUME SInv, SInv', ~lost, AddLength, UNCHANGED <<buffer_data, lost>>
  PROVE  Fifo!Put
<1>1. /\ wpc = "add" /\ wpc' = "ready" /\ data_length' = data_length + rlen
      /\ UNCHANGED read_index
  BY DEF AddLength, At, Goto
<1>2. data_length \in Nat /\ rlen \in 1..Block /\ data_length + rlen <= Size
  BY <1>1, SizeAssumption DEF SInv, IInv, TypeOK, RingOK, Filled
<1>3. /\ Contents \in Seq(Label) /\ Len(Contents) = data_length
      /\ \A k \in 1..data_length : Contents[k] = buffer_data[Slot(read_index, k - 1)]
  BY ContentsAre DEF ContentsOK
<1>4. /\ Contents' \in Seq(Label) /\ Len(Contents') = data_length'
      /\ \A k \in 1..data_length' : Contents'[k] = buffer_data'[Slot(read_index', k - 1)]
  BY ContentsPrimed DEF ContentsOK
<1> DEFINE block == [k \in 1..rlen |-> Contents'[data_length + k]]
<1>5. \A k \in 1..rlen : Contents'[data_length + k] \in Label
  <2>1. ASSUME NEW k \in 1..rlen PROVE data_length + k \in 1..Len(Contents')
    BY <1>1, <1>2, <1>4
  <2> QED
    BY <1>4, <2>1, ElementOfSeq
<1>6. block \in [1..rlen -> Label] /\ \A k \in 1..rlen : block[k] = Contents'[data_length + k]
  BY <1>5
<1> HIDE DEF block
<1>7. block \in Seq(Label) /\ Len(block) = rlen
  BY <1>2, <1>6, Laid
<1>8. /\ Contents \o block \in Seq(Label)
      /\ Len(Contents \o block) = data_length + rlen
      /\ \A k \in 1..data_length+rlen :
           (Contents \o block)[k] = IF k <= data_length THEN Contents[k]
                                    ELSE block[k - data_length]
  BY <1>3, <1>7, ConcatProperties
<1>9. ASSUME NEW k \in 1..data_length+rlen PROVE Contents'[k] = (Contents \o block)[k]
  <2>1. CASE k <= data_length
    <3>1. k \in 1..data_length /\ k \in 1..data_length'
      BY <1>1, <1>2, <2>1
    <3>2. Contents'[k] = Contents[k]
      BY <1>1, <1>3, <1>4, <3>1
    <3> QED
      BY <1>8, <2>1, <3>2
  <2>2. CASE ~(k <= data_length)
    <3>1. k - data_length \in 1..rlen /\ data_length + (k - data_length) = k
      BY <1>2, <2>2
    <3>2. block[k - data_length] = Contents'[k]
      BY <1>6, <3>1
    <3> QED
      BY <1>8, <2>2, <3>2
  <2> QED
    BY <2>1, <2>2
<1>10. Contents' = Contents \o block
  <2>1. Len(Contents') = Len(Contents \o block)
        /\ \A k \in 1..Len(Contents') : Contents'[k] = (Contents \o block)[k]
    BY <1>1, <1>4, <1>8, <1>9
  <2> QED
    BY <1>4, <1>8, <2>1, SeqEqual
<1>11. block \in Fifo!Blocks
  BY <1>2, <1>6 DEF Fifo!Blocks, Label
<1>12. Len(Contents) + Len(block) <= Size
  BY <1>2, <1>3, <1>7
<1> QED
  BY <1>10, <1>11, <1>12 DEF Fifo!Put

(* The other steps of the worker neither move nor count bytes.              *)
WorkerAside ==
  \/ RecvJob \/ LoopTop \/ Fetch \/ CheckRoom \/ SuspendSelf \/ Resumed
  \/ CheckReady \/ WakeReader \/ CloseJob \/ SetStopped \/ CheckWaiter \/ WakeStopped

LEMMA AsideRing ==
  ASSUME SInv, WorkerAside, UNCHANGED <<buffer_data, stream, lost>>
  PROVE  RingOK' /\ UNCHANGED <<data_length, read_index>>
<1>1. UNCHANGED <<data_length, read_index>>
  BY DEF WorkerAside, RecvJob, LoopTop, Fetch, CheckRoom, SuspendSelf, Resumed,
         CheckReady, WakeReader, CloseJob, SetStopped, CheckWaiter, WakeStopped, indices
<1>2. wpc # "add" /\ wpc' # "add"
  BY DEF WorkerAside, RecvJob, LoopTop, Fetch, CheckRoom, SuspendSelf, Resumed,
         CheckReady, WakeReader, CloseJob, SetStopped, CheckWaiter, WakeStopped,
         At, Goto
<1>3. wpc' \in {"room", "suspend", "resume", "save", "add"} => rlen' > 0
  <2>1. CASE Fetch
    BY <2>1 DEF Fetch, At, Goto
  <2>2. CASE ~Fetch
    BY <2>2 DEF WorkerAside, RecvJob, LoopTop, CheckRoom, SuspendSelf, Resumed,
                CheckReady, WakeReader, CloseJob, SetStopped, CheckWaiter, WakeStopped,
                At, Goto, SInv, RingOK
  <2> QED
    BY <2>1, <2>2
<1>4. wpc' \in {"recv", "check"} => data_length' = 0
  BY <1>1 DEF WorkerAside, RecvJob, LoopTop, Fetch, CheckRoom, SuspendSelf, Resumed,
              CheckReady, WakeReader, CloseJob, SetStopped, CheckWaiter, WakeStopped,
              At, Goto, SInv, RingOK
<1>5. data_length \in Nat
  BY DEF SInv, IInv, TypeOK
<1>6. Filled' = Filled
  BY <1>1, <1>2, <1>5 DEF Filled
<1> QED
  BY <1>1, <1>3, <1>4, <1>6 DEF SInv, RingOK

(* An empty ring has no contents.                                           *)
LEMMA NothingThere == data_length = 0 => Contents = <<>>
<1> SUFFICES ASSUME data_length = 0 PROVE Contents = <<>>
  OBVIOUS
<1> DEFINE bytes == [i \in 1..data_length |-> buffer_data[Slot(read_index, i - 1)]]
<1>1. bytes = <<>>
  <2>1. bytes \in [1..0 -> {}]
    OBVIOUS
  <2>2. bytes \in Seq({}) /\ Len(bytes) = 0
    <3> HIDE DEF bytes
    <3> QED
      BY <2>1, Laid
  <2> HIDE DEF bytes
  <2> QED
    BY <2>2, EmptySeq
<1> QED
  BY Zenon, <1>1 DEF Contents

LEMMA NothingTherePrimed == (data_length = 0)' => (Contents = <<>>)'
  BY NothingThere, PTL

LEMMA ClearRing ==
  ASSUME SInv, StreamClear
  PROVE  RingOK' /\ lost' \in BOOLEAN /\ Fifo!Clear
<1>1. /\ wpc' \in {"loop", "recv"} /\ data_length' = 0
  BY DEF StreamClear, CheckJob, ResetBuffer, At, Goto, SInv, RingOK, indices
<1>2. lost' = FALSE
  BY Zenon DEF StreamClear
<1>3. EmptyRing \in [0..Size-1 -> 0..Labels] /\ 0 \in Label
  BY LabelsPositive DEF EmptyRing, Unsaved, Label
<1>4. buffer_data' \in [0..Size-1 -> 0..Labels] /\ stream' \in Label
  BY <1>3 DEF StreamClear
<1>5. Filled' = 0
  BY <1>1 DEF Filled
<1>6. Contents' = <<>>
  BY <1>1, NothingTherePrimed
<1>7. RingOK'
  BY <1>1, <1>4, <1>5, SizeAssumption DEF RingOK
<1> QED
  BY Zenon, <1>2, <1>6, <1>7 DEF Fifo!Clear

-----------------------------------------------------------------------------

LEMMA StreamIsNext == StreamNext => Next
BY Zenon DEF StreamNext, StreamSave, StreamClear, StreamOther, Next, UiStep, PlayerStep, WorkerStep

LEMMA InitSInv == StreamInit => SInv /\ Fifo!Init
<1> SUFFICES ASSUME StreamInit PROVE SInv /\ Fifo!Init
  OBVIOUS
<1>1. IInv
  BY InitIInv DEF StreamInit
<1>2. lost = FALSE
  BY Zenon DEF StreamInit
<1>3. data_length = 0 /\ wpc = "recv" /\ Filled = 0
  BY DEF StreamInit, Init, Filled
<1>4. buffer_data \in [0..Size-1 -> 0..Labels] /\ stream \in Label
  BY LabelsPositive DEF StreamInit, EmptyRing, Unsaved, Label
<1>5. RingOK
  BY <1>3, <1>4, SizeAssumption DEF RingOK
<1>6. Contents = <<>>
  BY <1>3, NothingThere
<1> QED
  BY Zenon, <1>1, <1>2, <1>5, <1>6 DEF SInv, Fifo!Init

(* Nothing is said of a ring that a block without room went into.           *)
LEMMA LostStutters ==
  ASSUME lost, UNCHANGED lost
  PROVE  UNCHANGED <<Contents, lost>>
BY Zenon DEF Contents

(* Each step keeps the invariant and is, to the reader, a step of the FIFO. *)
LEMMA StreamSteps ==
  SInv /\ [StreamNext]_svars => SInv' /\ [Fifo!Next]_<<Contents, lost>>
<1> SUFFICES ASSUME SInv, [StreamNext]_svars
             PROVE  SInv' /\ [Fifo!Next]_<<Contents, lost>>
  OBVIOUS
<1>1. CASE UNCHANGED svars
  <2>1. UNCHANGED <<Contents, lost>>
    BY Zenon, <1>1 DEF svars, vars, indices, Contents, Slot
  <2>2. UNCHANGED Filled
    BY Zenon, <1>1 DEF svars, vars, indices, worker, Filled
  <2>3. IInv'
    BY Zenon, <1>1
    DEF svars, vars, indices, sems, player, worker, SInv, IInv, TypeOK, WakeOnce,
        ResumeOnce, RoomToSave, IndicesAgree, StatOfWorker, Fill
  <2>4. RingOK' /\ lost' \in BOOLEAN
    BY Zenon, <1>1, <2>2 DEF svars, vars, indices, worker, SInv, RingOK, Slot
  <2> QED
    BY Zenon, <2>1, <2>3, <2>4 DEF SInv
<1>2. CASE StreamNext
  <2>1. IInv'
    BY <1>2, StreamIsNext, UiKeepsIInv, PlayerKeepsIInv, WorkerKeepsIInv DEF Next, SInv
  <2>2. CASE StreamSave
    BY Zenon, <2>1, <2>2, SaveRing DEF SInv, Fifo!Next
  <2>3. CASE StreamClear
    BY Zenon, <2>1, <2>3, ClearRing DEF SInv, Fifo!Next
  <2>4. CASE StreamOther
    <3>1. UNCHANGED <<buffer_data, stream, lost>> /\ lost' \in BOOLEAN
      BY Zenon, <2>4 DEF StreamOther, SInv
    <3>2. CASE UiStep
      <4>1. UNCHANGED <<indices, worker>>
        BY Zenon, <3>2 DEF UiStep, PlayReq, StopReq
      <4>2. RingOK'
        BY Zenon, <3>1, <4>1 DEF SInv, RingOK, Filled, Slot, indices, worker
      <4>3. UNCHANGED <<Contents, lost>>
        BY Zenon, <3>1, <4>1 DEF Contents, Slot, indices
      <4> QED
        BY Zenon, <2>1, <3>1, <4>2, <4>3 DEF SInv
    <3>3. CASE PlayerStep
      <4>1. UNCHANGED worker /\ \E n \in 0..Size, i \in 0..Size-1 : Moves(n, i)
        BY <3>3, PlayerMoves DEF SInv
      <4>2. PICK n \in 0..Size, i \in 0..Size-1 : Moves(n, i)
        BY <4>1
      <4>3. RingOK'
        BY Zenon, <3>1, <4>1, <4>2, MovesRing
      <4>4. SInv'
        BY Zenon, <2>1, <3>1, <4>3 DEF SInv
      <4>5. CASE ~lost
        BY Zenon, <3>1, <4>2, <4>4, <4>5, MovesTakes DEF Fifo!Next
      <4>6. CASE lost
        BY Zenon, <3>1, <4>4, <4>6, LostStutters
      <4> QED
        BY <4>5, <4>6
    <3>4. CASE AddLength
      <4>1. RingOK'
        BY <3>1, <3>4, AddRing
      <4>2. SInv'
        BY Zenon, <2>1, <3>1, <4>1 DEF SInv
      <4>3. CASE ~lost
        BY Zenon, <3>1, <3>4, <4>2, <4>3, AddPuts DEF Fifo!Next
      <4>4. CASE lost
        BY Zenon, <3>1, <4>2, <4>4, LostStutters
      <4> QED
        BY <4>3, <4>4
    <3>5. CASE WorkerAside
      <4>1. RingOK' /\ UNCHANGED <<data_length, read_index>>
        BY <3>1, <3>5, AsideRing
      <4>2. UNCHANGED <<Contents, lost>>
        BY Zenon, <3>1, <4>1 DEF Contents, Slot
      <4> QED
        BY Zenon, <2>1, <3>1, <4>1, <4>2 DEF SInv
    <3> QED
      BY Zenon, <2>4, <3>2, <3>3, <3>4, <3>5 DEF StreamOther, WorkerAside
  <2> QED
    BY <1>2, <2>2, <2>3, <2>4 DEF StreamNext
<1> QED
  BY <1>1, <1>2

(* net_buf_read copies out the bytes that net_buf_do_job copied in, in that  *)
(* order and each once, until a block is saved without room after a stop:    *)
(* the two threads update the ring under no common lock for the copies.      *)
THEOREM RingIsFifo == StreamSpec => ImplementsFifo
BY InitSInv, StreamSteps, PTL DEF StreamSpec, ImplementsFifo, Fifo!Spec
=============================================================================
