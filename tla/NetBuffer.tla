------------------------------ MODULE NetBuffer ------------------------------
(***************************************************************************)
(* The network buffer of netbuffer.c: the circular buffer between the      *)
(* worker thread "nbuf" (priority 22), which fetches blocks from a radio   *)
(* session, and the player thread "ply_bg" (priority 13), which reads      *)
(* them to feed the decoder.  The player side is the part of player_bg.c   *)
(* and mp3.c that decides when the buffer's operations are called.         *)
(*                                                                         *)
(* RT-Thread runs the ready thread of highest priority, so the worker      *)
(* takes a step only while the player is blocked, and the user interface   *)
(* (priority 25) only while both are; the player preempts the worker       *)
(* between any two of its steps.  A worker action is therefore one access  *)
(* to the shared fields, and a player action is all the code between two   *)
(* points where the player may block.                                      *)
(***************************************************************************)
EXTENDS Integers

CONSTANTS
  Size,       \* size of the buffer, in bytes             (net_buf_init's size)
  Block,      \* the most the worker fetches at once        (NETBUF_BLOCK_SIZE)
  MaxRead,    \* the most the decoder asks for at once      (MP3_AUDIO_BUF_SZ)
  MaxRequests \* length of the player's request queue

ready_wm  == (Size * 90) \div 100
(* Fault: the worker is resumed by any read. *)
resume_wmNone == Size + 1
resume_wm == (Size * 80) \div 100

(* 4096 and 5120 against 320 KB: a block always fits above either water mark. *)
ASSUME SizeAssumption ==
  /\ Size \in Nat /\ Block \in Nat \ {0} /\ MaxRead \in Nat \ {0}
  /\ MaxRequests \in Nat \ {0}
  /\ Block <= Size /\ MaxRead <= Size
  /\ Block + ready_wm <= Size + 1

VARIABLES
  stat,          \* _netbuf.stat
  data_length,   \* _netbuf.data_length
  read_index,    \* _netbuf.read_index
  save_index,    \* _netbuf.save_index
  is_wait_ready, \* _netbuf.is_wait_ready
  wait_ready,    \* value of the semaphore _netbuf.wait_ready
  wait_resume,   \* value of the semaphore _netbuf.wait_resume
  jobs,          \* number of jobs in _netbuf_mq
  is_playing,    \* player_bg.c: is_playing
  requests,      \* number of play requests in player_thread_mq
  sessions,      \* radio sessions opened and not yet closed
  ppc,           \* where the player thread is
  plen,          \* length of the net_buf_read the player is blocked in
  wpc,           \* where the worker thread is
  rlen,          \* net_buf_do_job's read_length
  seen           \* net_buf_do_job's local copy of data_length

player  == <<is_playing, requests, ppc, plen>>
worker  == <<wpc, rlen, seen>>
indices == <<data_length, read_index, save_index>>
sems    == <<wait_ready, wait_resume>>
vars    == <<stat, indices, is_wait_ready, sems, jobs, sessions, player, worker>>

Stats == {"STOPPED", "BUFFERING", "SUSPEND", "STOPPING"}

(* idle: blocked in rt_mq_recv unless a request is queued.  connect:         *)
(* blocked in the session's open.  start: before the decoder's first read.  *)
(* run: decoding.  wait: blocked on wait_ready.  audio: blocked in           *)
(* sbuf_alloc until the codec frees a block.                                 *)
PlayerAt == {"idle", "connect", "start", "run", "wait", "audio"}

(* The worker's next shared access (see the action of the same name). *)
WorkerAt == {"recv", "check", "loop", "fetch", "room", "suspend", "resume",
             "save", "add", "ready", "wake",
             "close", "stopped", "waiter", "wakestop", "reset"}

Lesser(a, b) == IF a <= b THEN a ELSE b

(* An index advanced by n <= Size round the buffer: both copies of           *)
(* net_buf_read and net_buf_do_job split the same way.                       *)
Advance(i, n) == IF Size - i > n THEN i + n ELSE n - (Size - i)

PlayerBlocked ==
  \/ ppc = "idle" /\ requests = 0
  \/ ppc = "wait" /\ wait_ready = 0
  \/ ppc \in {"connect", "audio"}

(* Blocked on the job queue, in the network (fetch, close) or suspended. *)
WorkerBlocked ==
  \/ wpc = "recv" /\ jobs = 0
  \/ wpc \in {"fetch", "close"}
  \/ wpc = "resume" /\ wait_resume = 0

-----------------------------------------------------------------------------
(* The user interface thread.                                               *)

UiRuns == PlayerBlocked /\ WorkerBlocked

(* player_radio_req: rt_mq_send fails on a full queue and is not checked.   *)
PlayReq ==
  /\ UiRuns
  /\ requests' = Lesser(requests + 1, MaxRequests)
  /\ UNCHANGED <<stat, indices, is_wait_ready, sems, jobs, sessions,
                 is_playing, ppc, plen, worker>>

(* player_stop_req. *)
StopReq ==
  /\ UiRuns
  /\ is_playing' = FALSE
  /\ UNCHANGED <<stat, indices, is_wait_ready, sems, jobs, sessions,
                 requests, ppc, plen, worker>>

-----------------------------------------------------------------------------
(* The player thread.                                                       *)

(* Fault: a suspended worker is told to stop but not resumed. *)
StopJobNoRelease ==
  /\ stat' = IF stat \in {"SUSPEND", "BUFFERING"} THEN "STOPPING" ELSE stat
  /\ UNCHANGED wait_resume

(* net_buf_stop_job: releases a suspended worker and asks it to stop.       *)
StopJob ==
  /\ stat' = IF stat \in {"SUSPEND", "BUFFERING"} THEN "STOPPING" ELSE stat
  /\ wait_resume' = IF stat = "SUSPEND" THEN wait_resume + 1 ELSE wait_resume

(* ice_mp3 returns: player_thread stops the job and waits for a request.    *)
Leave ==
  /\ StopJob
  /\ is_playing' = FALSE
  /\ ppc' = "idle"

(* player_thread dequeues an http:// or douban:// request and ice_mp3 opens  *)
(* the session, blocking in the network.                                     *)
Dequeue ==
  /\ ppc = "idle" /\ requests > 0
  /\ requests' = requests - 1
  /\ is_playing' = TRUE
  /\ ppc' = "connect"
  /\ UNCHANGED <<stat, indices, is_wait_ready, sems, jobs, sessions, plen, worker>>

ConnectFails ==
  /\ ppc = "connect"
  /\ Leave
  /\ UNCHANGED <<indices, is_wait_ready, wait_ready, jobs, sessions, requests,
                 plen, worker>>

(* The session is open; net_buf_start_job takes it when the worker is        *)
(* stopped, and otherwise ice_mp3 closes it again and returns.               *)
StartJob ==
  /\ ppc = "connect"
  /\ IF stat = "STOPPED"
     THEN /\ stat' = "BUFFERING"
          /\ jobs' = jobs + 1
          /\ sessions' = sessions + 1
          /\ ppc' = "start"
          /\ UNCHANGED <<wait_resume, is_playing>>
     ELSE /\ Leave
          /\ UNCHANGED <<jobs, sessions>>
  /\ UNCHANGED <<indices, is_wait_ready, wait_ready, requests, plen, worker>>

(* Fault: read_index advances by the length asked for, not by what was there. *)
TakeDataWhole(length) ==
  LET n == Lesser(length, data_length)
  IN  /\ data_length' = data_length - n
      /\ read_index' = IF n > 0 THEN Advance(read_index, length) ELSE read_index
      /\ UNCHANGED save_index
      /\ IF n = 0 THEN Leave
         ELSE /\ ppc' = "run"
              /\ UNCHANGED is_playing
              /\ IF stat = "SUSPEND" /\ data_length - n < resume_wm
                 THEN stat' = "BUFFERING" /\ wait_resume' = wait_resume + 1
                 ELSE UNCHANGED <<stat, wait_resume>>

(* Fault: the reader does not resume the worker. *)
TakeDataNoResume(length) ==
  LET n == Lesser(length, data_length)
  IN  /\ data_length' = data_length - n
      /\ read_index' = IF n > 0 THEN Advance(read_index, n) ELSE read_index
      /\ UNCHANGED save_index
      /\ IF n = 0 THEN Leave
         ELSE ppc' = "run" /\ UNCHANGED <<is_playing, stat, wait_resume>>

(* The part of net_buf_read from the copy on, for a request of length bytes. *)
(* Reading nothing ends mp3_decoder_run and with it the playing.             *)
TakeData(length) ==
  LET n == Lesser(length, data_length)
  IN  /\ data_length' = data_length - n
      /\ read_index' = IF n > 0 THEN Advance(read_index, n) ELSE read_index
      /\ UNCHANGED save_index
      /\ IF n = 0
         THEN Leave
         ELSE /\ ppc' = "run"
              /\ UNCHANGED is_playing
              /\ IF stat = "SUSPEND" /\ data_length - n < resume_wm
                 THEN /\ stat' = "BUFFERING"
                      /\ wait_resume' = wait_resume + 1
                 ELSE UNCHANGED <<stat, wait_resume>>

MustWait == data_length = 0 /\ stat \in {"BUFFERING", "SUSPEND"}

(* mp3_decoder_fill_buffer reads in the middle of mp3_decoder_run, which     *)
(* tests is_playing only when it begins.                                     *)
Reading == (ppc = "run") \/ (ppc = "start" /\ is_playing)

(* Fault: is_wait_ready is not set. *)
ReadWaitsSilently ==
  /\ Reading /\ MustWait
  /\ \E length \in 1..MaxRead : plen' = length
  /\ ppc' = "wait"
  /\ UNCHANGED <<stat, indices, is_wait_ready, sems, jobs, sessions, is_playing,
                 requests, worker>>

(* net_buf_read on an empty buffer that is being filled: blocks.            *)
ReadWaits ==
  /\ Reading /\ MustWait
  /\ \E length \in 1..MaxRead : plen' = length
  /\ is_wait_ready' = TRUE
  /\ ppc' = "wait"
  /\ UNCHANGED <<stat, indices, sems, jobs, sessions, is_playing, requests, worker>>

ReadTakes ==
  /\ Reading /\ ~MustWait
  /\ \E length \in 1..MaxRead : TakeData(length)
  /\ UNCHANGED <<is_wait_ready, wait_ready, jobs, sessions, requests, plen, worker>>

(* rt_sem_take(wait_ready) returns; the read goes on with what is there.    *)
ReadWoken ==
  /\ ppc = "wait" /\ wait_ready > 0
  /\ wait_ready' = wait_ready - 1
  /\ TakeData(plen)
  /\ plen' = 0
  /\ UNCHANGED <<is_wait_ready, jobs, sessions, requests, worker>>

(* mp3_decoder_run: sbuf_alloc finds the pool empty, and later the codec's   *)
(* DMA interrupt releases a block.                                           *)
AudioBlocks ==
  /\ ppc = "run" /\ ppc' = "audio"
  /\ UNCHANGED <<stat, indices, is_wait_ready, sems, jobs, sessions,
                 is_playing, requests, plen, worker>>

AudioReady ==
  /\ ppc = "audio" /\ ppc' = "run"
  /\ UNCHANGED <<stat, indices, is_wait_ready, sems, jobs, sessions,
                 is_playing, requests, plen, worker>>

(* mp3_decoder_run finds is_playing cleared; the decoder is deleted.        *)
StopPlaying ==
  /\ ppc \in {"start", "run"} /\ ~is_playing
  /\ Leave
  /\ UNCHANGED <<indices, is_wait_ready, wait_ready, jobs, sessions, requests,
                 plen, worker>>

-----------------------------------------------------------------------------
(* The worker thread; every action needs the processor.                     *)

At(here) == PlayerBlocked /\ wpc = here

Goto(there) == wpc' = there

(* net_buf_thread_entry: rt_mq_recv returns a job. *)
RecvJob ==
  /\ At("recv") /\ jobs > 0
  /\ jobs' = jobs - 1
  /\ Goto("check")
  /\ UNCHANGED <<stat, indices, is_wait_ready, sems, sessions, player, rlen, seen>>

(* A job found with the state already changed is dropped, session and all.  *)
CheckJob ==
  /\ At("check")
  /\ IF stat = "BUFFERING"
     THEN /\ data_length' = 0 /\ read_index' = 0 /\ save_index' = 0
          /\ Goto("loop")
     ELSE /\ UNCHANGED indices
          /\ Goto("recv")
  /\ UNCHANGED <<stat, is_wait_ready, sems, jobs, sessions, player, rlen, seen>>

LoopTop ==
  /\ At("loop")
  /\ Goto(IF stat = "STOPPING" THEN "close" ELSE "fetch")
  /\ UNCHANGED <<stat, indices, is_wait_ready, sems, jobs, sessions, player,
                 rlen, seen>>

(* job->fetch returns: a short block is possible, nothing means the end.    *)
Fetch ==
  /\ At("fetch")
  /\ \E n \in 0..Block :
       /\ rlen' = n
       /\ Goto(IF n = 0 THEN "close" ELSE "room")
  /\ UNCHANGED <<stat, indices, is_wait_ready, sems, jobs, sessions, player, seen>>

CheckRoom ==
  /\ At("room")
  /\ Goto(IF Size - data_length < rlen THEN "suspend" ELSE "save")
  /\ UNCHANGED <<stat, indices, is_wait_ready, sems, jobs, sessions, player,
                 rlen, seen>>

SuspendSelf ==
  /\ At("suspend")
  /\ stat' = "SUSPEND"
  /\ Goto("resume")
  /\ UNCHANGED <<indices, is_wait_ready, sems, jobs, sessions, player, rlen, seen>>

Resumed ==
  /\ At("resume") /\ wait_resume > 0
  /\ wait_resume' = wait_resume - 1
  /\ Goto("save")
  /\ UNCHANGED <<stat, indices, is_wait_ready, wait_ready, jobs, sessions,
                 player, rlen, seen>>

(* Copies the block and moves save_index; the room is not checked again.    *)
Save ==
  /\ At("save")
  /\ save_index' = Advance(save_index, rlen)
  /\ Goto("add")
  /\ UNCHANGED <<stat, data_length, read_index, is_wait_ready, sems, jobs,
                 sessions, player, rlen, seen>>

AddLength ==
  /\ At("add")
  /\ data_length' = data_length + rlen
  /\ seen' = data_length'
  /\ Goto("ready")
  /\ UNCHANGED <<stat, read_index, save_index, is_wait_ready, sems, jobs,
                 sessions, player, rlen>>

CheckReady ==
  /\ At("ready")
  /\ IF stat = "BUFFERING" /\ seen >= ready_wm /\ is_wait_ready
     THEN is_wait_ready' = FALSE /\ Goto("wake")
     ELSE UNCHANGED is_wait_ready /\ Goto("loop")
  /\ UNCHANGED <<stat, indices, sems, jobs, sessions, player, rlen, seen>>

WakeReader ==
  /\ At("wake")
  /\ wait_ready' = wait_ready + 1
  /\ Goto("loop")
  /\ UNCHANGED <<stat, indices, is_wait_ready, wait_resume, jobs, sessions,
                 player, rlen, seen>>

(* net_buf_do_stop, step by step. *)
CloseJob ==
  /\ At("close")
  /\ sessions' = sessions - 1
  /\ Goto("stopped")
  /\ UNCHANGED <<stat, indices, is_wait_ready, sems, jobs, player, rlen, seen>>

SetStopped ==
  /\ At("stopped")
  /\ stat' = "STOPPED"
  /\ Goto("waiter")
  /\ UNCHANGED <<indices, is_wait_ready, sems, jobs, sessions, player, rlen, seen>>

(* Fault: is_wait_ready is not cleared. *)
CheckWaiterKeeps ==
  /\ At("waiter")
  /\ Goto(IF is_wait_ready THEN "wakestop" ELSE "reset")
  /\ UNCHANGED <<stat, indices, is_wait_ready, sems, jobs, sessions, player,
                 rlen, seen>>

CheckWaiter ==
  /\ At("waiter")
  /\ is_wait_ready' = FALSE
  /\ Goto(IF is_wait_ready THEN "wakestop" ELSE "reset")
  /\ UNCHANGED <<stat, indices, sems, jobs, sessions, player, rlen, seen>>

WakeStopped ==
  /\ At("wakestop")
  /\ wait_ready' = wait_ready + 1
  /\ Goto("reset")
  /\ UNCHANGED <<stat, indices, is_wait_ready, wait_resume, jobs, sessions,
                 player, rlen, seen>>

(* Fault: read_index is not reset. *)
ResetBufferHalf ==
  /\ At("reset")
  /\ data_length' = 0 /\ save_index' = 0
  /\ Goto("recv")
  /\ UNCHANGED <<stat, read_index, is_wait_ready, sems, jobs, sessions, player,
                 rlen, seen>>

ResetBuffer ==
  /\ At("reset")
  /\ data_length' = 0 /\ read_index' = 0 /\ save_index' = 0
  /\ Goto("recv")
  /\ UNCHANGED <<stat, is_wait_ready, sems, jobs, sessions, player, rlen, seen>>

-----------------------------------------------------------------------------

Init ==
  /\ stat = "STOPPED"
  /\ data_length = 0 /\ read_index = 0 /\ save_index = 0
  /\ is_wait_ready = FALSE
  /\ wait_ready = 0 /\ wait_resume = 0
  /\ jobs = 0 /\ sessions = 0
  /\ is_playing = FALSE /\ requests = 0
  /\ ppc = "idle" /\ plen = 0
  /\ wpc = "recv" /\ rlen = 0 /\ seen = 0

UiStep == PlayReq \/ StopReq

PlayerStep ==
  \/ Dequeue \/ ConnectFails \/ StartJob
  \/ ReadWaits \/ ReadTakes \/ ReadWoken
  \/ AudioBlocks \/ AudioReady \/ StopPlaying

WorkerStep ==
  \/ RecvJob \/ CheckJob \/ LoopTop \/ Fetch \/ CheckRoom
  \/ SuspendSelf \/ Resumed \/ Save \/ AddLength \/ CheckReady \/ WakeReader
  \/ CloseJob \/ SetStopped \/ CheckWaiter \/ WakeStopped \/ ResetBuffer

Next == UiStep \/ PlayerStep \/ WorkerStep

Spec == Init /\ [][Next]_vars

(* The scheduler runs the player whenever it is ready, the network calls     *)
(* return (HTTP_RCV_TIMEO) and the codec's interrupt fires.  The worker gets *)
(* the processor again and again, because the player blocks on the codec     *)
(* for most of every frame, but not continuously: strong fairness.           *)
(* Decoding uses up what was read, so the decoder keeps reading.             *)
Fairness == WF_vars(PlayerStep) /\ SF_vars(ReadTakes) /\ SF_vars(WorkerStep)

-----------------------------------------------------------------------------
(* Properties.                                                              *)

TypeOK ==
  /\ stat \in Stats
  /\ data_length \in Nat
  /\ read_index \in Int /\ save_index \in Int
  /\ is_wait_ready \in BOOLEAN /\ is_playing \in BOOLEAN
  /\ wait_ready \in Nat /\ wait_resume \in Nat
  /\ jobs \in Nat /\ sessions \in Int
  /\ requests \in 0..MaxRequests
  /\ ppc \in PlayerAt /\ plen \in 0..MaxRead
  /\ wpc \in WorkerAt /\ rlen \in 0..Block /\ seen \in Nat

Count(p) == IF p THEN 1 ELSE 0

(* Every reader blocked in net_buf_read is owed exactly one wake-up, and no  *)
(* wake-up is left over for a later read: it is still announced in           *)
(* is_wait_ready, or the worker is about to release the semaphore, or the    *)
(* semaphore is released (net_buf_read 92-96 against net_buf_do_job 309-319  *)
(* and net_buf_do_stop 219-224).                                             *)
WakeOnce ==
  Count(ppc = "wait")
    = wait_ready + Count(is_wait_ready) + Count(wpc \in {"wake", "wakestop"})

(* A worker waiting for wait_resume can still be resumed: either nobody has  *)
(* yet (the state says SUSPEND, so the next reader below the water mark or   *)
(* the next stop will) or the semaphore is released, once; and no release    *)
(* is left over that would let a later suspension fall through.              *)
ResumeOnce ==
  /\ wpc = "resume" => wait_resume = Count(stat # "SUSPEND")
  /\ wpc # "resume" => wait_resume = 0 /\ stat # "SUSPEND"

(* "there are enough free space to fetch data" (netbuffer.c:281) although the *)
(* room is not checked again after a suspension: a resumed worker has room   *)
(* for its block because readers resume it only below the low water mark.    *)
(* A worker resumed by net_buf_stop_job saves without room: nobody reads.    *)
RoomToSave ==
  wpc \in {"save", "add"} /\ stat # "STOPPING" => data_length + rlen <= Size

(* The three fields that the reader and the worker update at different times *)
(* describe one region of the ring: save_index is data_length (and the block *)
(* being saved) past read_index, but for whole turns of the ring.            *)
IndicesAgree ==
  /\ read_index \in 0..Size-1 /\ save_index \in 0..Size-1
  /\ read_index + data_length + (IF wpc = "add" THEN rlen ELSE 0) - save_index
       \in {0, Size, 2 * Size}

(* The job queue holds at most one job, so the unchecked rt_mq_send of       *)
(* net_buf_start_job cannot fail and lose the session.                       *)
OneJob == jobs <= 1

(* A stop has been asked for while the worker is past its check of the       *)
(* state, in or after the fetch: SuspendSelf would overwrite it.             *)
StopDuringFetch == stat = "STOPPING" /\ wpc \in {"room", "suspend"}

(* The reader emptied the buffer after the worker found it too full.         *)
DrainedBeforeSuspend == data_length = 0 /\ wpc = "suspend"

(* As long as the reader does not empty a full buffer between two            *)
(* instructions of the worker, a blocked reader is woken.                    *)
ReaderServed ==
  []~DrainedBeforeSuspend => (ppc = "wait" ~> ppc # "wait")

(* As long as no stop is overwritten and the buffer not emptied that way, a  *)
(* suspended worker is resumed.                                              *)
SuspendEnds ==
  []~(StopDuringFetch \/ DrainedBeforeSuspend)
    => (stat = "SUSPEND" ~> stat # "SUSPEND")

(* What a comment of the code says, and the code does not do:                *)

(* "set stat to stopping" (netbuffer.c:198): a requested stop stays          *)
(* requested until the worker has stopped.                                   *)
StopNotForgotten == [][stat = "STOPPING" => stat' \in {"STOPPING", "STOPPED"}]_vars
=============================================================================
