------------------------------ MODULE Spi1Lock ------------------------------
(***************************************************************************)
(* The semaphore spi1_lock, for the bus that the audio codec, the serial   *)
(* flash and the touch controller share, under the scheduler of RT-Thread. *)
(*                                                                         *)
(* Threads take it around a transfer.  So do three callers that cannot     *)
(* wait: touch_timeout in the tick interrupt, codec_dma_isr, and           *)
(* codec_write with the interrupts disabled.  rt_sem_take then suspends    *)
(* the thread that happens to run, only requests the switch, and returns   *)
(* RT_EOK: the transfer goes on inside another, and the release that       *)
(* follows resumes the head of the list, whoever that is.                  *)
(*                                                                         *)
(* A thread is its priority: the lower number runs first.                  *)
(***************************************************************************)
EXTENDS Naturals, Sequences, FiniteSets

CONSTANTS
  Threads, \* priorities of the threads, no two alike
  Users,   \* the threads that use the bus
  Idle     \* the idle thread

ASSUME Spi1Assumption ==
  /\ Threads \subseteq Nat /\ IsFiniteSet(Threads)
  /\ Idle \in Threads /\ \A t \in Threads : t <= Idle
  /\ Users \subseteq Threads \ {Idle}

VARIABLES
  value,   \* spi1_lock.value
  list,    \* spi1_lock.parent.suspend_thread, the head first
  asleep,  \* threads suspended for another reason
  waiting, \* threads in the list that came by rt_sem_take
  using,   \* threads between rt_sem_take and rt_sem_release
  cur,     \* rt_current_thread
  shared,  \* history: a transfer was interrupted by one that could not wait
  fault    \* a node linked into the list while it is in a list

vars == <<value, list, asleep, waiting, using, cur, shared, fault>>

Listed(l) == {l[i] : i \in 1..Len(l)}
Suspended == asleep \cup Listed(list)
Ready == Threads \ Suspended

(* rt_schedule: the ready thread of highest priority.                       *)
Top(ready) ==
  IF ready = {} THEN Idle ELSE CHOOSE t \in ready : \A u \in ready : t <= u

(* A thread executes; between its suspension and rt_schedule it does not.   *)
Runs(t) == cur = t /\ t = Top(Ready) /\ t \in Ready /\ ~fault

-----------------------------------------------------------------------------
(* The semaphore.                                                           *)

(* Fault: taken even when it is not available.                              *)
TakenAlways(t) ==
  /\ using' = using \cup {t}
  /\ value' = 0
  /\ UNCHANGED <<list, waiting>>

Taken(t) ==
  /\ value > 0
  /\ using' = using \cup {t}
  /\ value' = value - 1
  /\ UNCHANGED <<list, waiting>>

(* rt_ipc_object_suspend, RT_IPC_FLAG_FIFO.                                 *)
Queued(t) ==
  /\ value = 0
  /\ list' = Append(list, t)
  /\ waiting' = waiting \cup {t}
  /\ UNCHANGED <<value, using>>

rt_sem_take(t) == Taken(t) \/ Queued(t)

(* rt_ipc_object_resume: a thread that waited in rt_sem_take has the        *)
(* semaphore now; any other goes on where it was.                           *)
Resume(l, users) ==
  /\ list' = Tail(l)
  /\ using' = users \cup ({Head(l)} \cap waiting)
  /\ waiting' = waiting \ {Head(l)}

(* Fault: the count goes up even when a thread is resumed.                  *)
rt_sem_releaseCounts(l, users) ==
  /\ IF l # <<>> THEN Resume(l, users)
     ELSE using' = users /\ UNCHANGED <<list, waiting>>
  /\ value' = value + 1

rt_sem_release(l, users) ==
  IF l # <<>> THEN Resume(l, users) /\ UNCHANGED value
  ELSE /\ value' = value + 1
       /\ using' = users
       /\ UNCHANGED <<list, waiting>>

-----------------------------------------------------------------------------
(* Threads: codec_send, sst25vfxx_read, sst25vfxx_page_write.               *)

Take(t) ==
  /\ Runs(t) /\ t \in Users \ using
  /\ rt_sem_take(t)
  /\ UNCHANGED <<asleep, cur, shared, fault>>

(* The bus is free again only when nobody is left on it or in the list.     *)
Release(t) ==
  /\ Runs(t) /\ t \in using
  /\ rt_sem_release(list, using \ {t})
  /\ shared' = (shared /\ using' # {})
  /\ UNCHANGED <<asleep, cur, fault>>

(* Fault: a thread may wait for something else with the bus in its hands.   *)
SuspendAnywhere(t) ==
  /\ Runs(t) /\ t # Idle
  /\ asleep' = asleep \cup {t}
  /\ UNCHANGED <<value, list, waiting, using, cur, shared, fault>>

(* Any other wait, outside a transfer.                                      *)
Suspend(t) ==
  /\ Runs(t) /\ t # Idle /\ t \notin using
  /\ asleep' = asleep \cup {t}
  /\ UNCHANGED <<value, list, waiting, using, cur, shared, fault>>

rt_schedule ==
  /\ cur # Top(Ready) /\ ~fault
  /\ cur' = Top(Ready)
  /\ UNCHANGED <<value, list, asleep, waiting, using, shared, fault>>

-----------------------------------------------------------------------------
(* Interrupts; each schedules before it ends.                               *)

rt_thread_timeout(t) ==
  /\ t \in asleep /\ ~fault
  /\ asleep' = asleep \ {t}
  /\ cur' = Top(Ready \cup {t})
  /\ UNCHANGED <<value, list, waiting, using, shared, fault>>

(* A transfer by touch_timeout, codec_dma_isr or codec_write when the       *)
(* semaphore is not available (when it is, nothing remains of it): the      *)
(* running thread goes to the end of the list, and one comes out.           *)
SendNow ==
  /\ value = 0 /\ ~fault /\ cur \in Ready
  /\ rt_sem_release(Append(list, cur), using)
  /\ shared' = TRUE
  /\ cur' = Top(Threads \ (asleep \cup Listed(list')))
  /\ UNCHANGED <<asleep, fault>>

(* The same after a thread was suspended and before rt_schedule: its node   *)
(* is linked a second time.                                                 *)
SendNowRelinks ==
  /\ value = 0 /\ ~fault /\ cur \notin Ready
  /\ fault' = TRUE
  /\ UNCHANGED <<value, list, asleep, waiting, using, cur, shared>>

-----------------------------------------------------------------------------

Init ==
  /\ value = 1 /\ list = <<>>
  /\ asleep = {} /\ waiting = {} /\ using = {}
  /\ cur = Top(Threads)
  /\ shared = FALSE /\ fault = FALSE

Thread(t) == Take(t) \/ Release(t) \/ Suspend(t)

Next ==
  \/ \E t \in Threads : Thread(t) \/ rt_thread_timeout(t)
  \/ rt_schedule \/ SendNow \/ SendNowRelinks

Spec == Init /\ [][Next]_vars

-----------------------------------------------------------------------------
(* Properties.                                                              *)

(* The values of the variables; a binary semaphore stays binary whatever    *)
(* the interrupts do to it, and no thread is in its list twice.             *)
TypeOK ==
  /\ value \in {0, 1}
  /\ list \in Seq(Threads)
  /\ \A i, j \in 1..Len(list) : list[i] = list[j] => i = j
  /\ asleep \subseteq Threads \ Listed(list)
  /\ waiting \subseteq Listed(list) \cap Users /\ using \subseteq Users \ waiting
  /\ cur \in Threads
  /\ shared \in BOOLEAN /\ fault \in BOOLEAN

(* Threads in the list that never asked for the semaphore.                  *)
Pushed == Listed(list) \ waiting

(* A unit of the semaphore is never lost nor made: it is in value, with a   *)
(* user, or owed to a thread that an interrupt pushed into the list.        *)
ValueAgrees == value + Cardinality(using) = 1 + Cardinality(Pushed)

(* Whatever threads the interrupts push into the list, the users of the bus *)
(* among them: someone who will release the semaphore can run.              *)
NeverAllWait == list # <<>> /\ ~fault => using \cap Ready # {}
=============================================================================
