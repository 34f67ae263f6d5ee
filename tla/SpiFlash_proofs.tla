---------------------------- MODULE SpiFlash_proofs ----------------------------
(***************************************************************************)
(* Proofs about Spi1Lock, for any threads and any users among them, and    *)
(* about SpiFlash, for any geometry of the flash and any commands.         *)
(***************************************************************************)
EXTENDS SpiFlash, FiniteSetTheorems, WellFoundedInduction, TLAPS

-----------------------------------------------------------------------------
(* The lock: Spi1Lock.                                                      *)

(* A value above 0 would let a thread pass those in the list; a user that   *)
(* sleeps would keep the bus.                                               *)
NobodyPassed == list # <<>> => value = 0
UsersAwake == using \cap asleep = {}

(* ValueAgrees alone is not inductive: to resume someone from a list one    *)
(* must know that the value stays 0, and that no node is linked twice.      *)
IInv == TypeOK /\ ValueAgrees /\ NobodyPassed /\ UsersAwake

-----------------------------------------------------------------------------
(* Threads and lists.                                                       *)

LEMMA Least ==
  ASSUME NEW S \in SUBSET Nat, S # {}
  PROVE  \E x \in S : \A y \in S : x <= y
<1> DEFINE R == {ss \in Nat \X Nat : ss[1] < ss[2]}
<1>1. IsWellFoundedOn(R, Nat)
  BY NatLessThanWellFounded DEF OpToRel
<1>2. PICK x \in S : \A y \in S : ~ (<<y, x>> \in R)
  BY <1>1, WFMin
<1>3. \A y \in S : ~ (y < x)
  BY <1>2
<1> QED
  BY <1>3

LEMMA TopIsThread ==
  ASSUME NEW ready \in SUBSET Threads
  PROVE  Top(ready) \in Threads
<1>1. CASE ready = {}
  BY <1>1, Spi1Assumption DEF Top
<1>2. CASE ready # {}
  <2>1. \E t \in ready : \A u \in ready : t <= u
    BY <1>2, Least, Spi1Assumption
  <2>2. Top(ready) = CHOOSE t \in ready : \A u \in ready : t <= u
    BY <1>2 DEF Top
  <2> QED
    BY <2>1, <2>2
<1> QED
  BY <1>1, <1>2

LEMMA FiniteThreads ==
  ASSUME NEW S \in SUBSET Threads
  PROVE  IsFiniteSet(S) /\ Cardinality(S) \in Nat
  BY FS_Subset, FS_CardinalityType, Spi1Assumption

Distinct(l) == \A i, j \in 1..Len(l) : l[i] = l[j] => i = j

LEMMA ListedAppend ==
  ASSUME NEW l \in Seq(Threads), NEW t \in Threads
  PROVE  /\ Append(l, t) \in Seq(Threads) /\ Append(l, t) # <<>>
         /\ Listed(Append(l, t)) = Listed(l) \cup {t}
         /\ Distinct(l) /\ t \notin Listed(l) => Distinct(Append(l, t))
<1>1. /\ Append(l, t) \in Seq(Threads) /\ Len(Append(l, t)) = Len(l) + 1
      /\ \A i \in 1..Len(l) : Append(l, t)[i] = l[i]
      /\ Append(l, t)[Len(l) + 1] = t
  OBVIOUS
<1>2. Append(l, t) # <<>>
  BY <1>1
<1>3. Listed(Append(l, t)) = Listed(l) \cup {t}
  BY <1>1 DEF Listed
<1>4. ASSUME Distinct(l), t \notin Listed(l) PROVE Distinct(Append(l, t))
  BY <1>1, <1>4 DEF Distinct, Listed
<1> QED
  BY <1>1, <1>2, <1>3, <1>4

LEMMA ListedTail ==
  ASSUME NEW l \in Seq(Threads), l # <<>>, Distinct(l)
  PROVE  /\ Tail(l) \in Seq(Threads) /\ Head(l) \in Listed(l)
         /\ Listed(Tail(l)) = Listed(l) \ {Head(l)}
         /\ Distinct(Tail(l))
<1>1. /\ Tail(l) \in Seq(Threads) /\ Len(Tail(l)) = Len(l) - 1 /\ Len(l) \in Nat \ {0}
      /\ \A i \in 1..Len(l)-1 : Tail(l)[i] = l[i + 1]
      /\ Head(l) = l[1]
  OBVIOUS
<1>2. Head(l) \in Listed(l)
  BY <1>1 DEF Listed
<1>3. Listed(Tail(l)) \subseteq Listed(l) \ {Head(l)}
  BY <1>1 DEF Listed, Distinct
<1>4. ASSUME NEW t \in Listed(l) \ {Head(l)} PROVE t \in Listed(Tail(l))
  <2>1. PICK i \in 1..Len(l) : t = l[i]
    BY DEF Listed
  <2>2. i # 1
    BY <2>1, <1>1
  <2>3. i - 1 \in 1..Len(Tail(l)) /\ t = Tail(l)[i - 1]
    BY <2>1, <2>2, <1>1
  <2> QED
    BY <2>3 DEF Listed
<1>5. Distinct(Tail(l))
  BY <1>1 DEF Distinct
<1> QED
  BY <1>1, <1>2, <1>3, <1>4, <1>5

-----------------------------------------------------------------------------
(* rt_sem_release, by a thread or by an interrupt that has just put the     *)
(* running thread at the end of the list.                                   *)
LEMMA Releases ==
  ASSUME TypeOK, NEW l \in Seq(Threads), NEW users \in SUBSET (Users \ waiting),
         Distinct(l), waiting \subseteq Listed(l), asleep \cap Listed(l) = {},
         users \cap asleep = {}, l # <<>> => value = 0, l = <<>> => list = <<>>,
         value + Cardinality(users) = Cardinality(Listed(l) \ waiting),
         rt_sem_release(l, users), UNCHANGED asleep
  PROVE  /\ value' \in {0, 1}
         /\ list' \in Seq(Threads) /\ Distinct(list') /\ Listed(list') \subseteq Listed(l)
         /\ waiting' \subseteq Listed(list') \cap Users
         /\ using' \subseteq Users \ waiting'
         /\ ValueAgrees' /\ NobodyPassed' /\ UsersAwake'
<1> USE DEF Distinct
<1>1. users \in SUBSET Threads /\ Listed(l) \in SUBSET Threads
  BY Spi1Assumption DEF Listed
<1>2. /\ IsFiniteSet(users) /\ Cardinality(users) \in Nat
      /\ IsFiniteSet(Listed(l) \ waiting) /\ Cardinality(Listed(l) \ waiting) \in Nat
  BY <1>1, FiniteThreads
<1>3. CASE l = <<>>
  <2>1. Listed(l) = {} /\ waiting = {} /\ Listed(list) = {}
    BY <1>3 DEF Listed
  <2>2. value = 0 /\ Cardinality(users) = 0
    BY <1>2, <2>1, FS_EmptySet DEF TypeOK
  <2>3. value' = 1 /\ using' = users /\ list' = <<>> /\ waiting' = {}
    BY <1>3, <2>1, <2>2 DEF rt_sem_release
  <2>4. Pushed' = {}
    BY <2>3 DEF Pushed, Listed
  <2>5. ValueAgrees'
    BY <2>2, <2>3, <2>4, FS_EmptySet DEF ValueAgrees
  <2> QED
    BY <2>1, <2>3, <2>5, <1>3 DEF NobodyPassed, UsersAwake
<1>4. CASE l # <<>>
  <2> DEFINE h == Head(l)
  <2>1. /\ Tail(l) \in Seq(Threads) /\ h \in Listed(l)
        /\ Listed(Tail(l)) = Listed(l) \ {h} /\ Distinct(Tail(l))
    BY <1>4, ListedTail
  <2>2. /\ list' = Tail(l) /\ using' = users \cup ({h} \cap waiting)
        /\ waiting' = waiting \ {h} /\ value' = 0 /\ value = 0
    BY <1>4 DEF rt_sem_release, Resume
  <2>3. waiting' \subseteq Listed(list') \cap Users /\ using' \subseteq Users \ waiting'
    BY <2>1, <2>2 DEF TypeOK
  <2>4. UsersAwake'
    BY <2>1, <2>2 DEF UsersAwake
  <2>5. ValueAgrees'
    <3>1. CASE h \in waiting
      <4>1. using' = users \cup {h} /\ h \notin users
        BY <3>1, <2>2
      <4>2. Cardinality(using') = Cardinality(users) + 1
        BY <4>1, <1>2, FS_AddElement
      <4>3. Pushed' = Listed(l) \ waiting
        BY <3>1, <2>1, <2>2 DEF Pushed
      <4> QED
        BY <4>2, <4>3, <2>2, <1>2 DEF ValueAgrees
    <3>2. CASE h \notin waiting
      <4>1. using' = users
        BY <3>2, <2>2
      <4>2. Pushed' = (Listed(l) \ waiting) \ {h} /\ h \in Listed(l) \ waiting
        BY <3>2, <2>1, <2>2 DEF Pushed
      <4>3. Cardinality(Pushed') = Cardinality(Listed(l) \ waiting) - 1
        BY <4>2, <1>2, FS_RemoveElement
      <4> QED
        BY <4>1, <4>3, <2>2, <1>2 DEF ValueAgrees
    <3> QED
      BY <3>1, <3>2
  <2> QED
    BY <2>1, <2>2, <2>3, <2>4, <2>5 DEF NobodyPassed
<1> QED
  BY <1>3, <1>4

-----------------------------------------------------------------------------

LEMMA InitIInv == Init => IInv
<1> SUFFICES ASSUME Init PROVE IInv
  OBVIOUS
<1>1. Listed(list) = {} /\ Pushed = {}
  BY DEF Init, Listed, Pushed
<1>2. cur \in Threads
  BY TopIsThread DEF Init
<1>3. TypeOK
  <2>1. shared \in BOOLEAN /\ fault \in BOOLEAN
    BY Zenon DEF Init
  <2>2. list \in Seq(Threads) /\ Len(list) = 0
    BY DEF Init
  <2>3. \A i, j \in 1..Len(list) : list[i] = list[j] => i = j
    BY <2>2
  <2>4. value = 1 /\ asleep = {} /\ waiting = {} /\ using = {}
    BY DEF Init
  <2> QED
    BY <1>1, <1>2, <2>1, <2>2, <2>3, <2>4 DEF TypeOK
<1>4. ValueAgrees
  BY <1>1, FS_EmptySet DEF Init, ValueAgrees
<1> QED
  BY <1>3, <1>4 DEF Init, IInv, NobodyPassed, UsersAwake

LEMMA Running ==
  ASSUME NEW t \in Threads, Runs(t)
  PROVE  cur = t /\ t \notin asleep /\ t \notin Listed(list) /\ ~fault
  BY DEF Runs, Ready, Suspended

LEMMA TakeIInv ==
  ASSUME IInv, NEW t \in Threads, Take(t)
  PROVE  IInv'
<1>1. /\ t \in Users \ using /\ UNCHANGED <<asleep, cur, shared, fault>>
      /\ t \notin asleep /\ t \notin Listed(list)
  BY Running DEF Take
<1>2. using \in SUBSET Threads /\ IsFiniteSet(using) /\ Cardinality(using) \in Nat
  BY FiniteThreads, Spi1Assumption DEF IInv, TypeOK
<1>3. Pushed \in SUBSET Threads /\ Cardinality(Pushed) \in Nat
  BY FiniteThreads DEF IInv, TypeOK, Pushed, Listed
<1>4. CASE Taken(t)
  <2>1. value = 1 /\ value' = 0 /\ using' = using \cup {t} /\ UNCHANGED <<list, waiting>>
    BY <1>4 DEF Taken, IInv, TypeOK
  <2>2. Listed(list') = Listed(list) /\ Pushed' = Pushed
    BY <2>1 DEF Listed, Pushed
  <2>3. t \notin waiting
    BY <1>1 DEF IInv, TypeOK
  <2>4. TypeOK'
    BY <1>1, <2>1, <2>2, <2>3 DEF IInv, TypeOK
  <2>5. Cardinality(using') = Cardinality(using) + 1
    BY <1>1, <1>2, <2>1, FS_AddElement
  <2>6. ValueAgrees'
    BY <2>1, <2>2, <2>5, <1>2, <1>3 DEF IInv, ValueAgrees
  <2> QED
    BY <1>1, <2>1, <2>4, <2>6 DEF IInv, NobodyPassed, UsersAwake
<1>5. CASE Queued(t)
  <2>1. /\ value = 0 /\ list' = Append(list, t) /\ waiting' = waiting \cup {t}
        /\ UNCHANGED <<value, using>>
    BY <1>5 DEF Queued
  <2>2. /\ list' \in Seq(Threads) /\ Listed(list') = Listed(list) \cup {t}
        /\ Distinct(list')
    BY <1>1, <2>1, ListedAppend DEF IInv, TypeOK, Distinct
  <2>3. TypeOK'
    BY <1>1, <2>1, <2>2 DEF IInv, TypeOK, Distinct
  <2>4. Pushed' = Pushed
    BY <1>1, <2>1, <2>2 DEF Pushed
  <2> QED
    BY <1>1, <2>1, <2>3, <2>4 DEF IInv, ValueAgrees, NobodyPassed, UsersAwake
<1> QED
  BY <1>4, <1>5 DEF Take, rt_sem_take

LEMMA ReleaseIInv ==
  ASSUME IInv, NEW t \in Threads, Release(t)
  PROVE  IInv'
<1>1. /\ t \in using /\ rt_sem_release(list, using \ {t})
      /\ UNCHANGED <<asleep, cur, fault>> /\ shared' = (shared /\ using' # {})
  BY DEF Release
<1>2. using \in SUBSET Threads /\ IsFiniteSet(using) /\ Cardinality(using) \in Nat
  BY FiniteThreads, Spi1Assumption DEF IInv, TypeOK
<1>3. Cardinality(using \ {t}) = Cardinality(using) - 1
  BY <1>1, <1>2, FS_RemoveElement
<1>4. Pushed \in SUBSET Threads /\ Cardinality(Pushed) \in Nat
  BY FiniteThreads DEF IInv, TypeOK, Pushed, Listed
<1>5. value + Cardinality(using \ {t}) = Cardinality(Listed(list) \ waiting)
  BY <1>2, <1>3, <1>4 DEF IInv, TypeOK, ValueAgrees, Pushed
<1>6. /\ list \in Seq(Threads) /\ Distinct(list) /\ waiting \subseteq Listed(list)
      /\ asleep \cap Listed(list) = {} /\ (using \ {t}) \cap asleep = {}
      /\ using \ {t} \in SUBSET (Users \ waiting) /\ (list # <<>> => value = 0)
  BY DEF IInv, TypeOK, Distinct, NobodyPassed, UsersAwake
<1>7. /\ value' \in {0, 1}
      /\ list' \in Seq(Threads) /\ Distinct(list') /\ Listed(list') \subseteq Listed(list)
      /\ waiting' \subseteq Listed(list') \cap Users /\ using' \subseteq Users \ waiting'
      /\ ValueAgrees' /\ NobodyPassed' /\ UsersAwake'
  BY <1>1, <1>5, <1>6, Releases DEF IInv
<1>8. shared' \in BOOLEAN /\ fault' \in BOOLEAN
  BY <1>1 DEF IInv, TypeOK
<1>9. TypeOK'
  BY <1>1, <1>7, <1>8 DEF IInv, TypeOK, Distinct
<1> QED
  BY <1>7, <1>9 DEF IInv

LEMMA SendNowIInv ==
  ASSUME IInv, SendNow
  PROVE  IInv'
<1> DEFINE l == Append(list, cur)
<1>1. /\ value = 0 /\ rt_sem_release(l, using) /\ shared' = TRUE
      /\ UNCHANGED <<asleep, fault>> /\ cur' = Top(Threads \ (asleep \cup Listed(list')))
  BY DEF SendNow
<1>2. cur \in Threads /\ cur \notin asleep /\ cur \notin Listed(list)
  BY DEF SendNow, Ready, Suspended
<1>3. /\ l \in Seq(Threads) /\ l # <<>> /\ Listed(l) = Listed(list) \cup {cur}
      /\ Distinct(l)
  BY <1>2, ListedAppend DEF IInv, TypeOK, Distinct
<1>4. using \in SUBSET Threads /\ IsFiniteSet(using) /\ Cardinality(using) \in Nat
  BY FiniteThreads, Spi1Assumption DEF IInv, TypeOK
<1>5. Pushed \in SUBSET Threads /\ IsFiniteSet(Pushed) /\ Cardinality(Pushed) \in Nat
  BY FiniteThreads DEF IInv, TypeOK, Pushed, Listed
<1>6. Listed(l) \ waiting = Pushed \cup {cur} /\ cur \notin Pushed
  BY <1>2, <1>3 DEF IInv, TypeOK, Pushed
<1>7. Cardinality(Listed(l) \ waiting) = Cardinality(Pushed) + 1
  BY <1>5, <1>6, FS_AddElement
<1>8. value + Cardinality(using) = Cardinality(Listed(l) \ waiting)
  BY <1>1, <1>4, <1>5, <1>7 DEF IInv, ValueAgrees
<1>9. /\ waiting \subseteq Listed(l) /\ asleep \cap Listed(l) = {}
      /\ using \cap asleep = {} /\ using \in SUBSET (Users \ waiting)
  BY <1>2, <1>3 DEF IInv, TypeOK, UsersAwake
<1>10. /\ value' \in {0, 1}
       /\ list' \in Seq(Threads) /\ Distinct(list') /\ Listed(list') \subseteq Listed(l)
       /\ waiting' \subseteq Listed(list') \cap Users /\ using' \subseteq Users \ waiting'
       /\ ValueAgrees' /\ NobodyPassed' /\ UsersAwake'
  <2> HIDE DEF l
  <2> QED
    BY <1>1, <1>3, <1>8, <1>9, Releases DEF IInv
<1>11. cur' \in Threads
  BY <1>1, TopIsThread
<1>12. shared' \in BOOLEAN /\ fault' \in BOOLEAN
  BY <1>1 DEF IInv, TypeOK
<1>13. asleep' \subseteq Threads \ Listed(list')
  BY <1>1, <1>9, <1>10 DEF IInv, TypeOK
<1>14. TypeOK'
  BY <1>10, <1>11, <1>12, <1>13 DEF TypeOK, Distinct
<1> QED
  BY <1>10, <1>14 DEF IInv

(* Nothing is done with the semaphore.                                      *)
LEMMA OthersIInv ==
  ASSUME IInv, UNCHANGED <<value, list, waiting, using, shared>>,
         asleep' \subseteq Threads \ Listed(list), using \cap asleep' = {},
         cur' \in Threads, fault' \in BOOLEAN
  PROVE  IInv'
<1>1. Listed(list') = Listed(list) /\ Pushed' = Pushed
  BY DEF Listed, Pushed
<1>2. shared' \in BOOLEAN
  BY DEF IInv, TypeOK
<1>3. TypeOK'
  BY <1>1, <1>2 DEF IInv, TypeOK
<1> QED
  BY <1>1, <1>3 DEF IInv, ValueAgrees, NobodyPassed, UsersAwake

LEMMA NextIInv ==
  ASSUME IInv, [Next]_vars
  PROVE  IInv'
<1>1. ASSUME NEW t \in Threads, Thread(t) PROVE IInv'
  <2>1. CASE Take(t)
    BY <2>1, TakeIInv
  <2>2. CASE Release(t)
    BY <2>2, ReleaseIInv
  <2>3. CASE Suspend(t)
    <3>1. /\ t \notin using /\ t \notin Listed(list) /\ asleep' = asleep \cup {t}
          /\ UNCHANGED <<value, list, waiting, using, cur, shared, fault>>
      BY <2>3, Running DEF Suspend
    <3>2. cur' \in Threads /\ fault' \in BOOLEAN
      BY <3>1 DEF IInv, TypeOK
    <3>3. asleep' \subseteq Threads \ Listed(list) /\ using \cap asleep' = {}
      BY <3>1 DEF IInv, TypeOK, UsersAwake
    <3> QED
      BY <3>1, <3>2, <3>3, OthersIInv
  <2> QED
    BY <1>1, <2>1, <2>2, <2>3 DEF Thread
<1>2. ASSUME NEW t \in Threads, rt_thread_timeout(t) PROVE IInv'
  <2>1. /\ asleep' = asleep \ {t} /\ cur' = Top(Ready \cup {t})
        /\ UNCHANGED <<value, list, waiting, using, shared, fault>>
    BY <1>2 DEF rt_thread_timeout
  <2>2. cur' \in Threads
    BY <2>1, TopIsThread DEF Ready
  <2>3. fault' \in BOOLEAN
    BY <2>1 DEF IInv, TypeOK
  <2>4. asleep' \subseteq Threads \ Listed(list) /\ using \cap asleep' = {}
    BY <2>1 DEF IInv, TypeOK, UsersAwake
  <2> QED
    BY <2>1, <2>2, <2>3, <2>4, OthersIInv
<1>3. CASE rt_schedule
  <2>1. cur' = Top(Ready) /\ UNCHANGED <<value, list, asleep, waiting, using, shared, fault>>
    BY <1>3 DEF rt_schedule
  <2>2. cur' \in Threads
    BY <2>1, TopIsThread DEF Ready
  <2>3. fault' \in BOOLEAN
    BY <2>1 DEF IInv, TypeOK
  <2>4. asleep' \subseteq Threads \ Listed(list) /\ using \cap asleep' = {}
    BY <2>1 DEF IInv, TypeOK, UsersAwake
  <2> QED
    BY <2>1, <2>2, <2>3, <2>4, OthersIInv
<1>4. CASE SendNow
  BY <1>4, SendNowIInv
<1>5. CASE SendNowRelinks
  <2>1. fault' = TRUE /\ UNCHANGED <<value, list, asleep, waiting, using, cur, shared>>
    BY <1>5 DEF SendNowRelinks
  <2>2. cur' \in Threads /\ fault' \in BOOLEAN
    BY <2>1 DEF IInv, TypeOK
  <2>3. asleep' \subseteq Threads \ Listed(list) /\ using \cap asleep' = {}
    BY <2>1 DEF IInv, TypeOK, UsersAwake
  <2> QED
    BY <2>1, <2>2, <2>3, OthersIInv
<1>6. CASE UNCHANGED vars
  <2>1. cur' \in Threads /\ fault' \in BOOLEAN
    BY <1>6 DEF vars, IInv, TypeOK
  <2>2. asleep' \subseteq Threads \ Listed(list) /\ using \cap asleep' = {}
    BY <1>6 DEF vars, IInv, TypeOK, UsersAwake
  <2> QED
    BY <1>6, <2>1, <2>2, OthersIInv DEF vars
<1> QED
  BY <1>1, <1>2, <1>3, <1>4, <1>5, <1>6 DEF Next

LEMMA Invariance == Spec => []IInv
  BY InitIInv, NextIInv, PTL DEF Spec

(* The semaphore stays binary and no thread is in its list twice, whatever  *)
(* the interrupts do to it and however many threads use it (ipc.c:304,405). *)
THEOREM TypeCorrect == Spec => []TypeOK
<1>1. IInv => TypeOK
  BY DEF IInv
<1> QED
  BY <1>1, Invariance, PTL

(* No unit of spi1_lock is lost or made by a transfer that takes it inside  *)
(* that of a thread (touch.c:63, codec.c:214).                              *)
THEOREM UnitsConserved == Spec => []ValueAgrees
<1>1. IInv => ValueAgrees
  BY DEF IInv
<1> QED
  BY <1>1, Invariance, PTL

(* There are more users than threads in the list that never asked, and who  *)
(* uses is awake or was pushed.                                             *)
LEMMA NeverStuck == IInv => NeverAllWait
<1>1. ASSUME IInv, list # <<>>, using \cap Ready = {} PROVE FALSE
  <2>1. using \in SUBSET Threads /\ Pushed \in SUBSET Threads
    BY <1>1, Spi1Assumption DEF IInv, TypeOK, Pushed, Listed
  <2>2. /\ Cardinality(using) \in Nat
        /\ IsFiniteSet(Pushed) /\ Cardinality(Pushed) \in Nat
    BY <2>1, FiniteThreads
  <2>3. using \subseteq Pushed
    BY <1>1, <2>1 DEF IInv, TypeOK, UsersAwake, Ready, Suspended, Pushed
  <2>4. Cardinality(using) <= Cardinality(Pushed)
    BY <2>2, <2>3, FS_Subset
  <2>5. value = 0 /\ Cardinality(using) = 1 + Cardinality(Pushed)
    BY <1>1, <2>2 DEF IInv, NobodyPassed, ValueAgrees
  <2> QED
    BY <2>2, <2>4, <2>5
<1> QED
  BY <1>1 DEF NeverAllWait

(* Whoever was pushed into the list, someone who will release the semaphore *)
(* can run: there are more users than threads in the list that never asked. *)
THEOREM SomeUserCanRun == Spec => []NeverAllWait
BY NeverStuck, Invariance, PTL

-----------------------------------------------------------------------------
(* The address counter of the flash: SpiFlash.                              *)

LEMMA Division ==
  ASSUME NEW n \in Nat
  PROVE  /\ n \div W \in Nat /\ n % W \in 0..W-1
         /\ n - W * (n \div W) = n % W
  BY SpiFlashAssumption

LEMMA Quotient ==
  ASSUME NEW n \in Nat, NEW q \in Nat, NEW r \in 0..W-1, n - W * q = r
  PROVE  n \div W = q /\ n % W = r
  BY SpiFlashAssumption

(* The counter at the next word, and after the last.                        *)
LEMMA NextWord ==
  ASSUME NEW n \in Nat
  PROVE  \/ /\ (n % W) + 1 < W
            /\ (n + 1) \div W = n \div W /\ (n + 1) % W = (n % W) + 1
         \/ /\ (n % W) + 1 = W
            /\ (n + 1) \div W = n \div W + 1 /\ (n + 1) % W = 0
<1>1. n \div W \in Nat /\ n % W \in 0..W-1 /\ n - W * (n \div W) = n % W
  BY Division
<1>2. W \in Nat \ {0}
  BY SpiFlashAssumption
<1> DEFINE q == n \div W
           r == n % W
<1> HIDE DEF q, r
<1>3. q \in Nat /\ r \in 0..W-1 /\ n - W * q = r
  BY <1>1 DEF q, r
<1>4. CASE r + 1 < W
  <2>1. r + 1 \in 0..W-1 /\ (n + 1) - W * q = r + 1 /\ n + 1 \in Nat
    BY <1>2, <1>3, <1>4
  <2> QED
    BY <2>1, <1>3, <1>4, Quotient DEF q, r
<1>5. CASE r + 1 = W
  <2>1. W * (q + 1) = W * q + W
    BY <1>2, <1>3
  <2>2. 0 \in 0..W-1 /\ (n + 1) - W * (q + 1) = 0 /\ n + 1 \in Nat /\ q + 1 \in Nat
    BY <1>2, <1>3, <1>5, <2>1
  <2> QED
    BY <2>2, <1>5, Quotient DEF q, r
<1> QED
  BY <1>2, <1>3, <1>4, <1>5

LEMMA Within ==
  ASSUME NEW n \in Nat, NEW size \in Nat, n < size * W
  PROVE  n \div W < size
<1>1. n \div W \in Nat /\ n % W \in 0..W-1 /\ n - W * (n \div W) = n % W
  BY Division
<1>2. W \in Nat \ {0}
  BY SpiFlashAssumption
<1> DEFINE q == n \div W
<1> HIDE DEF q
<1>3. q \in Nat /\ n - W * q >= 0
  BY <1>1, <1>2 DEF q
<1>4. ASSUME q >= size PROVE FALSE
  <2>1. W * (q - size) >= 0 /\ W * (q - size) = W * q - size * W
    BY <1>2, <1>3, <1>4
  <2> QED
    BY <2>1, <1>2, <1>3
<1> QED
  BY <1>3, <1>4 DEF q

LEMMA Whole ==
  ASSUME NEW size \in Nat
  PROVE  (size * W) \div W = size /\ (size * W) % W = 0
<1>1. W \in Nat \ {0}
  BY SpiFlashAssumption
<1>2. size * W \in Nat /\ 0 \in 0..W-1 /\ (size * W) - W * size = 0
  BY <1>1
<1> QED
  BY <1>2, Quotient
-----------------------------------------------------------------------------
(* The state of the driver.                                                 *)

Op == [pc : {"none", "read", "erase", "program", "done"}, page : Sector,
       size : 1..MaxSize, data : Data \cup {Unknown}, at : Nat,
       seen : SUBSET SUBSET Data, good : SUBSET Sector]

(* A command fits the chip; its counter says how far it is.                 *)
OpOK(o) ==
  /\ o \in Op
  /\ o.page + o.size <= Sectors
  /\ o.pc \in {"none", "read"} => o.data = Unknown
  /\ o.pc \in {"erase", "program"} => o.data \in Data
  /\ o.pc \in {"none", "erase"} => o.at = 0
  /\ o.pc \in {"read", "program"} => o.at < o.size * W
  /\ o.pc = "done" => o.at = o.size * W
  /\ o.good \subseteq Pages(o)

FlashTypeOK ==
  /\ chip \in [Sector -> [0..W-1 -> SUBSET Data]]
  /\ holds \in [Sector -> Data \cup {Unknown}]
  /\ op \in [Flash -> Op]
  /\ \A t \in Flash : OpOK(op[t])

(* Who has a command has the lock or waits for it, and has begun nothing    *)
(* while it waits.                                                          *)
Fresh(o) == o.pc \in {"read", "erase"} /\ o.at = 0 /\ o.seen = {}

Commands ==
  \A t \in Flash :
    /\ op[t].pc # "none" <=> t \in using \cup waiting
    /\ t \in waiting => Fresh(op[t])

(* The words that the address counter has passed.                           *)
Passed(o, s, w) == s < SectorAt(o) \/ (s = SectorAt(o) /\ w < WordAt(o))

Word(o) == Pages(o) \X (0..W-1)
Behind(o) == {x \in Word(o) : Passed(o, x[1], x[2])}

Writes(t) == t \in using /\ op[t].pc \in {"program", "done"} /\ op[t].data # Unknown
Reads(t) == t \in using /\ op[t].pc \in {"read", "done"} /\ op[t].data = Unknown

(* Of a sector that is being written nothing is promised.                   *)
Forgotten(t) == Writes(t) => \A s \in Pages(op[t]) : holds[s] = Unknown

(* In the sectors the write began on blank, what is behind the counter is   *)
(* written and what is before it is blank.                                  *)
Written(t) ==
  ~shared /\ Writes(t) =>
    \A s \in op[t].good, w \in 0..W-1 :
      /\ Passed(op[t], s, w) => chip[s][w] = {op[t].data}
      /\ ~Passed(op[t], s, w) => chip[s][w] = {}

(* A read has seen what is behind the counter, as it still is.              *)
Seen(t) ==
  ~shared /\ Reads(t) => op[t].seen = {chip[x[1]][x[2]] : x \in Behind(op[t])}

ThreadOK(t) == Forgotten(t) /\ Written(t) /\ Seen(t)

(* Without a transfer that could not wait nobody is pushed into the list,   *)
(* and the semaphore excludes.                                              *)
NonePushed == ~shared => Pushed = {}
OneUser == ~shared => \A t, u \in using : t = u

FInv ==
  /\ IInv /\ NonePushed
  /\ FlashTypeOK /\ Commands
  /\ \A t \in Flash : ThreadOK(t)
  /\ StoredAsWritten

-----------------------------------------------------------------------------

LEMMA Counter ==
  ASSUME NEW o, OpOK(o), o.at < o.size * W
  PROVE  /\ SectorAt(o) \in Pages(o) /\ SectorAt(o) \in Sector
         /\ WordAt(o) \in 0..W-1
<1>1. /\ o.at \in Nat /\ o.page \in Nat /\ o.size \in Nat
      /\ o.page + o.size <= Sectors /\ Sectors \in Nat
  BY SpiFlashAssumption DEF OpOK, Op, Sector
<1>2. o.at \div W \in Nat /\ o.at \div W < o.size /\ o.at % W \in 0..W-1
  BY <1>1, Division, Within
<1> QED
  BY <1>1, <1>2 DEF SectorAt, WordAt, Pages, Sector

LEMMA PagesAreSectors ==
  ASSUME NEW o, OpOK(o)
  PROVE  /\ Pages(o) \subseteq Sector /\ o.page \in Pages(o)
         /\ o.page \in Nat /\ o.size \in Nat \ {0} /\ o.at \in Nat /\ o.size * W \in Nat
<1>1. /\ o.at \in Nat /\ o.page \in Nat /\ o.size \in Nat \ {0}
      /\ o.page + o.size <= Sectors /\ Sectors \in Nat /\ W \in Nat
  BY SpiFlashAssumption DEF OpOK, Op, Sector
<1> QED
  BY <1>1 DEF Pages, Sector

LEMMA PassedNext ==
  ASSUME NEW o, OpOK(o), o.at < o.size * W,
         NEW p, p.page = o.page, p.size = o.size, p.at = o.at + 1,
         NEW s \in Sector, NEW w \in 0..W-1
  PROVE  /\ Passed(p, s, w) <=> Passed(o, s, w) \/ (s = SectorAt(o) /\ w = WordAt(o))
         /\ ~Passed(o, SectorAt(o), WordAt(o))
<1>1. o.at \in Nat /\ o.page \in Nat /\ W \in Nat \ {0}
  BY SpiFlashAssumption DEF OpOK, Op, Sector
<1>2. o.at \div W \in Nat /\ o.at % W \in 0..W-1
  BY <1>1, Division
<1> DEFINE q == o.at \div W
           r == o.at % W
<1>3. \/ /\ r + 1 < W
         /\ (o.at + 1) \div W = q /\ (o.at + 1) % W = r + 1
      \/ /\ r + 1 = W
         /\ (o.at + 1) \div W = q + 1 /\ (o.at + 1) % W = 0
  BY <1>1, NextWord
<1>4. q \in Nat /\ r \in 0..W-1
  BY <1>2
<1>5. SectorAt(o) = o.page + q /\ WordAt(o) = r
  BY DEF SectorAt, WordAt
<1>6. SectorAt(p) = o.page + ((o.at + 1) \div W) /\ WordAt(p) = (o.at + 1) % W
  BY DEF SectorAt, WordAt
<1>7. s \in Int /\ w \in 0..W-1
  BY SpiFlashAssumption DEF Sector
<1> HIDE DEF q, r
<1>8. CASE r + 1 < W /\ (o.at + 1) \div W = q /\ (o.at + 1) % W = r + 1
  BY <1>1, <1>4, <1>5, <1>6, <1>7, <1>8 DEF Passed
<1>9. CASE r + 1 = W /\ (o.at + 1) \div W = q + 1 /\ (o.at + 1) % W = 0
  <2>1. SectorAt(p) = SectorAt(o) + 1 /\ WordAt(p) = 0 /\ SectorAt(o) \in Nat
    BY <1>1, <1>4, <1>5, <1>6, <1>9
  <2>2. w <= WordAt(o) /\ ~(w < 0)
    BY <1>1, <1>4, <1>5, <1>7, <1>9
  <2>3. WordAt(o) \in Nat
    BY <1>4, <1>5
  <2> QED
    BY <1>7, <2>1, <2>2, <2>3 DEF Passed
<1> QED
  BY <1>3, <1>8, <1>9

LEMMA PassedNone ==
  ASSUME NEW o, OpOK(o), o.at = 0
  PROVE  \A s \in Pages(o), w \in 0..W-1 : ~Passed(o, s, w)
<1>1. o.page \in Nat /\ o.size \in Nat
  BY PagesAreSectors
<1>2. 0 \div W = 0 /\ 0 % W = 0
  BY SpiFlashAssumption
<1>3. SectorAt(o) = o.page /\ WordAt(o) = 0
  BY <1>1, <1>2 DEF SectorAt, WordAt
<1> QED
  BY <1>1, <1>3, SpiFlashAssumption DEF Passed, Pages

LEMMA PassedAll ==
  ASSUME NEW o, OpOK(o), o.at = o.size * W
  PROVE  \A s \in Pages(o), w \in 0..W-1 : Passed(o, s, w)
<1>1. o.page \in Nat /\ o.size \in Nat
  BY PagesAreSectors
<1>2. (o.size * W) \div W = o.size /\ (o.size * W) % W = 0
  BY <1>1, Whole
<1>3. SectorAt(o) = o.page + o.size
  BY <1>2 DEF SectorAt
<1> QED
  BY <1>1, <1>3 DEF Passed, Pages

-----------------------------------------------------------------------------
(* A thread whose command is not touched, has not begun, or is over.        *)

LEMMA Keeps ==
  ASSUME NEW t \in Flash, ThreadOK(t), op'[t] = op[t], UNCHANGED <<chip, holds>>,
         t \in using' => t \in using, ~shared' => ~shared
  PROVE  ThreadOK(t)'
<1>1. Forgotten(t)'
  BY DEF ThreadOK, Forgotten, Writes
<1>2. Written(t)'
  BY DEF ThreadOK, Written, Writes, Passed, SectorAt, WordAt
<1>3. Seen(t)'
  BY DEF ThreadOK, Seen, Reads, Behind, Word, Pages, Passed, SectorAt, WordAt
<1> QED
  BY <1>1, <1>2, <1>3 DEF ThreadOK

LEMMA Starts ==
  ASSUME NEW t \in Flash, OpOK(op'[t]), Fresh(op'[t])
  PROVE  ThreadOK(t)'
<1>1. ~Writes(t)'
  BY DEF Fresh, Writes
<1>2. Behind(op'[t]) = {}
  BY PassedNone DEF Fresh, Behind, Word
<1>3. Seen(t)'
  BY <1>2 DEF Fresh, Seen
<1> QED
  BY <1>1, <1>3 DEF ThreadOK, Forgotten, Written

LEMMA Away ==
  ASSUME NEW t \in Flash, t \notin using'
  PROVE  ThreadOK(t)'
  BY DEF ThreadOK, Forgotten, Written, Seen, Writes, Reads

LEMMA AllForgotten ==
  ASSUME NEW t \in Flash, OpOK(op'[t]), shared', \A s \in Sector : holds'[s] = Unknown
  PROVE  ThreadOK(t)'
<1>1. Pages(op'[t]) \subseteq Sector
  BY PagesAreSectors
<1> QED
  BY <1>1 DEF ThreadOK, Forgotten, Written, Seen, Pages

-----------------------------------------------------------------------------
(* The lock below the commands.                                             *)

LEMMA Excludes ==
  ASSUME IInv, NonePushed, ~shared
  PROVE  \A t, u \in using : t = u
<1>1. using \in SUBSET Threads /\ IsFiniteSet(using) /\ Cardinality(using) \in Nat
  BY FiniteThreads, Spi1Assumption DEF IInv, TypeOK
<1>2. Cardinality(Pushed) = 0
  BY FS_EmptySet DEF NonePushed
<1>3. Cardinality(using) <= 1
  BY <1>1, <1>2 DEF IInv, TypeOK, ValueAgrees
<1> SUFFICES ASSUME NEW t \in using, NEW u \in using, t # u PROVE FALSE
  OBVIOUS
<1>4. {t, u} \subseteq using
  OBVIOUS
<1>5. Cardinality({t, u}) = 2
  <2>1. IsFiniteSet({t}) /\ Cardinality({t}) = 1
    BY FS_Singleton
  <2>2. {t, u} = {t} \cup {u} /\ u \notin {t}
    OBVIOUS
  <2> QED
    BY <2>1, <2>2, FS_AddElement
<1>6. Cardinality({t, u}) <= Cardinality(using)
  BY <1>1, <1>4, FS_Subset
<1> QED
  BY <1>1, <1>3, <1>5, <1>6

LEMMA Alone ==
  ASSUME FInv, ~shared
  PROVE  \A t, u \in using : t = u
  BY Excludes DEF FInv

(* What a release does to those that wait.                                  *)
LEMMA ReleaseMoves ==
  ASSUME NEW l, NEW users, rt_sem_release(l, users), l = <<>> => waiting = {}
  PROVE  /\ using' \cup waiting' = users \cup waiting
         /\ waiting' \subseteq waiting /\ using' \subseteq users \cup waiting
<1>1. CASE l = <<>>
  BY <1>1 DEF rt_sem_release
<1>2. CASE l # <<>>
  BY <1>2 DEF rt_sem_release, Resume
<1> QED
  BY <1>1, <1>2

LEMMA EmptyList ==
  ASSUME TypeOK, list = <<>>
  PROVE  waiting = {}
  BY DEF TypeOK, Listed

LEMMA NextNonePushed ==
  ASSUME IInv, IInv', NonePushed, [Next]_vars
  PROVE  NonePushed'
<1>1. ASSUME NEW t \in Threads, Take(t) PROVE NonePushed'
  <2>1. t \notin Listed(list) /\ shared' = shared
    BY <1>1, Running DEF Take
  <2>2. CASE Taken(t)
    BY <2>1, <2>2 DEF Taken, NonePushed, Pushed, Listed
  <2>3. CASE Queued(t)
    <3>1. Listed(list') = Listed(list) \cup {t} /\ waiting' = waiting \cup {t}
      BY <1>1, <2>3, ListedAppend DEF Queued, IInv, TypeOK
    <3> QED
      BY <2>1, <3>1 DEF NonePushed, Pushed
  <2> QED
    BY <1>1, <2>2, <2>3 DEF Take, rt_sem_take
<1>2. ASSUME NEW t \in Threads, Release(t), ~shared' PROVE Pushed' = {}
  <2>1. rt_sem_release(list, using \ {t}) /\ (shared' <=> shared /\ using' # {})
    BY <1>2 DEF Release
  <2>2. CASE shared
    <3>1. using' = {}
      BY <1>2, <2>1, <2>2
    <3>2. IsFiniteSet(Pushed') /\ Cardinality(Pushed') \in Nat
      BY FiniteThreads DEF IInv, TypeOK, Pushed, Listed
    <3>3. Cardinality(using') = 0
      BY <3>1, FS_EmptySet
    <3>4. Cardinality(Pushed') = 0
      BY <3>2, <3>3 DEF IInv, TypeOK, ValueAgrees
    <3> QED
      BY <3>2, <3>4, FS_EmptySet
  <2>3. CASE ~shared
    <3>1. Pushed = {}
      BY <2>3 DEF NonePushed
    <3>2. CASE list = <<>>
      BY <2>1, <3>1, <3>2 DEF rt_sem_release, Pushed, Listed
    <3>3. CASE list # <<>>
      <4>1. list' = Tail(list) /\ waiting' = waiting \ {Head(list)}
        BY <2>1, <3>3 DEF rt_sem_release, Resume
      <4>2. Listed(Tail(list)) = Listed(list) \ {Head(list)}
        BY <3>3, ListedTail DEF IInv, TypeOK, Distinct
      <4> QED
        BY <3>1, <4>1, <4>2 DEF Pushed
    <3> QED
      BY <3>2, <3>3
  <2> QED
    BY <2>2, <2>3
<1>3. ASSUME UNCHANGED <<list, waiting, shared>> PROVE NonePushed'
  BY <1>3 DEF NonePushed, Pushed, Listed
<1>4. ASSUME NEW t \in Threads, Thread(t) PROVE NonePushed'
  <2>1. CASE Take(t)
    BY <1>1, <2>1
  <2>2. CASE Release(t)
    BY <1>2, <2>2 DEF NonePushed
  <2>3. CASE Suspend(t)
    BY <1>3, <2>3 DEF Suspend
  <2> QED
    BY <1>4, <2>1, <2>2, <2>3 DEF Thread
<1>5. ASSUME NEW t \in Threads, rt_thread_timeout(t) PROVE NonePushed'
  BY <1>3, <1>5 DEF rt_thread_timeout
<1>6. CASE rt_schedule
  BY <1>3, <1>6 DEF rt_schedule
<1>7. CASE SendNow
  BY <1>7 DEF SendNow, NonePushed
<1>8. CASE SendNowRelinks
  BY <1>3, <1>8 DEF SendNowRelinks
<1>9. CASE UNCHANGED vars
  BY <1>3, <1>9 DEF vars
<1> QED
  BY <1>4, <1>5, <1>6, <1>7, <1>8, <1>9 DEF Next

-----------------------------------------------------------------------------
(* One command.                                                             *)

LEMMA Types ==
  ASSUME FInv, NEW t \in Flash
  PROVE  OpOK(op[t]) /\ op \in [Flash -> Op]
  BY DEF FInv, FlashTypeOK

LEMMA ThenOK ==
  ASSUME FInv, NEW t \in Flash, NEW o, OpOK(o), Then(t, o)
  PROVE  /\ op' \in [Flash -> Op] /\ op'[t] = o
         /\ \A u \in Flash \ {t} : op'[u] = op[u]
         /\ \A u \in Flash : OpOK(op'[u])
<1>1. op' = [op EXCEPT ![t] = o] /\ op \in [Flash -> Op] /\ o \in Op
  BY Types DEF Then, OpOK
<1>2. op' \in [Flash -> Op] /\ op'[t] = o /\ \A u \in Flash \ {t} : op'[u] = op[u]
  BY <1>1
<1>3. \A u \in Flash : OpOK(op'[u])
  BY <1>2, Types
<1> QED
  BY <1>2, <1>3

(* A transfer changes nothing of the lock.                                  *)
LEMMA TransferCommands ==
  ASSUME FInv, UNCHANGED vars, NEW t \in Flash, t \in using,
         NEW o, o.pc # "none", OpOK(o), Then(t, o)
  PROVE  IInv' /\ NonePushed' /\ Commands'
<1>1. IInv' /\ NonePushed'
  BY NextIInv, NextNonePushed DEF FInv
<1>2. t \notin waiting /\ using' = using /\ waiting' = waiting
  BY DEF FInv, IInv, TypeOK, vars
<1>3. Commands'
  BY <1>2, ThenOK DEF FInv, Commands
<1> QED
  BY <1>1, <1>3

LEMMA GarbledFInv ==
  ASSUME FInv, UNCHANGED vars, NEW t \in Flash, t \in using, Garbled,
         NEW o, o.pc # "none", OpOK(o), Then(t, o)
  PROVE  FInv'
<1>1. shared' /\ \A s \in Sector : holds'[s] = Unknown
  BY DEF Garbled, Forget, vars
<1>2. chip' \in [Sector -> [0..W-1 -> SUBSET Data]]
  <2>1. Junk \in [0..W-1 -> SUBSET Data]
    BY DEF Junk
  <2> QED
    BY <2>1 DEF Garbled, FInv, FlashTypeOK
<1>3. holds' \in [Sector -> Data \cup {Unknown}]
  BY DEF Garbled, Forget, FInv, FlashTypeOK
<1>4. FlashTypeOK'
  BY <1>2, <1>3, ThenOK DEF FlashTypeOK
<1>5. \A u \in Flash : ThreadOK(u)'
  BY <1>1, ThenOK, AllForgotten
<1>6. StoredAsWritten'
  BY <1>1 DEF StoredAsWritten
<1> QED
  BY <1>4, <1>5, <1>6, TransferCommands DEF FInv

LEMMA EraseFInv ==
  ASSUME FInv, NEW t \in Flash, Erase(t)
  PROVE  FInv'
<1> DEFINE o == op[t]
           p == [o EXCEPT !.pc = "program", !.good = Erased(o)]
<1>1. t \in using /\ o.pc = "erase" /\ UNCHANGED vars /\ Then(t, p)
  BY DEF Erase, At
<1>2. OpOK(o) /\ o.at = 0 /\ o.data \in Data /\ o \in Op
  BY <1>1, Types DEF OpOK
<1>3. Pages(o) \subseteq Sector /\ o.page \in Pages(o) /\ o.page \in Nat
      /\ o.size \in Nat \ {0}
  BY <1>2, PagesAreSectors
<1>4. Erased(o) \subseteq Pages(o)
  BY <1>3 DEF Erased
<1>5. /\ p.pc = "program" /\ p.page = o.page /\ p.size = o.size /\ p.data = o.data
      /\ p.at = 0 /\ p.seen = o.seen /\ p.good = Erased(o) /\ p \in Op
  BY <1>2, <1>3, <1>4 DEF Op
<1>6. 0 < o.size * W
  BY <1>3, SpiFlashAssumption
<1>7. Pages(p) = Pages(o)
  BY <1>5 DEF Pages
<1>8. OpOK(p)
  BY <1>2, <1>4, <1>5, <1>6, <1>7 DEF OpOK
<1> HIDE DEF p
<1>9. CASE Garbled
  BY <1>1, <1>5, <1>8, <1>9, GarbledFInv
<1>10. CASE /\ ~shared
            /\ chip' = [chip EXCEPT ![o.page] = Blank]
            /\ Forget(Pages(o))
  <2>1. /\ op' \in [Flash -> Op] /\ op'[t] = p
        /\ \A u \in Flash \ {t} : op'[u] = op[u]
        /\ \A u \in Flash : OpOK(op'[u])
    BY <1>1, <1>8, ThenOK
  <2>2. /\ chip \in [Sector -> [0..W-1 -> SUBSET Data]]
        /\ holds \in [Sector -> Data \cup {Unknown}]
    BY DEF FInv, FlashTypeOK
  <2>3. Blank \in [0..W-1 -> SUBSET Data] /\ \A w \in 0..W-1 : Blank[w] = {}
    BY DEF Blank
  <2>4. /\ chip' \in [Sector -> [0..W-1 -> SUBSET Data]]
        /\ chip'[o.page] = Blank
        /\ \A s \in Sector \ {o.page} : chip'[s] = chip[s]
    BY <1>3, <1>10, <2>2, <2>3
  <2>5. /\ holds' \in [Sector -> Data \cup {Unknown}]
        /\ \A s \in Pages(o) : holds'[s] = Unknown
        /\ \A s \in Sector \ Pages(o) : holds'[s] = holds[s]
    BY <1>3, <1>10, <2>2 DEF Forget
  <2>6. FlashTypeOK'
    BY <2>1, <2>4, <2>5 DEF FlashTypeOK
  <2>7. ThreadOK(t)'
    <3>1. Forgotten(t)'
      BY <1>7, <2>1, <2>5 DEF Forgotten, Pages
    <3>2. \A s \in p.good, w \in 0..W-1 : ~Passed(p, s, w) /\ chip'[s][w] = {}
      <4>1. \A s \in p.good : chip'[s] = Blank
        BY <1>3, <1>5, <2>4 DEF Erased
      <4>2. \A s \in Pages(p), w \in 0..W-1 : ~Passed(p, s, w)
        BY <1>5, <1>8, PassedNone
      <4>3. p.good \subseteq Pages(p)
        BY <1>8 DEF OpOK
      <4> QED
        BY <2>3, <4>1, <4>2, <4>3
    <3>3. Written(t)'
      BY <2>1, <3>2 DEF Written, Passed, SectorAt, WordAt
    <3>4. Seen(t)'
      BY <1>2, <1>5, <2>1, SpiFlashAssumption DEF Seen, Reads
    <3> QED
      BY <3>1, <3>3, <3>4 DEF ThreadOK
  <2>8. \A u \in Flash : ThreadOK(u)'
    <3>1. \A u \in using : u = t
      BY <1>1, <1>10, Alone
    <3>2. using' = using
      BY <1>1 DEF vars
    <3> QED
      BY <2>7, <3>1, <3>2, Away
  <2>9. StoredAsWritten'
    BY <1>3, <2>4, <2>5 DEF FInv, StoredAsWritten
  <2>10. IInv' /\ NonePushed' /\ Commands'
    BY <1>1, <1>5, <1>8, TransferCommands
  <2> QED
    BY <2>6, <2>8, <2>9, <2>10 DEF FInv
<1> QED
  BY <1>9, <1>10 DEF Erase

(* The command after one more word.                                         *)
Next1(o, p) ==
  /\ p.page = o.page /\ p.size = o.size /\ p.data = o.data /\ p.good = o.good
  /\ p.at = o.at + 1 /\ p.pc = (IF p.at = o.size * W THEN "done" ELSE o.pc)

LEMMA NextOK ==
  ASSUME NEW o, OpOK(o), o.pc \in {"read", "program"}, NEW p \in Op, Next1(o, p)
  PROVE  OpOK(p) /\ p.pc # "none" /\ Pages(p) = Pages(o)
<1>1. o.at \in Nat /\ o.size * W \in Nat /\ o.at < o.size * W
  BY PagesAreSectors DEF OpOK
<1>2. p.at <= o.size * W /\ (p.at # o.size * W => p.at < o.size * W)
  BY <1>1 DEF Next1
<1>3. Pages(p) = Pages(o)
  BY DEF Next1, Pages
<1>4. CASE p.at = o.size * W
  BY <1>3, <1>4 DEF Next1, OpOK
<1>5. CASE p.at # o.size * W
  BY <1>2, <1>3, <1>5 DEF Next1, OpOK
<1> QED
  BY <1>3, <1>4, <1>5

LEMMA ProgramFInv ==
  ASSUME FInv, NEW t \in Flash, Program(t)
  PROVE  FInv'
<1> DEFINE o == op[t]
           q == [o EXCEPT !.at = @ + 1]
           p == IF q.at = q.size * W THEN [q EXCEPT !.pc = "done"] ELSE q
           sa == SectorAt(o)
           wa == WordAt(o)
<1>1. t \in using /\ o.pc = "program" /\ UNCHANGED vars /\ Then(t, p)
  BY DEF Program, At
<1>2. OpOK(o) /\ o.at < o.size * W /\ o.data \in Data /\ o \in Op /\ o.at \in Nat
  BY <1>1, Types DEF OpOK, Op
<1>3. p \in Op /\ Next1(o, p)
  <2>1. q \in Op /\ q.at = o.at + 1 /\ q.page = o.page /\ q.size = o.size
        /\ q.data = o.data /\ q.good = o.good /\ q.pc = o.pc
    BY <1>2 DEF Op
  <2>2. CASE q.at = q.size * W
    BY <2>1, <2>2 DEF Op, Next1
  <2>3. CASE q.at # q.size * W
    BY <2>1, <2>3 DEF Op, Next1
  <2> QED
    BY <2>2, <2>3
<1> HIDE DEF p, q
<1>4. OpOK(p) /\ p.pc # "none" /\ Pages(p) = Pages(o)
  BY <1>1, <1>2, <1>3, NextOK
<1>5. CASE Garbled
  BY <1>1, <1>4, <1>5, GarbledFInv
<1>6. CASE /\ ~shared
           /\ chip' = [chip EXCEPT ![sa][wa] = @ \cup {o.data}]
           /\ UNCHANGED holds
  <2>1. /\ op' \in [Flash -> Op] /\ op'[t] = p
        /\ \A u \in Flash \ {t} : op'[u] = op[u]
        /\ \A u \in Flash : OpOK(op'[u])
    BY <1>1, <1>4, ThenOK
  <2>2. sa \in Pages(o) /\ sa \in Sector /\ wa \in 0..W-1
    BY <1>2, Counter
  <2>3. chip \in [Sector -> [0..W-1 -> SUBSET Data]]
    BY DEF FInv, FlashTypeOK
  <2> HIDE DEF sa, wa
  <2>4. chip[sa][wa] \cup {o.data} \in SUBSET Data
    BY <1>2, <2>2, <2>3
  <2>5. /\ chip' \in [Sector -> [0..W-1 -> SUBSET Data]]
        /\ chip'[sa][wa] = chip[sa][wa] \cup {o.data}
        /\ \A s \in Sector, w \in 0..W-1 : s # sa \/ w # wa => chip'[s][w] = chip[s][w]
    BY <1>6, <2>2, <2>3, <2>4
  <2>6. FlashTypeOK'
    BY <1>6, <2>1, <2>5 DEF FInv, FlashTypeOK
  <2>7. Writes(t) /\ o.data # Unknown
    BY <1>1, <1>2, SpiFlashAssumption DEF Writes
  <2>8. \A s \in Pages(o) : holds[s] = Unknown
    BY <2>7 DEF FInv, ThreadOK, Forgotten
  <2>9. ThreadOK(t)'
    <3>1. Forgotten(t)'
      BY <1>4, <1>6, <2>1, <2>8 DEF Forgotten, Pages
    <3>2. ASSUME NEW s \in p.good, NEW w \in 0..W-1
          PROVE  /\ Passed(p, s, w) => chip'[s][w] = {p.data}
                 /\ ~Passed(p, s, w) => chip'[s][w] = {}
      <4>1. s \in o.good /\ s \in Sector /\ p.data = o.data
        BY <1>2, <1>3, PagesAreSectors DEF Next1, OpOK
      <4>2. /\ Passed(o, s, w) => chip[s][w] = {o.data}
            /\ ~Passed(o, s, w) => chip[s][w] = {}
        BY <1>6, <2>7, <4>1 DEF FInv, ThreadOK, Written
      <4>3. /\ Passed(p, s, w) <=> Passed(o, s, w) \/ (s = sa /\ w = wa)
            /\ ~Passed(o, sa, wa)
        BY <1>2, <1>3, <4>1, PassedNext DEF Next1, sa, wa
      <4>4. CASE s = sa /\ w = wa
        BY <2>5, <4>1, <4>2, <4>3, <4>4
      <4>5. CASE s # sa \/ w # wa
        BY <2>5, <4>1, <4>2, <4>3, <4>5
      <4> QED
        BY <4>4, <4>5
    <3>3. Written(t)'
      BY <2>1, <3>2 DEF Written, Passed, SectorAt, WordAt
    <3>4. Seen(t)'
      BY <1>3, <2>1, <2>7 DEF Seen, Reads, Next1
    <3> QED
      BY <3>1, <3>3, <3>4 DEF ThreadOK
  <2>10. \A u \in Flash : ThreadOK(u)'
    <3>1. \A u \in using : u = t
      BY <1>1, <1>6, Alone
    <3>2. using' = using
      BY <1>1 DEF vars
    <3> QED
      BY <2>9, <3>1, <3>2, Away
  <2>11. StoredAsWritten'
    <3>1. ASSUME NEW s \in Sector, holds[s] # Unknown, NEW w \in 0..W-1
          PROVE  chip'[s][w] = {holds[s]}
      <4>1. s # sa
        BY <2>2, <2>8, <3>1
      <4> QED
        BY <2>5, <3>1, <4>1 DEF FInv, StoredAsWritten
    <3> QED
      BY <1>6, <3>1 DEF StoredAsWritten
  <2>12. IInv' /\ NonePushed' /\ Commands'
    BY <1>1, <1>4, TransferCommands
  <2> QED
    BY <2>6, <2>10, <2>11, <2>12 DEF FInv
<1> QED
  BY <1>5, <1>6 DEF Program

LEMMA ReadFInv ==
  ASSUME FInv, NEW t \in Flash, Read(t)
  PROVE  FInv'
<1> DEFINE o == op[t]
           sa == SectorAt(o)
           wa == WordAt(o)
           q == [o EXCEPT !.seen = @ \cup {chip[sa][wa]}, !.at = @ + 1]
           p == IF q.at = q.size * W THEN [q EXCEPT !.pc = "done"] ELSE q
<1>1. t \in using /\ o.pc = "read" /\ UNCHANGED vars /\ Then(t, p)
  BY DEF Read, At
<1>2. OpOK(o) /\ o.at < o.size * W /\ o.data = Unknown /\ o \in Op /\ o.at \in Nat
  BY <1>1, Types DEF OpOK, Op
<1>3. sa \in Pages(o) /\ sa \in Sector /\ wa \in 0..W-1
  BY <1>2, Counter
<1> HIDE DEF sa, wa
<1>4. chip[sa][wa] \in SUBSET Data
  BY <1>3 DEF FInv, FlashTypeOK
<1>5. p \in Op /\ Next1(o, p) /\ p.seen = o.seen \cup {chip[sa][wa]}
  <2>1. q \in Op /\ q.at = o.at + 1 /\ q.page = o.page /\ q.size = o.size
        /\ q.data = o.data /\ q.good = o.good /\ q.pc = o.pc
        /\ q.seen = o.seen \cup {chip[sa][wa]}
    <3> DEFINE v == chip[sa][wa]
    <3> HIDE DEF v
    <3>1. v \in SUBSET Data
      BY <1>4 DEF v
    <3>2. o.seen \cup {v} \in SUBSET SUBSET Data
      BY <1>2, <3>1 DEF Op
    <3>3. q = [o EXCEPT !.seen = o.seen \cup {v}, !.at = o.at + 1]
      BY Zenon DEF q, v
    <3>4. o.at + 1 \in Nat /\ o \in Op
      BY <1>2
    <3> HIDE DEF o, q
    <3>5. q \in Op /\ q.at = o.at + 1 /\ q.page = o.page /\ q.size = o.size
          /\ q.data = o.data /\ q.good = o.good /\ q.pc = o.pc
          /\ q.seen = o.seen \cup {v}
      BY <3>2, <3>3, <3>4 DEF Op
    <3> QED
      BY <3>5 DEF v
  <2> HIDE DEF q
  <2>2. CASE q.at = q.size * W
    BY <2>1, <2>2 DEF Op, Next1
  <2>3. CASE q.at # q.size * W
    BY <2>1, <2>3 DEF Op, Next1
  <2> QED
    BY <2>2, <2>3
<1> HIDE DEF p, q
<1>6. OpOK(p) /\ p.pc # "none" /\ Pages(p) = Pages(o)
  BY <1>1, <1>2, <1>5, NextOK
<1>7. CASE Garbled
  BY <1>1, <1>6, <1>7, GarbledFInv
<1>8. CASE ~shared /\ UNCHANGED <<chip, holds>>
  <2>1. /\ op' \in [Flash -> Op] /\ op'[t] = p
        /\ \A u \in Flash \ {t} : op'[u] = op[u]
        /\ \A u \in Flash : OpOK(op'[u])
    BY <1>1, <1>6, ThenOK
  <2>2. FlashTypeOK'
    BY <1>8, <2>1 DEF FInv, FlashTypeOK
  <2>3. ThreadOK(t)'
    <3>1. ~Writes(t)'
      BY <1>2, <1>5, <2>1 DEF Writes, Next1
    <3>2. o.seen = {chip[x[1]][x[2]] : x \in Behind(o)}
      BY <1>1, <1>2, <1>8 DEF FInv, ThreadOK, Seen, Reads
    <3>3. Behind(p) = Behind(o) \cup {<<sa, wa>>}
      <4>1. ASSUME NEW s \in Pages(o), NEW w \in 0..W-1
            PROVE  Passed(p, s, w) <=> Passed(o, s, w) \/ (s = sa /\ w = wa)
        <5>1. s \in Sector
          BY <1>2, PagesAreSectors
        <5> QED
          BY <1>2, <1>5, <5>1, PassedNext DEF Next1, sa, wa
      <4> QED
        BY <1>3, <1>6, <4>1 DEF Behind, Word
    <3>4. p.seen = {chip[x[1]][x[2]] : x \in Behind(p)}
      <4> DEFINE F(x) == chip[x[1]][x[2]]
                 y == <<sa, wa>>
      <4>1. F(y) = chip[sa][wa]
        OBVIOUS
      <4>2. p.seen = o.seen \cup {F(y)} /\ Behind(p) = Behind(o) \cup {y}
        BY <1>5, <3>3, <4>1
      <4>3. o.seen = {F(x) : x \in Behind(o)}
        BY <3>2
      <4> HIDE DEF F, y
      <4>4. p.seen = {F(x) : x \in Behind(p)}
        BY <4>2, <4>3
      <4> QED
        BY <4>4 DEF F
    <3>5. Seen(t)'
      BY <1>8, <2>1, <3>4 DEF Seen, Behind, Word, Pages, Passed, SectorAt, WordAt
    <3> QED
      BY <3>1, <3>5 DEF ThreadOK, Forgotten, Written
  <2>4. \A u \in Flash : ThreadOK(u)'
    <3>1. \A u \in using : u = t
      BY <1>1, <1>8, Alone
    <3>2. using' = using
      BY <1>1 DEF vars
    <3> QED
      BY <2>3, <3>1, <3>2, Away
  <2>5. StoredAsWritten'
    BY <1>8 DEF FInv, StoredAsWritten
  <2>6. IInv' /\ NonePushed' /\ Commands'
    BY <1>1, <1>6, TransferCommands
  <2> QED
    BY <2>2, <2>4, <2>5, <2>6 DEF FInv
<1> QED
  BY <1>7, <1>8 DEF Read

LEMMA BeginFInv ==
  ASSUME FInv, NEW t \in Threads, Begin(t)
  PROVE  FInv'
<1>1. Take(t) /\ UNCHANGED <<chip, holds>>
  BY DEF Begin
<1>2. t \notin using /\ t \notin waiting /\ shared' = shared
  BY <1>1, Running DEF Take, FInv, IInv, TypeOK
<1>3. \/ using' = using \cup {t} /\ waiting' = waiting
      \/ using' = using /\ waiting' = waiting \cup {t}
  BY <1>1 DEF Take, rt_sem_take, Taken, Queued
<1>4. [Next]_vars
  BY <1>1 DEF Next, Thread
<1>5. IInv'
  BY <1>4, NextIInv DEF FInv
<1>6. NonePushed'
  BY <1>4, <1>5, NextNonePushed DEF FInv
<1>7. StoredAsWritten'
  BY <1>1 DEF FInv, StoredAsWritten
<1>8. CASE t \notin Flash
  <2>1. UNCHANGED op
    BY <1>8 DEF Begin
  <2>2. FlashTypeOK'
    BY <1>1, <2>1 DEF FInv, FlashTypeOK
  <2>3. Commands'
    BY <1>3, <1>8, <2>1 DEF FInv, Commands
  <2>4. \A u \in Flash : ThreadOK(u)'
    BY <1>1, <1>2, <1>3, <1>8, <2>1, Keeps DEF FInv
  <2> QED
    BY <1>5, <1>6, <1>7, <2>2, <2>3, <2>4 DEF FInv
<1>9. CASE t \in Flash
  <2>1. PICK page \in Sector, size \in 1..MaxSize, step \in {"read", "erase"}, d \in Data :
          /\ page + size <= Sectors
          /\ Then(t, [None EXCEPT !.pc = step, !.page = page, !.size = size,
                                  !.data = IF step = "read" THEN Unknown ELSE d])
    BY <1>9 DEF Begin
  <2> DEFINE e == IF step = "read" THEN Unknown ELSE d
             o == [None EXCEPT !.pc = step, !.page = page, !.size = size, !.data = e]
  <2>2. /\ o.pc = step /\ o.page = page /\ o.size = size /\ o.data = e
        /\ o.at = 0 /\ o.seen = {} /\ o.good = {} /\ o \in Op
    BY DEF None, Op
  <2>3. step = "read" => e = Unknown
    OBVIOUS
  <2>4. step = "erase" => e \in Data
    OBVIOUS
  <2>5. 0 < size * W
    BY SpiFlashAssumption
  <2> HIDE DEF o, e
  <2>6. OpOK(o) /\ Fresh(o)
    BY <2>1, <2>2, <2>3, <2>4, <2>5 DEF OpOK, Fresh
  <2>7. Then(t, o)
    BY <2>1 DEF o, e
  <2>8. /\ op' \in [Flash -> Op] /\ op'[t] = o
        /\ \A u \in Flash \ {t} : op'[u] = op[u]
        /\ \A u \in Flash : OpOK(op'[u])
    BY <1>9, <2>6, <2>7, ThenOK
  <2>9. FlashTypeOK'
    BY <1>1, <2>8 DEF FInv, FlashTypeOK
  <2>10. Commands'
    BY <1>2, <1>3, <2>2, <2>6, <2>8 DEF FInv, Commands
  <2>11. ThreadOK(t)'
    BY <1>9, <2>6, <2>8, Starts
  <2>12. ASSUME NEW u \in Flash \ {t} PROVE ThreadOK(u)'
    <3>1. u \in using' => u \in using
      BY <1>3
    <3> QED
      BY <1>1, <1>2, <2>8, <3>1, Keeps DEF FInv
  <2> QED
    BY <1>5, <1>6, <1>7, <2>9, <2>10, <2>11, <2>12 DEF FInv
<1> QED
  BY <1>8, <1>9

LEMMA EndFInv ==
  ASSUME FInv, NEW t \in Threads, End(t)
  PROVE  FInv'
<1>1. /\ Release(t) /\ t \in using /\ UNCHANGED chip
      /\ rt_sem_release(list, using \ {t}) /\ (shared' <=> shared /\ using' # {})
      /\ t \in Flash => op[t].pc = "done"
  BY DEF End, Release
<1>2. [Next]_vars
  BY <1>1 DEF Next, Thread
<1>3. IInv'
  BY <1>2, NextIInv DEF FInv
<1>4. NonePushed'
  BY <1>2, <1>3, NextNonePushed DEF FInv
<1>5. /\ using' \cup waiting' = (using \ {t}) \cup waiting
      /\ waiting' \subseteq waiting /\ using' \subseteq (using \ {t}) \cup waiting
  BY <1>1, EmptyList, ReleaseMoves DEF FInv, IInv
<1>6. t \notin waiting /\ t \notin using'
  BY <1>1, <1>5 DEF FInv, IInv, TypeOK
<1>7. /\ op' \in [Flash -> Op] /\ \A u \in Flash : OpOK(op'[u])
      /\ \A u \in Flash \ {t} : op'[u] = op[u]
      /\ t \in Flash => op'[t] = None
  <2>1. CASE t \notin Flash
    BY <1>1, <2>1, Types DEF End, FInv, FlashTypeOK
  <2>2. CASE t \in Flash
    <3>1. 0 \in Sector /\ 1 \in 1..MaxSize /\ 1 <= Sectors /\ 0 \in Nat
      BY SpiFlashAssumption DEF Sector
    <3>2. None \in Op
      BY <3>1 DEF None, Op
    <3>3. OpOK(None)
      BY <3>1, <3>2 DEF OpOK, None
    <3>4. Then(t, None)
      BY <1>1, <2>2 DEF End
    <3> QED
      BY <2>2, <3>3, <3>4, ThenOK
  <2> QED
    BY <2>1, <2>2
<1>8. Commands'
  <2>1. ASSUME NEW u \in Flash
        PROVE  /\ op'[u].pc # "none" <=> u \in using' \cup waiting'
               /\ u \in waiting' => Fresh(op'[u])
    <3>1. CASE u = t
      BY <1>5, <1>6, <1>7, <3>1 DEF None
    <3>2. CASE u # t
      <4>1. op'[u] = op[u]
        BY <1>7, <3>2
      <4>2. u \in using' \cup waiting' <=> u \in using \cup waiting
        BY <1>5, <3>2
      <4> QED
        BY <1>5, <4>1, <4>2 DEF FInv, Commands
    <3> QED
      BY <3>1, <3>2
  <2> QED
    BY <2>1 DEF Commands
<1>9. holds \in [Sector -> Data \cup {Unknown}]
  BY DEF FInv, FlashTypeOK
(* The sectors whose last completed write becomes known are in good.        *)
<1>10. /\ holds' \in [Sector -> Data \cup {Unknown}]
       /\ \A s \in Sector :
            \/ holds'[s] = Unknown \/ holds'[s] = holds[s]
            \/ /\ t \in Flash /\ op[t].data # Unknown /\ ~shared /\ s \in op[t].good
               /\ holds'[s] = op[t].data
  <2>1. CASE t \in Flash /\ op[t].data # Unknown
    <3>1. holds' = [s \in Sector |-> IF shared THEN Unknown
                      ELSE IF s \in op[t].good THEN op[t].data ELSE holds[s]]
      BY <2>1 DEF End
    <3>2. op[t].data \in Data
      BY <2>1, Types DEF Op
    <3>3. CASE shared
      BY <3>1, <3>3
    <3>4. CASE ~shared
      <4>1. holds' = [s \in Sector |-> IF s \in op[t].good THEN op[t].data ELSE holds[s]]
        BY <3>1, <3>4
      <4> QED
        BY <1>9, <2>1, <3>2, <3>4, <4>1
    <3> QED
      BY <3>3, <3>4
  <2>2. CASE ~(t \in Flash /\ op[t].data # Unknown)
    BY <1>9, <2>2 DEF End
  <2> QED
    BY <2>1, <2>2
<1>11. FlashTypeOK'
  BY <1>1, <1>7, <1>10 DEF FInv, FlashTypeOK
<1>12. StoredAsWritten'
  <2>1. ASSUME NEW s \in Sector, holds'[s] # Unknown, NEW w \in 0..W-1
        PROVE  chip[s][w] = {holds'[s]}
    <3>1. CASE holds'[s] = holds[s]
      BY <2>1, <3>1 DEF FInv, StoredAsWritten
    <3>2. CASE /\ t \in Flash /\ op[t].data # Unknown /\ ~shared /\ s \in op[t].good
               /\ holds'[s] = op[t].data
      <4>1. Writes(t) /\ op[t].pc = "done"
        BY <1>1, <3>2 DEF Writes
      <4>2. OpOK(op[t]) /\ op[t].at = op[t].size * W /\ s \in Pages(op[t])
        BY <3>2, <4>1, Types DEF OpOK
      <4>3. Passed(op[t], s, w)
        BY <4>2, PassedAll
      <4> QED
        BY <3>2, <4>1, <4>3 DEF FInv, ThreadOK, Written
    <3> QED
      BY <1>10, <2>1, <3>1, <3>2
  <2> QED
    BY <1>1, <2>1 DEF StoredAsWritten
<1>13. ASSUME NEW u \in Flash PROVE ThreadOK(u)'
  <2>1. CASE u \notin using'
    BY <2>1, Away
  <2>2. CASE u \in waiting
    <3>1. u # t /\ op'[u] = op[u]
      BY <1>6, <1>7, <2>2
    <3>2. Fresh(op'[u])
      BY <2>2, <3>1 DEF FInv, Commands
    <3> QED
      BY <1>7, <3>2, Starts
  <2>3. CASE u \in using' /\ u \notin waiting
    <3>1. u \in using /\ u # t /\ op'[u] = op[u]
      BY <1>5, <1>6, <1>7, <2>3
    <3>2. shared /\ shared'
      BY <1>1, <2>3, <3>1, Alone
    <3>3. Forgotten(u)'
      <4>1. ASSUME Writes(u)', NEW s \in Pages(op'[u]) PROVE holds'[s] = Unknown
        <5>1. Writes(u) /\ s \in Pages(op[u])
          BY <3>1, <4>1 DEF Writes
        <5>2. s \in Sector /\ holds[s] = Unknown
          BY <5>1, Types, PagesAreSectors DEF FInv, ThreadOK, Forgotten
        <5> QED
          BY <1>10, <3>2, <5>2
      <4> QED
        BY <4>1 DEF Forgotten, Pages
    <3> QED
      BY <3>2, <3>3 DEF ThreadOK, Written, Seen
  <2> QED
    BY <2>1, <2>2, <2>3
<1> QED
  BY <1>3, <1>4, <1>8, <1>11, <1>12, <1>13 DEF FInv

(* Steps of the threads and the interrupts outside the driver.              *)
LEMMA ElsewhereFInv ==
  ASSUME FInv, [Next]_vars, UNCHANGED flashVars,
         using' \cup waiting' = using \cup waiting, waiting' \subseteq waiting,
         shared => shared'
  PROVE  FInv'
<1> USE DEF flashVars
<1>1. IInv'
  BY NextIInv DEF FInv
<1>2. NonePushed'
  BY <1>1, NextNonePushed DEF FInv
<1>3. FlashTypeOK' /\ StoredAsWritten'
  BY DEF FInv, FlashTypeOK, StoredAsWritten
<1>4. Commands'
  BY DEF FInv, Commands
<1>5. ASSUME NEW u \in Flash PROVE ThreadOK(u)'
  <2>1. CASE u \in waiting
    <3>1. Fresh(op'[u]) /\ OpOK(op'[u])
      BY <2>1, Types DEF FInv, Commands
    <3> QED
      BY <3>1, Starts
  <2>2. CASE u \notin waiting
    <3>1. u \in using' => u \in using
      BY <2>2
    <3> QED
      BY <3>1, Keeps DEF FInv
  <2> QED
    BY <2>1, <2>2
<1> QED
  BY <1>1, <1>2, <1>3, <1>4, <1>5 DEF FInv

LEMMA PowerFailsFInv ==
  ASSUME FInv, PowerFails, IInv'
  PROVE  FInv'
<1>1. PICK S : /\ chip' = [s \in Sector |-> IF s \in S THEN Junk ELSE chip[s]]
               /\ Forget(S)
  BY DEF PowerFails
<1>2. /\ list' = <<>> /\ waiting' = {} /\ using' = {} /\ op' = [t \in Flash |-> None]
  BY DEF PowerFails
<1>3. NonePushed'
  BY <1>2 DEF NonePushed, Pushed, Listed
<1>4. OpOK(None) /\ None \in Op /\ None.pc = "none"
  <2>1. 0 \in Sector /\ 1 \in 1..MaxSize /\ 1 <= Sectors /\ 0 \in Nat
    BY SpiFlashAssumption DEF Sector
  <2>2. None \in Op
    BY <2>1 DEF None, Op
  <2> QED
    BY <2>1, <2>2 DEF OpOK, None
<1>5. FlashTypeOK'
  <2>1. Junk \in [0..W-1 -> SUBSET Data]
    BY DEF Junk
  <2>2. chip' \in [Sector -> [0..W-1 -> SUBSET Data]]
    BY <1>1, <2>1 DEF FInv, FlashTypeOK
  <2>3. holds' \in [Sector -> Data \cup {Unknown}]
    BY <1>1 DEF Forget, FInv, FlashTypeOK
  <2> QED
    BY <1>2, <1>4, <2>2, <2>3 DEF FlashTypeOK
<1>6. Commands'
  BY <1>2, <1>4 DEF Commands
<1>7. \A t \in Flash : ThreadOK(t)'
  BY <1>2, Away
<1>8. StoredAsWritten'
  BY <1>1 DEF FInv, StoredAsWritten, Forget
<1> QED
  BY <1>3, <1>5, <1>6, <1>7, <1>8 DEF FInv

(* The lock starts again as it started.                                     *)
LEMMA FlashNextIInv == IInv /\ [FlashNext]_allVars => IInv'
<1>1. [FlashNext]_allVars => [Next]_vars \/ Init'
  <2>1. ASSUME NEW t \in Threads, Begin(t) \/ End(t) PROVE [Next]_vars
    BY <2>1 DEF Begin, End, Next, Thread
  <2>2. ASSUME NEW t \in Flash, Transfer(t) PROVE [Next]_vars
    BY <2>2 DEF Transfer, Erase, Program, Read
  <2>3. ASSUME NEW t \in Threads, Suspend(t) \/ rt_thread_timeout(t) PROVE [Next]_vars
    BY <2>3 DEF Next, Thread
  <2>4. rt_schedule \/ SendNow \/ SendNowRelinks => [Next]_vars
    BY DEF Next
  <2>5. PowerFails => Init'
    BY Zenon DEF PowerFails, Init
  <2>6. UNCHANGED allVars => [Next]_vars
    BY DEF allVars
  <2> QED
    BY <2>1, <2>2, <2>3, <2>4, <2>5, <2>6 DEF FlashNext
<1>2. Init' => IInv'
  BY InitIInv, PTL
<1>3. IInv /\ [Next]_vars => IInv'
  BY NextIInv
<1> QED
  BY <1>1, <1>2, <1>3

LEMMA FlashNextFInv ==
  ASSUME FInv, [FlashNext]_allVars
  PROVE  FInv'
<1>1. IInv'
  BY FlashNextIInv DEF FInv
<1>2. ASSUME NEW t \in Threads, Begin(t) \/ End(t) PROVE FInv'
  BY <1>2, BeginFInv, EndFInv
<1>3. ASSUME NEW t \in Flash, Transfer(t) PROVE FInv'
  BY <1>3, EraseFInv, ProgramFInv, ReadFInv DEF Transfer
<1>4. ASSUME NEW t \in Threads, Suspend(t) \/ rt_thread_timeout(t), UNCHANGED flashVars
      PROVE  FInv'
  <2>1. [Next]_vars /\ UNCHANGED <<using, waiting, shared>>
    BY <1>4 DEF Next, Thread, Suspend, rt_thread_timeout
  <2> QED
    BY <1>4, <2>1, ElsewhereFInv
<1>5. CASE (rt_schedule \/ SendNowRelinks) /\ UNCHANGED flashVars
  <2>1. [Next]_vars /\ UNCHANGED <<using, waiting, shared>>
    BY <1>5 DEF Next, rt_schedule, SendNowRelinks
  <2> QED
    BY <1>5, <2>1, ElsewhereFInv
<1>6. CASE SendNow /\ UNCHANGED flashVars
  <2>1. [Next]_vars
    BY <1>6 DEF Next
  <2>2. rt_sem_release(Append(list, cur), using) /\ shared'
    BY <1>6 DEF SendNow
  <2>3. Append(list, cur) # <<>>
    BY ListedAppend DEF FInv, IInv, TypeOK
  <2>4. using' \cup waiting' = using \cup waiting /\ waiting' \subseteq waiting
    BY <2>2, <2>3, ReleaseMoves
  <2> QED
    BY <1>6, <2>1, <2>2, <2>4, ElsewhereFInv
<1>7. CASE PowerFails
  BY <1>1, <1>7, PowerFailsFInv
<1>8. CASE UNCHANGED allVars
  <2>1. UNCHANGED vars /\ UNCHANGED flashVars /\ UNCHANGED <<using, waiting, shared>>
    BY <1>8 DEF allVars, vars
  <2> QED
    BY <2>1, ElsewhereFInv
<1> QED
  BY <1>2, <1>3, <1>4, <1>5, <1>6, <1>7, <1>8 DEF FlashNext

LEMMA FlashInitFInv == FlashInit => FInv
<1> SUFFICES ASSUME FlashInit PROVE FInv
  OBVIOUS
<1>1. IInv /\ waiting = {} /\ using = {} /\ list = <<>>
  BY InitIInv DEF FlashInit, Init
<1>2. /\ chip = [s \in Sector |-> Blank] /\ op = [t \in Flash |-> None]
      /\ holds = [s \in Sector |-> Unknown]
  BY DEF FlashInit
<1>3. NonePushed
  BY <1>1 DEF NonePushed, Pushed, Listed
<1>4. OpOK(None) /\ None \in Op /\ None.pc = "none"
  <2>1. 0 \in Sector /\ 1 \in 1..MaxSize /\ 1 <= Sectors /\ 0 \in Nat
    BY SpiFlashAssumption DEF Sector
  <2>2. None \in Op
    BY <2>1 DEF None, Op
  <2> QED
    BY <2>1, <2>2 DEF OpOK, None
<1>5. FlashTypeOK
  BY <1>2, <1>4 DEF FlashTypeOK, Blank
<1>6. Commands
  BY <1>1, <1>2, <1>4 DEF Commands
<1>7. \A t \in Flash : ThreadOK(t)
  BY <1>1 DEF ThreadOK, Forgotten, Written, Seen, Writes, Reads
<1>8. StoredAsWritten
  BY <1>2 DEF StoredAsWritten
<1> QED
  BY <1>1, <1>3, <1>5, <1>6, <1>7, <1>8 DEF FInv

LEMMA FlashInvariance == FlashSpec => []FInv
<1>1. FInv /\ [FlashNext]_allVars => FInv'
  BY FlashNextFInv
<1> QED
  BY FlashInitFInv, <1>1, PTL DEF FlashSpec

-----------------------------------------------------------------------------

(* What the semaphore is for: without a transfer that could not wait no two *)
(* threads are on the bus.                                                  *)
THEOREM UsersExcluded == FlashSpec => []OneUser
<1>1. FInv => OneUser
  BY Excludes DEF FInv, OneUser
<1> QED
  BY <1>1, FlashInvariance, PTL

(* Each word of a sector holds the last completed write of the sector, for  *)
(* any geometry, any threads and any time the power fails                   *)
(* (sst25vfxx.c:341).                                                       *)
THEOREM FlashStores == FlashSpec => []StoredAsWritten
<1>1. FInv => StoredAsWritten
  BY DEF FInv
<1> QED
  BY <1>1, FlashInvariance, PTL

(* A read of several sectors returns the last completed write of each, for  *)
(* any number of sectors and of blocks in them (sst25vfxx.c:130).           *)
THEOREM FlashReads == FlashSpec => []ReadsBack
<1>1. ASSUME FInv, NEW t \in Flash, op[t].pc = "done", op[t].data = Unknown, ~shared,
             \A s \in Pages(op[t]) : holds[s] # Unknown
      PROVE  op[t].seen = {{holds[s]} : s \in Pages(op[t])}
  <2> DEFINE o == op[t]
  <2>1. OpOK(o) /\ o.at = o.size * W
    BY <1>1, Types DEF OpOK
  <2>2. Pages(o) \subseteq Sector
    BY <2>1, PagesAreSectors
  <2>3. Reads(t)
    <3>1. t \in using \cup waiting /\ t \notin waiting
      BY <1>1 DEF FInv, Commands, Fresh
    <3> QED
      BY <1>1, <3>1 DEF Reads
  <2>4. o.seen = {chip[x[1]][x[2]] : x \in Behind(o)}
    BY <1>1, <2>3 DEF FInv, ThreadOK, Seen
  <2>5. Behind(o) = Word(o)
    BY <2>1, PassedAll DEF Behind, Word
  <2> HIDE DEF o
  <2>6. \A s \in Pages(o), w \in 0..W-1 : chip[s][w] = {holds[s]}
    BY <1>1, <2>2 DEF FInv, StoredAsWritten, o
  <2>7. ASSUME NEW v \in o.seen PROVE v \in {{holds[s]} : s \in Pages(o)}
    <3>1. PICK x \in Word(o) : v = chip[x[1]][x[2]]
      BY <2>4, <2>5, <2>7
    <3>2. x[1] \in Pages(o) /\ x[2] \in 0..W-1
      BY DEF Word
    <3> QED
      BY <2>6, <3>1, <3>2
  <2>8. ASSUME NEW s \in Pages(o) PROVE {holds[s]} \in o.seen
    <3> DEFINE x == <<s, 0>>
    <3>1. 0 \in 0..W-1
      BY SpiFlashAssumption
    <3>2. x \in Word(o) /\ x[1] = s /\ x[2] = 0
      BY <3>1 DEF Word
    <3>3. chip[x[1]][x[2]] = {holds[s]}
      BY <2>6, <3>1, <3>2
    <3> HIDE DEF x
    <3> QED
      BY <2>4, <2>5, <3>2, <3>3
  <2>9. o.seen = {{holds[s]} : s \in Pages(o)}
    BY <2>7, <2>8
  <2> QED
    BY <2>9 DEF o
<1>2. FInv => ReadsBack
  BY <1>1 DEF ReadsBack
<1> QED
  BY <1>2, FlashInvariance, PTL

(* The lock keeps its promises with the driver on top of it, whose commands *)
(* take and release it and whose transfers lose the processor anywhere.     *)
THEOREM FlashUnitsConserved == FlashSpec => []ValueAgrees
<1>1. FInv => ValueAgrees
  BY DEF FInv, IInv
<1> QED
  BY <1>1, FlashInvariance, PTL

(* And somebody in or before a transfer can always run (spi1_lock).         *)
THEOREM FlashUserCanRun == FlashSpec => []NeverAllWait
<1>1. FInv => NeverAllWait
  BY NeverStuck DEF FInv
<1> QED
  BY <1>1, FlashInvariance, PTL
=============================================================================
