------------------------ MODULE RadioSessions_proofs ------------------------
(***************************************************************************)
(* Proofs about the two kinds of session that the network buffer fetches   *)
(* from.  Douban, for every DOUBAN_SONG_MAX: that nothing is freed twice   *)
(* is not inductive; a free is harmless because the strings of the songs   *)
(* in the list are live (ItemsOwned), and a song is only played from the   *)
(* list (SessionInList).  Shoutcast, for every size of block, chunk and    *)
(* metadata: the count follows the stream (ChunkAgrees) because a length   *)
(* byte at the end of a block begins it anew (MetaFirst).                  *)
(***************************************************************************)
EXTENDS Douban, Shoutcast, SequenceTheorems, TLAPS

-----------------------------------------------------------------------------
(* The strings of a play list: Douban.                                      *)

IInv == TypeOK /\ SessionInList /\ ItemsOwned /\ FreedOnce

(* The part of TypeOK about the flags.                                      *)
Flags ==
  /\ session \in BOOLEAN /\ got \in BOOLEAN
  /\ failed \in BOOLEAN /\ cut \in BOOLEAN

Items == [0..Max-1 -> {"null", "live", "freed"}]

-----------------------------------------------------------------------------
(* rt_free makes nothing live, and what it leaves live is not in the list.  *)
LEMMA FreedItems ==
  ASSUME items \in Items
  PROVE  /\ Freed \in Items
         /\ \A i \in 0..Max-1 : Freed[i] = "live" <=> items[i] = "live" /\ i \notin Listed
BY DEF Items, Freed

(* A parsed list gives strings to its songs but for those in without, and   *)
(* to the one it has begun; other live strings were live and not freed.     *)
LEMMA NewItemsLive ==
  ASSUME items \in Items, NEW n \in 0..Max, NEW without, NEW goesOn
  PROVE  /\ NewItems(n, without, goesOn) \in Items
         /\ \A i \in 0..Max-1 :
              NewItems(n, without, goesOn)[i] = "live" <=>
                \/ i \in (0..n-1 \ without)
                \/ goesOn /\ i = n
                \/ items[i] = "live" /\ i \notin Listed
<1> DEFINE begun == IF goesOn THEN {n} ELSE {}
           live == (0..n-1 \ without) \cup begun
<1>1. \A i \in 0..Max-1 :
        NewItems(n, without, goesOn)[i] = IF i \in live THEN "live" ELSE Freed[i]
  BY DEF NewItems
<1>2. NewItems(n, without, goesOn) = [i \in 0..Max-1 |-> NewItems(n, without, goesOn)[i]]
  BY DEF NewItems
<1>3. \A i : i \in live <=> i \in (0..n-1 \ without) \/ (goesOn /\ i = n)
  OBVIOUS
<1> HIDE DEF live
<1>4. \A i \in 0..Max-1 : NewItems(n, without, goesOn)[i] \in {"null", "live", "freed"}
  BY <1>1, FreedItems DEF Items
<1>5. NewItems(n, without, goesOn) \in Items
  BY <1>2, <1>4 DEF Items
<1> QED
  BY <1>1, <1>3, <1>5, FreedItems

-----------------------------------------------------------------------------
(* What a load does to the list, whatever the answer of the server.         *)
LEMMA LoadedList ==
  ASSUME TypeOK, ItemsOwned, Loaded
  PROVE  /\ size' \in 0..Max /\ current' = 0 /\ items' \in Items
         /\ failed' = failed /\ (cut => cut') /\ cut' \in BOOLEAN
         /\ ItemsOwned'
<1>1. PICK n \in 0..Max : \E without \in SUBSET (0..n-1), goesOn \in BOOLEAN :
        Parsed(n, without, goesOn)
  BY DEF Loaded
<1>2. PICK without \in SUBSET (0..n-1), goesOn \in BOOLEAN : Parsed(n, without, goesOn)
  BY <1>1
<1>3. items \in Items
  BY DEF TypeOK, Items
<1>4. /\ items' = NewItems(n, without, goesOn) /\ size' = n /\ current' = 0
      /\ failed' = failed
  BY <1>2 DEF Parsed
<1>5. cut' = (cut \/ without # {} \/ (goesOn /\ n < Max))
  BY <1>2 DEF Parsed
<1>6. cut' \in BOOLEAN /\ (cut => cut')
  BY <1>5, Zenon DEF TypeOK
<1>7. items' \in Items
  BY <1>3, <1>4, NewItemsLive
<1>8. ItemsOwned'
  <2> SUFFICES ASSUME ~failed', ~cut', NEW i \in 0..Max-1
               PROVE  items'[i] = "live" <=> i \in 0..n-1
    BY <1>4 DEF ItemsOwned, Listed
  <2>1. ~failed /\ ~cut /\ without = {} /\ ~(goesOn /\ n < Max)
    BY <1>4, <1>5
  <2>2. ~(items[i] = "live" /\ i \notin Listed)
    BY <2>1 DEF ItemsOwned
  <2>3. ~(goesOn /\ i = n)
    BY <2>1, DoubanAssumption
  <2> QED
    BY <1>3, <1>4, <2>1, <2>2, <2>3, NewItemsLive
<1> QED
  BY <1>4, <1>6, <1>7, <1>8

(* As long as the list owns its strings, freeing them is no fault.          *)
LEMMA OwnedNotFreed ==
  ASSUME TypeOK, ItemsOwned, ~failed, ~cut
  PROVE  ~FreesTwice /\ \A i \in Listed : items[i] = "live"
<1>1. \A i \in 0..Max-1 : (items[i] = "live") <=> (i \in Listed)
  BY Zenon DEF ItemsOwned
<1>2. \A i \in Listed : i \in 0..Max-1
  <2>1. size \in 0..Max
    BY Zenon DEF TypeOK
  <2> QED
    BY <2>1, DoubanAssumption DEF Listed
<1> QED
  BY <1>1, <1>2 DEF FreesTwice

(* The list after douban_radio_playlist_load, and the strings freed for it. *)
LEMMA LoadKeeps ==
  ASSUME IInv, NEW next \in 0..size,
         fault = "none", douban_radio_playlist_load(next)
  PROVE  /\ size' \in 0..Max /\ current' \in 0..size' /\ items' \in Items
         /\ failed' \in BOOLEAN /\ cut' \in BOOLEAN
         /\ session' = FALSE /\ fault' \in {"none", "freed twice"}
         /\ ItemsOwned' /\ FreedOnce'
<1> USE DEF IInv
<1>1. session' = FALSE /\ fault' = IF FreesTwice THEN "freed twice" ELSE "none"
  BY DEF douban_radio_playlist_load
<1>2. CASE Loaded
  <2>1. FreedOnce'
    <3>1. CASE failed \/ cut
      BY <1>2, <3>1, LoadedList, Zenon DEF FreedOnce
    <3>2. CASE ~failed /\ ~cut
      BY <1>1, <3>2, OwnedNotFreed DEF FreedOnce
    <3> QED
      BY <3>1, <3>2, Zenon
  <2>2. failed' \in BOOLEAN
    BY <1>2, LoadedList, Zenon DEF TypeOK
  <2>3. /\ size' \in 0..Max /\ current' = 0 /\ items' \in Items
        /\ cut' \in BOOLEAN /\ ItemsOwned'
    BY <1>2, LoadedList, Zenon
  <2>4. current' \in 0..size'
    BY <2>3, DoubanAssumption
  <2> QED
    BY <1>1, <2>1, <2>2, <2>3, <2>4
<1>3. CASE LoadFails(next)
  <2>1. items' \in Items
    BY <1>3, FreedItems DEF LoadFails, TypeOK, Items
  <2> QED
    BY <1>1, <1>3, <2>1 DEF LoadFails, TypeOK, ItemsOwned, FreedOnce
<1> QED
  BY <1>2, <1>3 DEF douban_radio_playlist_load

-----------------------------------------------------------------------------

LEMMA InitIInv == Init => IInv
<1> SUFFICES ASSUME Init PROVE IInv
  OBVIOUS
<1>1. Flags
  BY Zenon DEF Init, Flags
<1>2. TypeOK
  BY <1>1, DoubanAssumption DEF Init, TypeOK, Flags
<1>3. SessionInList /\ ItemsOwned /\ FreedOnce
  BY DEF Init, SessionInList, ItemsOwned, FreedOnce, Listed
<1> QED
  BY <1>2, <1>3 DEF IInv

(* The next song of the list, or the next list.                             *)
LEMMA AdvanceKeeps ==
  ASSUME IInv, NEW next \in 0..size, InRead, Advance(next)
  PROVE  IInv'
<1>1. pc = "read" /\ fault = "none"
  BY DEF InRead
<1>2. CASE next < size /\ current' = next /\ session' = FALSE
           /\ UNCHANGED <<size, items, failed, cut, pc, got, fault>>
  <2>1. TypeOK'
    BY <1>2, Zenon DEF IInv, TypeOK
  <2>2. ItemsOwned' /\ FreedOnce'
    BY <1>2, Zenon DEF IInv, ItemsOwned, FreedOnce, Listed
  <2> QED
    BY <1>2, <2>1, <2>2 DEF IInv, SessionInList
<1>3. CASE douban_radio_playlist_load(next) /\ got' = got
           /\ pc' = IF got THEN "idle" ELSE "end"
  <2>1. /\ size' \in 0..Max /\ current' \in 0..size' /\ items' \in Items
        /\ failed' \in BOOLEAN /\ cut' \in BOOLEAN
        /\ session' = FALSE /\ fault' \in {"none", "freed twice"}
        /\ ItemsOwned' /\ FreedOnce'
    BY <1>1, <1>3, LoadKeeps
  <2>2. pc' \in {"idle", "end"}
    BY <1>3, Zenon
  <2>3. session' \in BOOLEAN /\ got' \in BOOLEAN
    BY <1>3, <2>1, Zenon DEF IInv, TypeOK
  <2>4. TypeOK'
    BY <2>1, <2>2, <2>3, Zenon DEF TypeOK, Items
  <2> QED
    BY <2>1, <2>2, <2>4 DEF IInv, SessionInList
<1> QED
  BY <1>2, <1>3 DEF Advance

LEMMA ReadKeepsIInv == IInv /\ douban_radio_read => IInv'
<1> SUFFICES ASSUME IInv, douban_radio_read PROVE IInv'
  OBVIOUS
<1>0. size \in Nat /\ current \in 0..size /\ (pc = "read" => current < size)
  <2>1. size \in 0..Max /\ current \in 0..size
    BY Zenon DEF IInv, TypeOK
  <2>2. pc = "read" => current < size
    BY Zenon DEF IInv, SessionInList
  <2> QED
    BY <2>1, <2>2, DoubanAssumption
<1>1. CASE ReadPastEnd
  <2>1. /\ size' \in 0..Max /\ current' \in 0..size' /\ items' \in Items
        /\ failed' \in BOOLEAN /\ cut' \in BOOLEAN
        /\ session' = FALSE /\ fault' \in {"none", "freed twice"}
        /\ ItemsOwned' /\ FreedOnce'
    BY <1>0, <1>1, LoadKeeps DEF ReadPastEnd
  <2>2. session' \in BOOLEAN /\ got' \in BOOLEAN
    BY <1>1, <2>1, Zenon DEF ReadPastEnd, IInv, TypeOK
  <2>3. TypeOK'
    BY <1>1, <2>1, <2>2, Zenon DEF TypeOK, Items, ReadPastEnd
  <2> QED
    BY <1>1, <2>1, <2>3 DEF IInv, SessionInList, ReadPastEnd
<1>2. CASE ReadBegins
  <2>1. TypeOK' /\ ItemsOwned' /\ FreedOnce'
    BY <1>2, Zenon DEF ReadBegins, list, IInv, TypeOK, ItemsOwned, FreedOnce, Listed
  <2> QED
    BY <1>2, <2>1 DEF ReadBegins, list, IInv, SessionInList
<1>3. CASE OpenSong
  <2>1. TypeOK' /\ ItemsOwned'
    BY <1>3, Zenon DEF OpenSong, InRead, list, IInv, TypeOK, ItemsOwned, Listed
  <2>2. SessionInList'
    BY <1>0, <1>3, Zenon DEF OpenSong, InRead, list, SessionInList
  <2>3. FreedOnce'
    <3>1. CASE failed \/ cut
      BY <1>3, <3>1, Zenon DEF OpenSong, list, FreedOnce
    <3>2. CASE ~failed /\ ~cut
      <4>1. current \in Listed
        <5>1. pc = "read"
          BY <1>3, Zenon DEF OpenSong, InRead
        <5> QED
          BY <1>0, <5>1 DEF Listed
      <4>2. items[current] = "live"
        BY <3>2, <4>1, OwnedNotFreed DEF IInv
      <4> QED
        BY <1>3, <4>2 DEF OpenSong, InRead, FreedOnce
    <3> QED
      BY <3>1, <3>2, Zenon
  <2> QED
    BY <2>1, <2>2, <2>3 DEF IInv
<1>4. CASE OpenSongFails
  <2>1. pc = "read" /\ InRead
    BY <1>4 DEF OpenSongFails, InRead
  <2>2. CASE current + 1 = size /\ Advance(size)
    <3>1. size \in 0..size
      BY <1>0
    <3> QED
      BY <2>1, <2>2, <3>1, AdvanceKeeps
  <2>3. CASE current + 1 < size /\ Advance(current + 2)
    <3> DEFINE next == current + 2
    <3>1. next \in 0..size
      BY <1>0, <2>3
    <3>2. Advance(next)
      BY <2>3
    <3> HIDE DEF next
    <3> QED
      BY <2>1, <3>1, <3>2, AdvanceKeeps
  <2>4. CASE /\ current + 1 < size /\ current' = current + 1 /\ fault' = "null used"
             /\ UNCHANGED <<size, items, failed, cut, session, pc, got>>
    <3>1. current' \in 0..size' /\ current' < size'
      <4>1. size' = size /\ current' = current + 1 /\ current + 1 < size
        BY <2>4
      <4>2. current + 1 \in 0..size
        BY <1>0, <4>1
      <4> QED
        BY <4>1, <4>2, Zenon
    <3>2. TypeOK'
      BY <2>4, <3>1, Zenon DEF IInv, TypeOK
    <3>3. ItemsOwned'
      BY <2>4, Zenon DEF IInv, ItemsOwned, Listed
    <3>4. FreedOnce'
      BY <2>4 DEF FreedOnce
    <3>5. SessionInList'
      BY <2>1, <2>4, <3>1 DEF IInv, SessionInList
    <3> QED
      BY <3>2, <3>3, <3>4, <3>5 DEF IInv
  <2> QED
    BY <1>4, <2>2, <2>3, <2>4, Zenon DEF OpenSongFails
<1>5. CASE ReadSong
  <2>1. TypeOK' /\ ItemsOwned' /\ FreedOnce'
    BY <1>5, Zenon
    DEF ReadSong, InRead, list, IInv, TypeOK, ItemsOwned, FreedOnce, Listed
  <2>2. SessionInList'
    BY <1>0, <1>5, Zenon DEF ReadSong, InRead, list, SessionInList
  <2> QED
    BY <2>1, <2>2 DEF IInv
<1>6. CASE SongEnds
  <2>1. InRead /\ Advance(current + 1)
    BY <1>6 DEF SongEnds
  <2>2. current + 1 \in 0..size
    BY <1>0, <2>1 DEF InRead
  <2> QED
    BY <2>1, <2>2, AdvanceKeeps
<1> QED
  BY <1>1, <1>2, <1>3, <1>4, <1>5, <1>6 DEF douban_radio_read

LEMMA OpenKeepsIInv == IInv /\ douban_radio_open => IInv'
<1> SUFFICES ASSUME IInv, douban_radio_open PROVE IInv'
  OBVIOUS
<1>1. /\ size' \in 0..Max /\ current' = 0 /\ items' \in Items
      /\ failed' = failed /\ cut' \in BOOLEAN /\ ItemsOwned'
  BY LoadedList DEF IInv, douban_radio_open
<1>2. current' \in 0..size'
  BY <1>1, DoubanAssumption
<1>3. TypeOK'
  BY <1>1, <1>2, Zenon DEF douban_radio_open, IInv, TypeOK, Items
<1>4. SessionInList' /\ FreedOnce'
  BY Zenon DEF douban_radio_open, IInv, SessionInList, FreedOnce
<1> QED
  BY <1>1, <1>3, <1>4 DEF IInv

LEMMA CloseKeepsIInv == IInv /\ douban_radio_close => IInv'
<1> SUFFICES ASSUME IInv, douban_radio_close PROVE IInv'
  OBVIOUS
<1>1. CASE FreesTwice
  <2>1. failed \/ cut
    BY <1>1, OwnedNotFreed DEF IInv
  <2>2. fault' = "freed twice" /\ UNCHANGED <<list, session, pc, got>>
    BY <1>1 DEF douban_radio_close
  <2>3. TypeOK' /\ SessionInList' /\ ItemsOwned'
    BY <2>2, Zenon DEF list, IInv, TypeOK, SessionInList, ItemsOwned, Listed
  <2>4. FreedOnce'
    BY <2>1, <2>2, Zenon DEF list, FreedOnce
  <2> QED
    BY <2>3, <2>4 DEF IInv
<1>2. CASE ~FreesTwice
  <2>1. /\ pc' = "closed" /\ session' = FALSE /\ got' = FALSE
        /\ size' = 0 /\ current' = 0 /\ items' = [i \in 0..Max-1 |-> "null"]
        /\ failed' = FALSE /\ cut' = FALSE /\ fault' = "none"
    BY <1>2, Zenon DEF douban_radio_close
  <2>2. size' \in 0..Max /\ current' \in 0..size'
    BY <2>1, DoubanAssumption
  <2>3. items' \in [0..Max-1 -> {"null", "live", "freed"}]
    BY <2>1
  <2>4. TypeOK'
    BY <2>1, <2>2, <2>3, Zenon DEF TypeOK
  <2>5. ItemsOwned'
    BY <2>1 DEF ItemsOwned, Listed
  <2>6. SessionInList' /\ FreedOnce'
    BY <2>1, Zenon DEF SessionInList, FreedOnce
  <2> QED
    BY <2>4, <2>5, <2>6 DEF IInv
<1> QED
  BY <1>1, <1>2

-----------------------------------------------------------------------------

LEMMA IInvInductive == Spec => []IInv
<1>1. IInv /\ UNCHANGED vars => IInv'
  <2> SUFFICES ASSUME IInv, UNCHANGED vars PROVE IInv'
    OBVIOUS
  <2>1. TypeOK' /\ SessionInList'
    BY Zenon DEF vars, list, IInv, TypeOK, SessionInList
  <2>2. ItemsOwned' /\ FreedOnce'
    BY Zenon DEF vars, list, IInv, ItemsOwned, FreedOnce, Listed
  <2> QED
    BY <2>1, <2>2 DEF IInv
<1>2. IInv /\ [Next]_vars => IInv'
  BY <1>1, OpenKeepsIInv, ReadKeepsIInv, CloseKeepsIInv DEF Next
<1> QED
  BY <1>2, InitIInv, PTL DEF Spec

(* The songs of a list fit the array and the current one is among them or   *)
(* one past them, whatever the server sends.                                *)
THEOREM TypeCorrect == Spec => []TypeOK
BY IInvInductive, PTL DEF IInv

(* As long as every list was loaded and complete, the strings in memory are *)
(* those of the songs in the list.                                          *)
THEOREM ListOwnsStrings == Spec => []ItemsOwned
BY IInvInductive, PTL DEF IInv

(* No string is used after it was freed, or freed again, unless a list      *)
(* could not be loaded or was incomplete.                                   *)
THEOREM NothingFreedTwice == Spec => []FreedOnce
BY IInvInductive, PTL DEF IInv

(* A fetch has a song to play, and a session is open for that song only.    *)
THEOREM SessionOfSong == Spec => []SessionInList
BY IInvInductive, PTL DEF IInv
-----------------------------------------------------------------------------
(* The stream of a shoutcast session: Shoutcast.                            *)

Bytes == [kind : {"audio", "meta", "length", "later"}, n : Nat]

(* A block that ends with a length byte begins the count anew: the metadata *)
(* is all that stands between it and the next chunk.                        *)
MetaFirst == first_meta_size > 0 => current_meta_chunk = 0

ChunkInv == ShoutcastTypeOK /\ ChunkAgrees /\ MetaFirst

(* The part of the type that the counts are about.                          *)
LEMMA Numbers ==
  ASSUME ShoutcastTypeOK
  PROVE  /\ metaint \in Nat /\ current_meta_chunk \in Nat
         /\ first_meta_size \in Nat /\ meta \in Nat
         /\ sent \in Nat /\ sent <= metaint
         /\ Block \in Nat \ {0} /\ Unit \in Nat \ {0}
<1>1. metaint \in Nat
  BY ShoutcastAssumption DEF ShoutcastTypeOK
<1>2. \A l \in Lengths : l * Unit \in Nat
  BY ShoutcastAssumption
<1>3. first_meta_size \in Nat
  BY <1>2 DEF ShoutcastTypeOK, Sizes
<1> QED
  BY <1>1, <1>3, ShoutcastAssumption DEF ShoutcastTypeOK

(* Where the audio ends, and where it goes on.                              *)
LEMMA Places ==
  ASSUME ShoutcastTypeOK, NEW l \in Lengths
  PROVE  /\ l * Unit \in Nat /\ Audio \in Nat /\ Ends(l) \in Nat
         /\ Audio = meta + (metaint - sent) /\ Ends(l) = Audio + 1 + l * Unit
<1>1. l * Unit \in Nat
  BY ShoutcastAssumption
<1>2. Audio \in Nat
  BY Numbers DEF Audio
<1> QED
  BY <1>1, <1>2 DEF Audio, Ends

LEMMA ByteInStream ==
  ASSUME ShoutcastTypeOK, NEW l \in Lengths, NEW i \in Nat \ {0}
  PROVE  /\ ByteAt(i, l) \in Bytes
         /\ ByteAt(i, l).kind = "length" => ByteAt(i, l).n \in Lengths
<1>1. l \in Nat
  BY ShoutcastAssumption
<1>2. CASE i <= meta \/ i \in Audio+2 .. Ends(l)
  BY <1>2 DEF ByteAt, Bytes
<1>3. CASE ~(i <= meta \/ i \in Audio+2 .. Ends(l)) /\ i <= Audio
  <2>1. sent + (i - meta) - 1 \in Nat
    BY <1>3, Numbers
  <2> QED
    BY <1>3, <2>1 DEF ByteAt, Bytes
<1>4. CASE ~(i <= meta \/ i \in Audio+2 .. Ends(l)) /\ ~(i <= Audio) /\ i = Audio + 1
  <2>1. ByteAt(i, l) = [kind |-> "length", n |-> l]
    BY <1>4 DEF ByteAt
  <2> QED
    BY <1>1, <2>1 DEF Bytes
<1>5. CASE /\ ~(i <= meta \/ i \in Audio+2 .. Ends(l)) /\ ~(i <= Audio)
           /\ i # Audio + 1 /\ i <= Ends(l) + metaint
  <2>1. i - Ends(l) - 1 \in Nat
    BY <1>5, Places
  <2> QED
    BY <1>5, <2>1 DEF ByteAt, Bytes
<1>6. CASE /\ ~(i <= meta \/ i \in Audio+2 .. Ends(l)) /\ ~(i <= Audio)
           /\ i # Audio + 1 /\ ~(i <= Ends(l) + metaint)
  BY <1>6 DEF ByteAt, Bytes
<1> QED
  BY <1>2, <1>3, <1>4, <1>5, <1>6

LEMMA LenOfBlock ==
  ASSUME NEW S, NEW n \in Nat, NEW block \in [1..n -> S]
  PROVE  block \in Seq(S) /\ Len(block) = n
<1>1. block \in Seq(S)
  BY SeqDef
<1>2. Len(block) \in Nat /\ 1..n = 1..Len(block)
  BY <1>1, LenProperties
<1>3. ASSUME NEW m \in Nat, 1..n = 1..m PROVE n = m
  <2>1. m > 0 => m \in 1..n
    BY <1>3
  <2>2. n > 0 => n \in 1..m
    BY <1>3
  <2> QED
    BY <2>1, <2>2
<1> QED
  BY <1>1, <1>2, <1>3

(* What recv brings: k bytes of the stream.                                 *)
LEMMA BlockReceived ==
  ASSUME ShoutcastTypeOK, NEW k \in Nat, NEW l \in Lengths
  PROVE  /\ Received(k, l) \in Seq(Bytes) /\ Len(Received(k, l)) = k
         /\ \A i \in 1..k : Received(k, l)[i] \in Bytes
         /\ metaint > 0 => \A i \in 1..k : Received(k, l)[i] = ByteAt(i, l)
<1> DEFINE byte(i) == IF metaint = 0 THEN [kind |-> "audio", n |-> 0] ELSE ByteAt(i, l)
<1>1. \A i \in 1..k : byte(i) \in Bytes
  <2>1. ASSUME NEW i \in 1..k PROVE byte(i) \in Bytes
    <3>1. ByteAt(i, l) \in Bytes
      BY ByteInStream
    <3>2. [kind |-> "audio", n |-> 0] \in Bytes
      BY DEF Bytes
    <3> QED
      BY <3>1, <3>2
  <2> QED
    BY <2>1
<1>2. Received(k, l) = [i \in 1..k |-> byte(i)]
  BY DEF Received
<1>3. \A i \in 1..k : metaint > 0 => byte(i) = ByteAt(i, l)
  OBVIOUS
<1> HIDE DEF byte
<1>4. Received(k, l) \in [1..k -> Bytes] /\ \A i \in 1..k : Received(k, l)[i] = byte(i)
  BY <1>1, <1>2
<1>5. Received(k, l) \in Seq(Bytes) /\ Len(Received(k, l)) = k
  BY <1>4, LenOfBlock
<1> QED
  BY <1>1, <1>3, <1>4, <1>5

(* A length read from the stream is one that servers send.                  *)
LEMMA SizesOfStream ==
  ASSUME ShoutcastTypeOK, NEW byte \in Bytes, byte.kind = "length" => byte.n \in Lengths
  PROVE  SizeIn(byte) \subseteq Sizes
BY DEF SizeIn, Sizes

(* The server's place after k bytes: in the chunk, or in the next one.      *)
LEMMA SendsChunk ==
  ASSUME ShoutcastTypeOK, NEW k \in Nat, NEW l \in Lengths, Sends(k, l), k <= Audio
  PROVE  meta' = meta - Least(k, meta) /\ sent' = sent + (k - Least(k, meta))
<1>1. ~(k > Audio) /\ ~(k > Ends(l) + metaint)
  BY Numbers, Places
<1> QED
  BY <1>1, Zenon DEF Sends

LEMMA SendsNext ==
  ASSUME ShoutcastTypeOK, NEW k \in Nat, NEW l \in Lengths, Sends(k, l),
         k > Audio, k <= Ends(l) + metaint
  PROVE  meta' = Ends(l) - Least(k, Ends(l)) /\ sent' = k - Least(k, Ends(l))
<1>1. ~(k <= Audio) /\ ~(k > Ends(l) + metaint)
  BY Numbers, Places
<1> QED
  BY <1>1, Zenon DEF Sends

LEMMA SendsKeepsType ==
  ASSUME ShoutcastTypeOK, NEW k \in Nat, NEW l \in Lengths, Sends(k, l)
  PROVE  sent' \in 0..metaint /\ meta' \in Nat
<1>1. CASE k <= Audio
  BY <1>1, SendsChunk, Numbers, Places DEF Least
<1>2. CASE k > Audio /\ k <= Ends(l) + metaint
  BY <1>2, SendsNext, Numbers, Places DEF Least
<1>3. CASE k > Ends(l) + metaint
  <2>1. ~(k <= Audio) /\ ~(k <= Ends(l) + metaint)
    BY <1>3, Numbers, Places
  <2>2. (\E m \in Lengths : meta' \in 0..m * Unit) /\ sent' \in 0..metaint
    BY <2>1, Zenon DEF Sends
  <2> QED
    BY <2>2
<1> QED
  BY <1>1, <1>2, <1>3, Numbers, Places

(* Counting round a chunk.                                                  *)
LEMMA Round ==
  ASSUME NEW m \in Nat \ {0}, NEW x \in Nat
  PROVE  /\ x < m => x % m = x
         /\ x <= m => (m + x) % m = x % m
<1>1. x < m => x % m = x /\ (m + x) % m = x
  OBVIOUS
<1>2. m % m = 0 /\ (m + m) % m = 0
  OBVIOUS
<1> QED
  BY <1>1, <1>2

-----------------------------------------------------------------------------
(* A block that was read well: the counts are where the stream is, and the  *)
(* bytes are the audio in between.                                          *)
WellRead ==
  ~lost' /\ misread' = "none" =>
    /\ first_meta_size' = meta' /\ current_meta_chunk' = sent'
    /\ AudioBetween(kept', sent, sent')

(* What every read keeps.                                                   *)
CountsKept ==
  /\ current_meta_chunk' \in Nat
  /\ current_meta_chunk' > metaint => lost' /\ current_meta_chunk' < Block
  /\ lost' \in BOOLEAN
  /\ first_meta_size' \in Sizes \cup {0}
  /\ first_meta_size' > 0 => current_meta_chunk' = 0
  /\ kept' \in Seq(Bytes)
  /\ misread' \in {"none", "short", "split", "before", "unsized"}

(* A read that fails returns what the last one did and leaves the counts.   *)
LEMMA FailsKeeps ==
  ASSUME ShoutcastTypeOK, MetaFirst, metaint > 0,
         NEW what \in {"short", "split", "before", "unsized"}, Fails(what)
  PROVE  CountsKept /\ WellRead
<1>1. /\ misread' = what
      /\ UNCHANGED <<first_meta_size, current_meta_chunk, kept, lost>>
  BY DEF Fails
<1>2. lost' \in BOOLEAN
  BY <1>1, Zenon DEF ShoutcastTypeOK
<1>3. current_meta_chunk' > metaint => lost' /\ current_meta_chunk' < Block
  BY <1>1, Zenon DEF ShoutcastTypeOK
<1> QED
  BY <1>1, <1>2, <1>3, Numbers DEF CountsKept, WellRead, ShoutcastTypeOK, MetaFirst, Bytes

(* The count of what remains of a block.                                    *)
LEMMA CountsFrom ==
  ASSUME ShoutcastTypeOK, NEW rest \in Nat, rest < Block, CountFrom(rest)
  PROVE  /\ current_meta_chunk' = rest /\ current_meta_chunk' \in Nat
         /\ current_meta_chunk' > metaint => lost' /\ current_meta_chunk' < Block
         /\ lost' \in BOOLEAN /\ (lost' <=> lost \/ rest > metaint)
<1>1. current_meta_chunk' = rest
  BY DEF CountFrom
<1>2. lost' \in BOOLEAN /\ (lost' <=> lost \/ rest > metaint)
  BY Zenon DEF CountFrom
<1> QED
  BY <1>1, <1>2

LEMMA SkipReads ==
  ASSUME ChunkInv, open, misread = "none", metaint > 0,
         NEW k \in 0..Block, NEW l \in Lengths, first_meta_size > 0,
         Skip(k, Received(k, l)), Sends(k, l)
  PROVE  CountsKept /\ WellRead
<1> DEFINE received == Received(k, l)
<1>1. /\ ShoutcastTypeOK /\ MetaFirst
      /\ ~lost => first_meta_size = meta /\ current_meta_chunk = sent
      /\ first_meta_size > 0 => current_meta_chunk = 0
  BY DEF ChunkInv, ChunkAgrees, MetaFirst
<1>2. CASE k < first_meta_size
  BY <1>1, <1>2, FailsKeeps DEF Skip
<1>3. CASE ~(k < first_meta_size)
  <2>1. /\ kept' = SubSeq(received, first_meta_size + 1, k)
        /\ CountFrom(k - first_meta_size)
        /\ first_meta_size' = 0 /\ UNCHANGED misread
    BY <1>3 DEF Skip
  <2>0. k - first_meta_size \in Nat /\ k - first_meta_size < Block
    BY <1>1, <1>3, Numbers
  <2>00. /\ current_meta_chunk' = k - first_meta_size /\ current_meta_chunk' \in Nat
         /\ current_meta_chunk' > metaint => lost' /\ current_meta_chunk' < Block
         /\ lost' \in BOOLEAN /\ (lost' <=> lost \/ k - first_meta_size > metaint)
    BY <1>1, <2>0, <2>1, CountsFrom
  <2>2. /\ \A i \in 1..k : received[i] \in Bytes /\ received[i] = ByteAt(i, l)
    BY <1>1, BlockReceived
  <2> HIDE DEF received
  <2>3. \A i \in first_meta_size + 1 .. k : received[i] \in Bytes
    BY <1>1, <2>2, Numbers
  <2>4. /\ SubSeq(received, first_meta_size + 1, k) \in Seq(Bytes)
        /\ Len(SubSeq(received, first_meta_size + 1, k)) = k - first_meta_size
        /\ \A i \in 1..k - first_meta_size :
             SubSeq(received, first_meta_size + 1, k)[i] = received[first_meta_size + i]
    <3>1. /\ SubSeq(received, first_meta_size + 1, k) \in Seq(Bytes)
          /\ Len(SubSeq(received, first_meta_size + 1, k)) =
               IF first_meta_size + 1 <= k THEN k - (first_meta_size + 1) + 1 ELSE 0
          /\ \A i \in 1..k - (first_meta_size + 1) + 1 :
               SubSeq(received, first_meta_size + 1, k)[i]
                 = received[first_meta_size + 1 + i - 1]
      BY <1>1, <2>3, Numbers, SubSeqProperties
    <3>2. first_meta_size \in Nat /\ k \in Nat /\ first_meta_size <= k
      BY <1>1, <1>3, Numbers
    <3>3. Len(SubSeq(received, first_meta_size + 1, k)) = k - first_meta_size
      BY <3>1, <3>2
    <3>4. ASSUME NEW i \in 1..k - first_meta_size
          PROVE  /\ i \in 1..k - (first_meta_size + 1) + 1
                 /\ first_meta_size + 1 + i - 1 = first_meta_size + i
      BY <3>2
    <3> QED
      BY <3>1, <3>3, <3>4
  <2>5. CountsKept
    BY <1>1, <2>00, <2>1, <2>4, Numbers DEF CountsKept, ShoutcastTypeOK
  <2>6. ASSUME ~lost'
        PROVE  /\ meta' = 0 /\ sent' = k - first_meta_size
               /\ AudioBetween(kept', sent, sent')
    <3>1. first_meta_size = meta /\ sent = 0 /\ k - first_meta_size <= metaint
      BY <1>1, <2>0, <2>00, <2>6, Numbers
    <3>2. k <= Audio /\ Audio = meta + metaint
      BY <1>1, <3>1, Numbers, Places
    <3>3. meta' = 0 /\ sent' = k - meta
      BY <1>1, <1>3, <3>1, <3>2, SendsChunk, Numbers DEF Least
    <3>4. ASSUME NEW i \in 1..k-meta
          PROVE  kept'[i] = [kind |-> "audio", n |-> (sent + i - 1) % metaint]
      <4>1. meta + i \in 1..k
        BY <1>1, Numbers
      <4>2. kept'[i] = ByteAt(meta + i, l)
        BY <2>1, <2>2, <2>4, <3>1, <4>1
      <4>3. ByteAt(meta + i, l) = [kind |-> "audio", n |-> i - 1]
        BY <1>1, <3>1, <3>2, <4>1, Numbers DEF ByteAt
      <4>4. (sent + i - 1) % metaint = i - 1
        <5>1. i - 1 \in Nat /\ i - 1 < metaint /\ metaint \in Nat \ {0}
          BY <1>1, <3>1, Numbers
        <5>2. (i - 1) % metaint = i - 1
          BY <5>1, Round
        <5>3. sent + i - 1 = i - 1
          BY <3>1
        <5> QED
          BY <5>2, <5>3
      <4> QED
        BY <4>2, <4>3, <4>4
    <3>5. Len(kept') = k - meta
      BY <2>1, <2>4, <3>1
    <3>6. (sent + Len(kept')) % metaint = sent' % metaint
      BY <3>1, <3>3, <3>5, <1>1, Numbers
    <3> QED
      BY <3>1, <3>3, <3>4, <3>5, <3>6 DEF AudioBetween
  <2> QED
    BY <2>00, <2>1, <2>5, <2>6 DEF WellRead
<1> QED
  BY <1>2, <1>3

(* Before the length byte there is audio.                                   *)
LEMMA AudioFirst ==
  ASSUME ShoutcastTypeOK, metaint > 0, meta = 0, NEW l \in Lengths,
         NEW i \in Nat \ {0}, i <= metaint - sent
  PROVE  ByteAt(i, l) = [kind |-> "audio", n |-> (sent + i - 1) % metaint]
<1>1. Audio = metaint - sent /\ i <= Audio
  BY Numbers, Places
<1>2. ByteAt(i, l) = [kind |-> "audio", n |-> sent + i - 1]
  BY <1>1, Numbers DEF ByteAt
<1>3. sent + i - 1 \in Nat /\ sent + i - 1 < metaint /\ metaint \in Nat \ {0}
  BY Numbers
<1>4. (sent + i - 1) % metaint = sent + i - 1
  BY <1>3, Round
<1> QED
  BY <1>2, <1>4

(* Behind the metadata there is the audio of the next chunk.                *)
LEMMA AudioBehind ==
  ASSUME ShoutcastTypeOK, metaint > 0, meta = 0, NEW l \in Lengths,
         NEW i \in Nat \ {0}, i <= metaint
  PROVE  ByteAt(Ends(l) + i, l)
           = [kind |-> "audio", n |-> (sent + (metaint - sent + i) - 1) % metaint]
<1>1. Audio \in Nat /\ Ends(l) \in Nat /\ Ends(l) >= Audio + 1
  BY Places
<1>2. ByteAt(Ends(l) + i, l) = [kind |-> "audio", n |-> Ends(l) + i - Ends(l) - 1]
  BY <1>1, Numbers DEF ByteAt
<1>3. Ends(l) + i - Ends(l) - 1 = i - 1
  BY <1>1
<1>4. i - 1 \in Nat /\ i - 1 < metaint /\ metaint \in Nat \ {0}
  BY Numbers
<1>5. (metaint + (i - 1)) % metaint = i - 1
  <2>1. (metaint + (i - 1)) % metaint = (i - 1) % metaint
    BY <1>4, Round
  <2> QED
    BY <1>4, <2>1, Round
<1>6. sent + (metaint - sent + i) - 1 = metaint + (i - 1)
  BY Numbers
<1> QED
  BY <1>2, <1>3, <1>5, <1>6

LEMMA CountReads ==
  ASSUME ChunkInv, open, misread = "none", metaint > 0,
         NEW k \in 0..Block, NEW l \in Lengths, first_meta_size = 0,
         Count(k, Received(k, l)), Sends(k, l)
  PROVE  CountsKept /\ WellRead
<1>1. /\ ShoutcastTypeOK /\ (~lost => meta = 0 /\ current_meta_chunk = sent)
  BY DEF ChunkInv, ChunkAgrees
<1>2. /\ current_meta_chunk + k < metaint /\ kept' = Received(k, l)
      /\ current_meta_chunk' = current_meta_chunk + k
      /\ UNCHANGED <<first_meta_size, lost, misread>>
  BY DEF Count
<1>3. Received(k, l) \in Seq(Bytes) /\ Len(Received(k, l)) = k
  BY <1>1, BlockReceived
<1>4. CountsKept
  <2>1. lost' \in BOOLEAN
    BY <1>1, <1>2, Zenon DEF ShoutcastTypeOK
  <2>2. current_meta_chunk' \in Nat /\ ~(current_meta_chunk' > metaint)
    BY <1>1, <1>2, Numbers
  <2> QED
    BY <1>1, <1>2, <1>3, <2>1, <2>2, Numbers DEF CountsKept, ShoutcastTypeOK
<1>5. ASSUME ~lost'
      PROVE  /\ meta' = 0 /\ sent' = sent + k /\ current_meta_chunk = sent
             /\ AudioBetween(kept', sent, sent')
  <2>1. meta = 0 /\ current_meta_chunk = sent /\ k <= metaint - sent
    BY <1>1, <1>2, <1>5, Numbers
  <2>2. meta' = 0 /\ sent' = sent + k
    <3>1. Audio = metaint - sent /\ k <= Audio
      BY <1>1, <2>1, Numbers, Places
    <3> QED
      BY <1>1, <2>1, <3>1, SendsChunk, Numbers DEF Least
  <2>3. ASSUME NEW i \in 1..k
        PROVE  kept'[i] = [kind |-> "audio", n |-> (sent + i - 1) % metaint]
    <3>1. i \in 1..k /\ i \in Nat \ {0} /\ i <= metaint - sent
      BY <1>1, <2>1, Numbers
    <3>2. kept'[i] = ByteAt(i, l)
      BY <1>1, <1>2, <3>1, BlockReceived
    <3> QED
      BY <1>1, <2>1, <3>1, <3>2, AudioFirst
  <2> QED
    BY <1>2, <1>3, <2>1, <2>2, <2>3 DEF AudioBetween
<1> QED
  BY <1>2, <1>4, <1>5 DEF WellRead

LEMMA RemoveReads ==
  ASSUME ChunkInv, open, misread = "none", metaint > 0,
         NEW k \in 0..Block, NEW l \in Lengths, first_meta_size = 0,
         current_meta_chunk <= metaint, current_meta_chunk + k > metaint,
         Remove(k, Received(k, l)), Sends(k, l)
  PROVE  CountsKept /\ WellRead
<1> DEFINE received == Received(k, l)
           at == metaint - current_meta_chunk
<1>1. /\ ShoutcastTypeOK /\ MetaFirst
      /\ ~lost => meta = 0 /\ current_meta_chunk = sent
  BY DEF ChunkInv, ChunkAgrees
<1>2. at \in Nat /\ at < k
  BY <1>1, Numbers
<1>3. \A i \in 1..k : received[i] \in Bytes /\ received[i] = ByteAt(i, l)
  BY <1>1, BlockReceived
<1> HIDE DEF received
<1>4. PICK bytes \in SizeIn(received[at + 1]) :
        IF k < at + bytes + 1 THEN Fails("split")
        ELSE /\ kept' = SubSeq(received, 1, at) \o SubSeq(received, at + bytes + 2, k)
             /\ CountFrom(k - at - (bytes + 1))
             /\ UNCHANGED <<first_meta_size, misread>>
  BY DEF Remove, received
<1>5. bytes \in Nat
  <2>1. \A m \in Lengths : m * Unit \in Nat
    BY ShoutcastAssumption
  <2>2. Sizes \subseteq Nat
    BY <2>1 DEF Sizes
  <2>3. at + 1 \in 1..k /\ at + 1 \in Nat \ {0}
    BY <1>2
  <2>4. SizeIn(received[at + 1]) \subseteq Sizes
    BY <1>1, <1>3, <2>3, ByteInStream, SizesOfStream
  <2> QED
    BY <2>2, <2>4
<1> HIDE DEF at
<1>6. CASE k < at + bytes + 1
  BY <1>1, <1>4, <1>6, FailsKeeps
<1>7. CASE ~(k < at + bytes + 1)
  <2>1. /\ kept' = SubSeq(received, 1, at) \o SubSeq(received, at + bytes + 2, k)
        /\ CountFrom(k - at - (bytes + 1))
        /\ UNCHANGED <<first_meta_size, misread>>
    BY <1>4, <1>7
  <2> DEFINE before == SubSeq(received, 1, at)
             behind == SubSeq(received, at + bytes + 2, k)
             rest == k - at - (bytes + 1)
  <2>2. rest \in Nat /\ rest < Block
    BY <1>1, <1>2, <1>5, <1>7, Numbers
  <2>22. /\ current_meta_chunk' = rest /\ current_meta_chunk' \in Nat
         /\ current_meta_chunk' > metaint => lost' /\ current_meta_chunk' < Block
         /\ lost' \in BOOLEAN /\ (lost' <=> lost \/ rest > metaint)
    BY <1>1, <2>1, <2>2, CountsFrom
  <2>3. /\ before \in Seq(Bytes) /\ Len(before) = at
        /\ \A i \in 1..at : before[i] = received[i]
    <3>1. \A i \in 1..at : received[i] \in Bytes
      BY <1>2, <1>3
    <3>2. /\ before \in Seq(Bytes)
          /\ Len(before) = IF 1 <= at THEN at - 1 + 1 ELSE 0
          /\ \A i \in 1..at-1+1 : before[i] = received[1 + i - 1]
      BY <1>2, <3>1, SubSeqProperties
    <3> HIDE DEF before
    <3>3. Len(before) = at
      BY <1>2, <3>2
    <3>4. ASSUME NEW i \in 1..at PROVE i \in 1..at-1+1 /\ 1 + i - 1 = i
      BY <1>2
    <3> QED
      BY <3>2, <3>3, <3>4
  <2>4. /\ behind \in Seq(Bytes) /\ Len(behind) = rest
        /\ \A i \in 1..rest : behind[i] = received[at + bytes + 1 + i]
    <3>1. \A i \in at + bytes + 2 .. k : received[i] \in Bytes
      BY <1>2, <1>3, <1>5
    <3>2. /\ behind \in Seq(Bytes)
          /\ Len(behind) = IF at + bytes + 2 <= k THEN k - (at + bytes + 2) + 1 ELSE 0
          /\ \A i \in 1..k-(at + bytes + 2)+1 : behind[i] = received[at + bytes + 2 + i - 1]
      BY <1>2, <1>5, <3>1, SubSeqProperties
    <3> HIDE DEF behind
    <3>3. Len(behind) = rest
      BY <1>2, <1>5, <1>7, <3>2
    <3>4. ASSUME NEW i \in 1..rest
          PROVE  i \in 1..k-(at + bytes + 2)+1 /\ at + bytes + 2 + i - 1 = at + bytes + 1 + i
      BY <1>2, <1>5
    <3> HIDE DEF rest
    <3> QED
      BY <3>2, <3>3, <3>4
  <2> HIDE DEF before, behind
  <2>5. /\ kept' \in Seq(Bytes) /\ Len(kept') = at + rest
        /\ \A i \in 1..at+rest :
             kept'[i] = IF i <= at THEN before[i] ELSE behind[i - at]
    <3> HIDE DEF rest
    <3>1. kept' = before \o behind
      BY <2>1 DEF before, behind
    <3>2. /\ before \o behind \in Seq(Bytes)
          /\ Len(before \o behind) = Len(before) + Len(behind)
          /\ \A i \in 1..Len(before)+Len(behind) :
               (before \o behind)[i] =
                 IF i <= Len(before) THEN before[i] ELSE behind[i - Len(before)]
      BY <2>3, <2>4, ConcatProperties
    <3>3. Len(before) = at /\ Len(behind) = rest
      BY <2>3, <2>4
    <3> QED
      BY Zenon, <3>1, <3>2, <3>3
  <2>6. CountsKept
    <3> HIDE DEF rest
    <3>1. first_meta_size' \in Sizes \cup {0} /\ first_meta_size' = 0
      BY <1>1, <2>1
    <3>2. misread' \in {"none", "short", "split", "before", "unsized"}
      BY <2>1
    <3>3. first_meta_size' > 0 => current_meta_chunk' = 0
      BY <3>1
    <3> QED
      BY <2>22, <2>5, <3>1, <3>2, <3>3, Zenon DEF CountsKept
  <2>7. ASSUME ~lost'
        PROVE  /\ meta' = 0 /\ sent' = rest
               /\ AudioBetween(kept', sent, sent')
    <3>0. ~lost /\ rest <= metaint
      <4> HIDE DEF rest
      <4> QED
        BY <1>1, <2>2, <2>22, <2>7, Numbers
    <3>1. meta = 0 /\ current_meta_chunk = sent
      BY <1>1, <3>0
    <3>2. Audio = at /\ at = metaint - sent
      BY <1>1, <3>1, Numbers, Places DEF at
    <3>3. bytes = l * Unit
      <4>1. at + 1 \in 1..k
        BY <1>2
      <4>2. received[at + 1] = ByteAt(at + 1, l)
        BY <1>3, <4>1
      <4>3. ByteAt(at + 1, l) = [kind |-> "length", n |-> l]
        BY <1>1, <1>2, <3>1, <3>2, Numbers, Places DEF ByteAt
      <4> QED
        BY <1>4, <4>2, <4>3 DEF SizeIn
    <3>4. Ends(l) = at + bytes + 1 /\ Ends(l) \in Nat
      BY <1>1, <1>2, <1>5, <3>2, <3>3, Places
    <3>5. meta' = 0 /\ sent' = rest
      <4>1. k > Audio /\ k <= Ends(l) + metaint /\ k >= Ends(l)
        BY <1>1, <1>2, <1>5, <1>7, <3>0, <3>2, <3>4, Numbers
      <4>2. meta' = Ends(l) - Least(k, Ends(l)) /\ sent' = k - Least(k, Ends(l))
        BY <1>1, <4>1, SendsNext
      <4> QED
        BY <1>2, <1>5, <3>4, <4>1, <4>2 DEF Least
    <3>6. ASSUME NEW i \in 1..at+rest
          PROVE  kept'[i] = [kind |-> "audio", n |-> (sent + i - 1) % metaint]
      <4>1. CASE i <= at
        <5>1. i \in 1..at /\ i \in 1..k /\ i \in Nat \ {0} /\ i <= metaint - sent
          BY <1>2, <3>2, <4>1
        <5>2. kept'[i] = ByteAt(i, l)
          BY <1>3, <2>3, <2>5, <4>1, <5>1
        <5> QED
          BY <1>1, <3>1, <5>1, <5>2, AudioFirst
      <4>2. CASE ~(i <= at)
        <5> DEFINE j == i - at
        <5>1. /\ j \in 1..rest /\ at + bytes + 1 + j \in 1..k
              /\ j \in Nat \ {0} /\ j <= metaint /\ metaint - sent + j = i
          BY <1>1, <1>2, <1>5, <2>2, <3>0, <3>2, <4>2, Numbers
        <5>2. kept'[i] = behind[j]
          BY <2>5, <4>2
        <5> HIDE DEF j, rest
        <5>3. kept'[i] = ByteAt(Ends(l) + j, l)
          BY <1>3, <2>4, <3>4, <5>1, <5>2
        <5>4. ByteAt(Ends(l) + j, l)
                = [kind |-> "audio", n |-> (sent + (metaint - sent + j) - 1) % metaint]
          BY <1>1, <3>1, <5>1, AudioBehind
        <5> QED
          BY <5>1, <5>3, <5>4
      <4> QED
        BY <4>1, <4>2
    <3>7. (sent + Len(kept')) % metaint = sent' % metaint
      <4>1. rest \in Nat /\ rest <= metaint /\ metaint \in Nat \ {0}
        BY <1>1, <2>2, <3>0, Numbers
      <4>2. sent + Len(kept') = metaint + rest
        <5> HIDE DEF rest
        <5>1. sent + at = metaint
          BY <1>1, <3>2, Numbers
        <5>2. sent + (at + rest) = (sent + at) + rest
          BY <1>1, <1>2, <2>2, Numbers
        <5> QED
          BY <2>5, <5>1, <5>2
      <4> HIDE DEF rest
      <4>3. (metaint + rest) % metaint = rest % metaint
        BY <4>1, Round
      <4> QED
        BY <3>5, <4>2, <4>3
    <3> HIDE DEF rest
    <3> QED
      BY <2>5, <3>5, <3>6, <3>7 DEF AudioBetween
  <2> QED
    BY <1>1, <2>1, <2>22, <2>6, <2>7 DEF WellRead
<1> QED
  BY <1>6, <1>7

-----------------------------------------------------------------------------
(* The steps.                                                               *)

(* In a session without metadata every read fails, but for empty ones.      *)
LEMMA UnsizedReads ==
  ASSUME ChunkInv, misread = "none", metaint = 0,
         NEW k \in 0..Block, NEW l \in Lengths,
         first_meta_size > 0 \/ current_meta_chunk + k # metaint,
         ReadBlock(k, Received(k, l))
  PROVE  /\ UNCHANGED <<first_meta_size, current_meta_chunk, kept, lost>>
         /\ misread' \in {"short", "unsized"}
<1>1. ShoutcastTypeOK
  BY DEF ChunkInv
<1>2. current_meta_chunk = 0
  BY <1>1, Numbers DEF ShoutcastTypeOK
<1>3. k > 0 \/ first_meta_size > 0
  BY <1>1, <1>2, Numbers
<1>4. CASE k > 0
  BY <1>4 DEF ReadBlock, Fails
<1>5. CASE ~(k > 0)
  <2>1. Skip(k, Received(k, l)) /\ k < first_meta_size
    BY <1>3, <1>5, <1>1, Numbers DEF ReadBlock
  <2> QED
    BY <2>1 DEF Skip, Fails
<1> QED
  BY <1>4, <1>5

LEMMA SizedReads ==
  ASSUME ChunkInv, open, misread = "none", metaint > 0,
         NEW k \in 0..Block, NEW l \in Lengths,
         first_meta_size > 0 \/ current_meta_chunk + k # metaint,
         ReadBlock(k, Received(k, l)), Sends(k, l)
  PROVE  CountsKept /\ WellRead
<1>1. ShoutcastTypeOK
  BY DEF ChunkInv
<1>2. CASE first_meta_size > 0
  <2>1. Skip(k, Received(k, l))
    BY <1>2 DEF ReadBlock
  <2> QED
    BY <1>2, <2>1, SkipReads
<1>3. CASE ~(first_meta_size > 0)
  <2>1. first_meta_size = 0
    BY <1>1, <1>3, Numbers
  <2>2. CASE current_meta_chunk > metaint
    <3>1. Fails("before")
      BY <1>3, <2>2 DEF ReadBlock
    <3> QED
      BY <1>1, <3>1, FailsKeeps DEF ChunkInv
  <2>3. CASE ~(current_meta_chunk > metaint) /\ current_meta_chunk + k > metaint
    <3>1. Remove(k, Received(k, l))
      BY <1>3, <2>3 DEF ReadBlock
    <3>2. current_meta_chunk <= metaint
      BY <1>1, <2>3, Numbers
    <3> QED
      BY <2>1, <2>3, <3>1, <3>2, RemoveReads
  <2>4. CASE ~(current_meta_chunk > metaint) /\ ~(current_meta_chunk + k > metaint)
    <3>1. Count(k, Received(k, l))
      BY <1>3, <2>4 DEF ReadBlock
    <3> QED
      BY <2>1, <3>1, CountReads
  <2> QED
    BY <2>2, <2>3, <2>4
<1> QED
  BY <1>2, <1>3

(* The invariant after a step that keeps the session.                       *)
LEMMA ChunkKept ==
  ASSUME ChunkInv, metaint > 0, UNCHANGED <<metaint, open>>,
         CountsKept, WellRead, sent' \in 0..metaint, meta' \in Nat
  PROVE  ChunkInv'
<1>1. open' \in BOOLEAN
  BY Zenon DEF ChunkInv, ShoutcastTypeOK
<1>2. metaint \in Nat
  BY Numbers DEF ChunkInv
<1>3. metaint' > 0
  BY <1>2
<1>4. ShoutcastTypeOK'
  BY Zenon, <1>1, <1>3 DEF ChunkInv, ShoutcastTypeOK, CountsKept, Bytes, Sizes
<1>5. ChunkAgrees' /\ MetaFirst'
  BY Zenon DEF ChunkAgrees, MetaFirst, WellRead, CountsKept
<1> QED
  BY Zenon, <1>4, <1>5 DEF ChunkInv

LEMMA ReadSteps ==
  ASSUME ChunkInv, shoutcast_session_read
  PROVE  ChunkInv' /\ (metaint > 0 => WellRead)
<1>0. ShoutcastTypeOK
  BY DEF ChunkInv
<1>1. PICK k \in 0..Block, l \in Lengths :
        /\ first_meta_size > 0 \/ current_meta_chunk + k # metaint
        /\ ReadBlock(k, Received(k, l))
        /\ IF metaint = 0 THEN UNCHANGED server ELSE Sends(k, l)
  BY DEF shoutcast_session_read
<1>2. open /\ misread = "none" /\ UNCHANGED <<metaint, open>>
  BY Zenon DEF shoutcast_session_read, Reading
<1>3. CASE metaint = 0
  <2>1. /\ UNCHANGED <<first_meta_size, current_meta_chunk, kept, lost, server>>
        /\ misread' \in {"short", "unsized"}
    BY <1>1, <1>2, <1>3, UnsizedReads
  <2>2. misread' # "none" /\ misread' \in {"none", "short", "split", "before", "unsized"}
    BY <2>1
  <2>3. ChunkInv'
    BY Zenon, <1>2, <2>1, <2>2
    DEF server, ChunkInv, ShoutcastTypeOK, ChunkAgrees, MetaFirst
  <2> QED
    BY <1>0, <1>3, <2>3, Numbers
<1>4. CASE metaint > 0
  <2>1. metaint # 0 /\ Sends(k, l)
    BY <1>1, <1>4
  <2>2. CountsKept /\ WellRead
    BY <1>1, <1>2, <1>4, <2>1, SizedReads
  <2>3. sent' \in 0..metaint /\ meta' \in Nat
    BY <1>0, <2>1, SendsKeepsType
  <2> QED
    BY Zenon, <1>2, <1>4, <2>2, <2>3, ChunkKept
<1> QED
  BY <1>0, <1>3, <1>4, Numbers

LEMMA WholeSteps ==
  ASSUME ChunkInv, shoutcast_session_readWhole
  PROVE  ChunkInv' /\ (metaint > 0 => WellRead)
<1>0. /\ ShoutcastTypeOK /\ open /\ misread = "none" /\ first_meta_size = 0
      /\ UNCHANGED <<metaint, open, misread>> /\ current_meta_chunk' = 0
  BY Zenon DEF ChunkInv, shoutcast_session_readWhole, Reading
<1>1. PICK k \in 0..Block, l \in Lengths :
        /\ current_meta_chunk + k = metaint
        /\ kept' = Received(k, l)
        /\ \/ /\ IF metaint = 0 THEN UNCHANGED server ELSE Sends(k + 1, l)
              /\ first_meta_size' \in
                   IF metaint = 0 THEN {m * Unit : m \in Lengths}
                   ELSE SizeIn(ByteAt(k + 1, l))
              /\ UNCHANGED lost
           \/ /\ IF metaint = 0 THEN UNCHANGED server ELSE Sends(k, l)
              /\ first_meta_size' \in {m * Unit : m \in Lengths}
              /\ lost' = TRUE
  BY DEF shoutcast_session_readWhole
<1>2. lost' \in BOOLEAN
  BY Zenon, <1>1 DEF ChunkInv, ShoutcastTypeOK
<1>3. kept' \in Seq(Bytes) /\ Len(kept') = k
  BY <1>0, <1>1, BlockReceived
<1>4. first_meta_size' \in Sizes
  <2>1. ByteAt(k + 1, l) \in Bytes
        /\ (ByteAt(k + 1, l).kind = "length" => ByteAt(k + 1, l).n \in Lengths)
    BY <1>0, ByteInStream
  <2>2. SizeIn(ByteAt(k + 1, l)) \subseteq Sizes
    BY <1>0, <2>1, SizesOfStream
  <2> QED
    BY Zenon, <1>1, <2>2 DEF Sizes
<1>5. CASE metaint = 0
  <2>1. UNCHANGED server
    BY Zenon, <1>1, <1>5
  <2>2. 0 \in 0..metaint' /\ ~(metaint' > 0) /\ 0 \in Nat /\ ~(0 > metaint')
    BY <1>0, <1>5
  <2>3. ShoutcastTypeOK'
    BY Zenon, <1>0, <1>2, <1>3, <1>4, <2>1, <2>2
    DEF server, ChunkInv, ShoutcastTypeOK, Bytes
  <2> QED
    BY Zenon, <1>0, <1>5, <2>2, <2>3 DEF ChunkInv, ChunkAgrees, MetaFirst
<1>6. CASE metaint > 0
  <2>1. metaint # 0
    BY <1>6
  <2>2. sent' \in 0..metaint /\ meta' \in Nat
    <3>1. CASE Sends(k, l)
      BY <1>0, <3>1, SendsKeepsType
    <3>2. CASE Sends(k + 1, l)
      BY <1>0, <3>2, SendsKeepsType
    <3> QED
      BY <1>1, <2>1, <3>1, <3>2
  <2>3. CountsKept
    BY <1>0, <1>2, <1>3, <1>4, <1>6, Numbers DEF CountsKept
  <2>4. ASSUME ~lost'
        PROVE  first_meta_size' = meta' /\ sent' = 0 /\ AudioBetween(kept', sent, sent')
    <3>1. /\ ~lost /\ Sends(k + 1, l)
          /\ first_meta_size' \in SizeIn(ByteAt(k + 1, l))
      <4>1. ~(lost' = TRUE)
        BY Zenon, <2>4
      <4>2. /\ IF metaint = 0 THEN UNCHANGED server ELSE Sends(k + 1, l)
            /\ first_meta_size' \in
                 IF metaint = 0 THEN {m * Unit : m \in Lengths}
                 ELSE SizeIn(ByteAt(k + 1, l))
            /\ lost' = lost
        BY Zenon, <1>1, <4>1
      <4>3. ~lost
        BY Zenon, <2>4, <4>2
      <4>4. Sends(k + 1, l)
        BY Zenon, <2>1, <4>2
      <4>5. first_meta_size' \in SizeIn(ByteAt(k + 1, l))
        <5>1. (IF metaint = 0 THEN {m * Unit : m \in Lengths}
               ELSE SizeIn(ByteAt(k + 1, l))) = SizeIn(ByteAt(k + 1, l))
          BY Zenon, <2>1
        <5> QED
          BY Zenon, <4>2, <5>1
      <4> QED
        BY Zenon, <4>3, <4>4, <4>5
    <3>2. meta = 0 /\ current_meta_chunk = sent
      BY <1>0, <1>6, <3>1 DEF ChunkInv, ChunkAgrees
    <3>3. Audio = metaint - sent /\ Audio = k
      BY <1>0, <1>1, <3>2, Numbers, Places
    <3>4. Ends(l) = k + 1 + l * Unit /\ l * Unit \in Nat
      BY <1>0, <3>3, Places
    <3>5. meta' = l * Unit /\ sent' = 0
      <4> DEFINE n == k + 1
      <4>1. /\ n \in Nat /\ n > Audio /\ n = k + 1
            /\ n <= Ends(l) + metaint /\ n <= Ends(l)
        BY <1>0, <3>3, <3>4, Numbers
      <4>2. Sends(n, l)
        BY Zenon, <3>1
      <4> HIDE DEF n
      <4>3. /\ meta' = Ends(l) - Least(n, Ends(l))
            /\ sent' = n - Least(n, Ends(l))
        BY <1>0, <4>1, <4>2, SendsNext
      <4> QED
        BY <3>4, <4>1, <4>3 DEF Least
    <3>6. ByteAt(k + 1, l) = [kind |-> "length", n |-> l]
      BY <1>0, <3>2, <3>3, <3>4 DEF ByteAt
    <3>7. first_meta_size' = l * Unit
      BY <3>1, <3>6 DEF SizeIn
    <3>8. ASSUME NEW i \in 1..k
          PROVE  kept'[i] = [kind |-> "audio", n |-> (sent + i - 1) % metaint]
      <4>1. i \in Nat \ {0} /\ i <= metaint - sent
        BY <3>3
      <4>2. kept'[i] = ByteAt(i, l)
        BY <1>0, <1>1, <1>6, BlockReceived
      <4> QED
        BY <1>0, <1>6, <3>2, <4>1, <4>2, AudioFirst
    <3>9. (sent + Len(kept')) % metaint = sent' % metaint
      <4>1. sent + Len(kept') = metaint + 0
        BY <1>0, <1>1, <1>3, <3>2, Numbers
      <4>2. (metaint + 0) % metaint = 0 /\ 0 % metaint = 0
        BY <1>0, <1>6, Numbers, Round
      <4> QED
        BY <3>5, <4>1, <4>2
    <3> QED
      BY <1>3, <3>5, <3>7, <3>8, <3>9 DEF AudioBetween
  <2>5. WellRead
    BY Zenon, <1>0, <2>4 DEF WellRead
  <2> QED
    BY Zenon, <1>0, <1>6, <2>2, <2>3, <2>5, ChunkKept
<1> QED
  BY <1>0, <1>5, <1>6, Numbers

LEMMA OpenSteps == ChunkInv /\ shoutcast_session_open => ChunkInv'
<1> SUFFICES ASSUME ChunkInv, shoutcast_session_open PROVE ChunkInv'
  OBVIOUS
<1>1. /\ metaint' \in Metaints /\ current_meta_chunk' = 0 /\ sent' = 0 /\ meta' = 0
      /\ kept' = <<>> /\ UNCHANGED <<first_meta_size, misread>>
  BY Zenon DEF shoutcast_session_open
<1>2. open' \in BOOLEAN /\ lost' \in BOOLEAN /\ (lost' <=> first_meta_size > 0)
  <2>1. open' \in BOOLEAN
    BY Zenon DEF shoutcast_session_open
  <2>2. lost' \in BOOLEAN
    BY DEF shoutcast_session_open
  <2>3. lost' <=> first_meta_size > 0
    BY DEF shoutcast_session_open
  <2> QED
    BY Zenon, <2>1, <2>2, <2>3
<1>3. metaint' \in Nat
  BY <1>1, ShoutcastAssumption
<1>4. /\ 0 \in 0..metaint' /\ ~(0 > metaint') /\ 0 \in Nat
      /\ <<>> \in Seq(Bytes)
  BY <1>3
<1>5. ShoutcastTypeOK'
  BY Zenon, <1>1, <1>2, <1>4 DEF ChunkInv, ShoutcastTypeOK, Bytes
<1>6. ~lost' => first_meta_size' = 0
  BY <1>1, <1>2, Numbers DEF ChunkInv
<1> QED
  BY Zenon, <1>1, <1>5, <1>6 DEF ChunkInv, ChunkAgrees, MetaFirst

LEMMA CloseSteps == ChunkInv /\ shoutcast_session_close => ChunkInv'
<1> SUFFICES ASSUME ChunkInv, shoutcast_session_close PROVE ChunkInv'
  OBVIOUS
<1>1. /\ metaint' = 0 /\ current_meta_chunk' = 0 /\ sent' = 0 /\ meta' = 0
      /\ kept' = <<>> /\ UNCHANGED <<first_meta_size, lost, misread>>
      /\ open' \in BOOLEAN
  BY Zenon DEF shoutcast_session_close
<1>2. 0 \in 0..0 /\ ~(0 > 0) /\ 0 \in Nat /\ <<>> \in Seq(Bytes) /\ 0 \in Metaints \cup {0}
  OBVIOUS
<1>3. ShoutcastTypeOK'
  BY Zenon, <1>1, <1>2 DEF ChunkInv, ShoutcastTypeOK, Bytes
<1> QED
  BY Zenon, <1>1, <1>2, <1>3 DEF ChunkInv, ChunkAgrees, MetaFirst

LEMMA InitChunkInv == ShoutcastInit => ChunkInv
<1> SUFFICES ASSUME ShoutcastInit PROVE ChunkInv
  OBVIOUS
<1>1. open \in BOOLEAN /\ lost \in BOOLEAN
  BY Zenon DEF ShoutcastInit
<1>2. ShoutcastTypeOK
  BY <1>1 DEF ShoutcastInit, ShoutcastTypeOK, Sizes
<1> QED
  BY <1>2 DEF ShoutcastInit, ChunkInv, ChunkAgrees, MetaFirst

LEMMA ChunkSteps ==
  ChunkInv /\ [ShoutcastNext]_shoutcast_vars
    => /\ ChunkInv'
       /\ [Read /\ metaint > 0 /\ ~lost' /\ misread' = "none"
             => AudioBetween(kept', sent, sent')]_shoutcast_vars
<1> SUFFICES ASSUME ChunkInv, [ShoutcastNext]_shoutcast_vars
             PROVE  /\ ChunkInv'
                    /\ Read /\ metaint > 0 /\ ~lost' /\ misread' = "none"
                         => AudioBetween(kept', sent, sent')
  OBVIOUS
<1>1. ASSUME Read PROVE ChunkInv' /\ (metaint > 0 => WellRead)
  BY <1>1, ReadSteps, WholeSteps DEF Read
<1>2. CASE UNCHANGED shoutcast_vars /\ ~Read
  BY Zenon, <1>2
  DEF shoutcast_vars, counts, server, ChunkInv, ShoutcastTypeOK, ChunkAgrees, MetaFirst
<1>3. CASE ShoutcastNext /\ ~Read
  BY Zenon, <1>3, OpenSteps, CloseSteps DEF ShoutcastNext
<1> QED
  BY Zenon, <1>1, <1>2, <1>3 DEF WellRead

LEMMA ChunkInductive == ShoutcastSpec => []ChunkInv
BY InitChunkInv, ChunkSteps, PTL DEF ShoutcastSpec

(* Whatever the server sends and whatever the blocks it comes in, the counts *)
(* of a session stay in their ranges.                                       *)
THEOREM CountsBounded == ShoutcastSpec => []ShoutcastTypeOK
BY ChunkInductive, PTL DEF ChunkInv

(* shoutcast_session_read counts to the server's next length byte.          *)
THEOREM CountFollowsStream == ShoutcastSpec => []ChunkAgrees
BY ChunkInductive, PTL DEF ChunkInv

(* And what it returns is the audio of the stream, without the metadata.    *)
THEOREM OnlyAudioRead == ShoutcastSpec => ReadsAudio
BY ChunkInductive, ChunkSteps, PTL DEF ShoutcastSpec, ReadsAudio
=============================================================================
