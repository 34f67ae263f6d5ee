------------------------------- MODULE Douban -------------------------------
(***************************************************************************)
(* douban_radio.c: a station made of songs.  The worker of the network     *)
(* buffer fetches blocks with douban_radio_read, which plays the songs of  *)
(* a list one after the other, each over an HTTP session of its own, and   *)
(* loads the next list in between: the strings of the old list are freed   *)
(* first, and the new ones are copied while the answer is parsed.          *)
(*                                                                         *)
(* A song is the state of its strings.  The server is external: it may     *)
(* refuse a list or a song, end a list inside a song or leave out strings. *)
(***************************************************************************)
EXTENDS Naturals

CONSTANT Max \* DOUBAN_SONG_MAX

ASSUME DoubanAssumption == Max \in Nat \ {0}

VARIABLES
  size, current, \* songs of the list, and the one that plays
  items,   \* the strings of items[i]: null, live, or pointers to freed memory
  session, \* douban->session is open
  pc,      \* the radio: closed, idle between fetches, in one, or at its end
  got,     \* the fetch has bytes to return
  failed,  \* history: a list could not be loaded
  cut,     \* history: a list ended inside a song or lacked a string
  fault    \* freed memory was used or freed again, or a session that is none

list == <<size, current, items, failed, cut>>
vars == <<list, session, pc, got, fault>>

Listed == 0..size-1

-----------------------------------------------------------------------------
(* The play list.                                                           *)

(* Fault: not those of the last song.                                       *)
FreedButLast == [i \in 0..Max-1 |-> IF i + 1 \in Listed THEN "freed" ELSE items[i]]

(* The strings after the loop of rt_free; the pointers stay.                *)
Freed == [i \in 0..Max-1 |-> IF i \in Listed THEN "freed" ELSE items[i]]

FreesTwice == \E i \in Listed : items[i] = "freed"

(* _parse_callback: n songs, but no strings for those in without; if the    *)
(* list goes on, the next one has begun and is not counted.                 *)
NewItems(n, without, goesOn) ==
  LET begun == IF goesOn THEN {n} ELSE {}
  IN [i \in 0..Max-1 |->
        IF i \in (0..n-1 \ without) \cup begun THEN "live" ELSE Freed[i]]

(* Fault: a list without songs leaves the number of those before.           *)
ParsedKeepsSize(n, without, goesOn) ==
  /\ items' = NewItems(n, without, goesOn)
  /\ size' = (IF n = 0 THEN size ELSE n) /\ current' = 0
  /\ cut' = (cut \/ without # {} \/ (goesOn /\ n < Max))
  /\ UNCHANGED failed

Parsed(n, without, goesOn) ==
  /\ items' = NewItems(n, without, goesOn)
  /\ size' = n /\ current' = 0
  /\ cut' = (cut \/ without # {} \/ (goesOn /\ n < Max))
  /\ UNCHANGED failed

Loaded ==
  \E n \in 0..Max : \E without \in SUBSET (0..n-1), goesOn \in BOOLEAN :
    Parsed(n, without, goesOn)

(* No memory, or no session: the old songs, now without strings, remain.    *)
LoadFails(next) ==
  /\ items' = Freed /\ failed' = TRUE
  /\ current' = next
  /\ UNCHANGED <<size, cut>>

douban_radio_playlist_load(next) ==
  /\ Loaded \/ LoadFails(next)
  /\ session' = FALSE
  /\ fault' = IF FreesTwice THEN "freed twice" ELSE fault

-----------------------------------------------------------------------------
(* The radio.                                                               *)

(* A list without songs or no list: douban is freed.                        *)
douban_radio_open ==
  /\ pc = "closed" /\ fault = "none"
  /\ Loaded /\ size' > 0
  /\ pc' = "idle"
  /\ UNCHANGED <<session, got, fault>>

(* The read after a list that could not be loaded, and found nothing to     *)
(* play: it loads one, but returns 0, which ends the radio.                 *)
ReadPastEnd ==
  /\ pc = "idle" /\ current >= size /\ fault = "none"
  /\ douban_radio_playlist_load(current)
  /\ pc' = "end" /\ UNCHANGED got

ReadBegins ==
  /\ pc = "idle" /\ current < size /\ fault = "none"
  /\ pc' = "read" /\ got' = FALSE
  /\ UNCHANGED <<list, session, fault>>

InRead == pc = "read" /\ fault = "none"

OpenSong ==
  /\ InRead /\ ~session /\ items[current] # "null"
  /\ session' = TRUE
  /\ fault' = IF items[current] = "freed" THEN "used freed" ELSE fault
  /\ UNCHANGED <<list, pc, got>>

(* After song next - 1: the next one or, at the end, the next list, and     *)
(* what has been read is returned.                                          *)
Advance(next) ==
  \/ /\ next < size
     /\ current' = next /\ session' = FALSE
     /\ UNCHANGED <<size, items, failed, cut, pc, got, fault>>
  \/ /\ next >= size
     /\ douban_radio_playlist_load(next)
     /\ pc' = IF got THEN "idle" ELSE "end"
     /\ UNCHANGED got

(* Without a session the read goes on with the null pointer, unless there   *)
(* are no more songs: an error; or, where that memory can be read, what it  *)
(* holds is no socket, nothing is read from it, and the song after this one *)
(* is left out too.                                                         *)
OpenSongFails ==
  /\ InRead /\ ~session /\ items[current] # "freed"
  /\ \/ current + 1 = size /\ Advance(size)
     \/ current + 1 < size /\ Advance(current + 2)
     \/ /\ current + 1 < size
        /\ current' = current + 1 /\ fault' = "null used"
        /\ UNCHANGED <<size, items, failed, cut, session, pc, got>>

ReadSong ==
  /\ InRead /\ session
  /\ got' = TRUE
  /\ pc' \in {"read", "idle"}
  /\ UNCHANGED <<list, session, fault>>

SongEnds ==
  /\ InRead /\ session
  /\ Advance(current + 1)

(* The worker: at the end of the stream, or stopped between two fetches.    *)
douban_radio_close ==
  /\ pc \in {"idle", "end"} /\ fault = "none"
  /\ IF FreesTwice
     THEN fault' = "freed twice" /\ UNCHANGED <<list, session, pc, got>>
     ELSE /\ pc' = "closed" /\ session' = FALSE /\ got' = FALSE
          /\ size' = 0 /\ current' = 0
          /\ items' = [i \in 0..Max-1 |-> "null"]
          /\ failed' = FALSE /\ cut' = FALSE
          /\ UNCHANGED fault

Init ==
  /\ size = 0 /\ current = 0 /\ items = [i \in 0..Max-1 |-> "null"]
  /\ session = FALSE /\ pc = "closed" /\ got = FALSE
  /\ failed = FALSE /\ cut = FALSE /\ fault = "none"

douban_radio_read ==
  ReadPastEnd \/ ReadBegins \/ OpenSong \/ OpenSongFails \/ ReadSong \/ SongEnds

Next == douban_radio_open \/ douban_radio_read \/ douban_radio_close

Spec == Init /\ [][Next]_vars

-----------------------------------------------------------------------------
(* Properties.                                                              *)

(* The values of the variables; the songs fit the array, and the one that   *)
(* plays is in the list or one past its end.                                *)
TypeOK ==
  /\ size \in 0..Max /\ current \in 0..size
  /\ items \in [0..Max-1 -> {"null", "live", "freed"}]
  /\ session \in BOOLEAN /\ got \in BOOLEAN
  /\ failed \in BOOLEAN /\ cut \in BOOLEAN
  /\ pc \in {"closed", "idle", "read", "end"}
  /\ fault \in {"none", "freed twice", "used freed", "null used"}

(* As long as every list was loaded and complete, the strings in memory are *)
(* those of the songs in the list, all of them and no other, whatever the   *)
(* lengths of the lists: what the next load or close frees.                 *)
ItemsOwned ==
  ~failed /\ ~cut =>
    \A i \in 0..Max-1 : (items[i] = "live") <=> (i \in Listed)

(* No string is used after it was freed, or freed again, unless a list      *)
(* could not be loaded or was incomplete.                                   *)
FreedOnce == fault \in {"freed twice", "used freed"} => failed \/ cut

(* A fetch always has a song to play, and a session is open for that song   *)
(* only: it is closed before the song's strings are freed.                  *)
SessionInList ==
  /\ pc = "read" => current < size
  /\ session => pc \in {"idle", "read"} /\ current < size
=============================================================================
