------------------------------- MODULE PlayerUi -------------------------------
(***************************************************************************)
(* What is playing, and what the user interface believes is playing: the   *)
(* UI thread of player_ui.c with its play list (play_list.c), the player   *)
(* thread of player_bg.c, and between them a message queue in each         *)
(* direction and the flag is_playing.                                      *)
(*                                                                         *)
(* The UI thread has priority 25 and the player thread 13: a handler of    *)
(* the UI is preempted, but touches nothing the player thread changes      *)
(* except is_playing, so that each handler is one action.  A touch is      *)
(* handled before or after the messages queued beside it, in any order.    *)
(***************************************************************************)
EXTENDS Naturals, Sequences, FiniteSets

CONSTANTS
  Kinds,      \* the kinds of list items that exist, of those below
  MaxItems,   \* bound on the length of the play list
  QueueMax,   \* messages of the UI's queue        (4)
  RequestMax, \* messages of the player's queue    (8)
  InfoMax     \* bound on queued messages other than play, stop and freeze

(* file: an mp3 or wav path.  radio: http:// or douban://.  m3u_url: an     *)
(* http:// line of an .m3u file, which play_list_append_m3u prefixes with   *)
(* the directory.  unknown: any other line of one (a .wma, say).            *)
AllKinds == {"file", "radio", "m3u_url", "unknown"}

ASSUME PlayerAssumption ==
  /\ Kinds \subseteq AllKinds /\ "file" \in Kinds
  /\ MaxItems \in Nat \ {0}
  /\ QueueMax \in Nat \ {0} /\ RequestMax \in Nat \ {0} /\ InfoMax \in Nat

VARIABLES
  player_mode,       \* what the UI believes is playing
  next_step,         \* what the UI does when the player stops
  is_playing,        \* cleared to stop the player
  play_list,         \* the items, each reduced to its kind
  play_item_current, \* index of the current one, from 0
  uiq,               \* the UI's message queue
  reqs,              \* the player's message queue
  bg,                \* the player thread: idle or playing
  frozen,            \* the modal "USB" view is shown, for ever
  unheard            \* history: the UI was not told of the end of an item

ui == <<player_mode, next_step>>
list == <<play_list, play_item_current>>
vars == <<ui, is_playing, list, uiq, reqs, bg, frozen, unheard>>

Messages == {"play", "stop", "freeze", "info"}
Modes == {"STOP", "FILE", "RADIO"}
Steps == {"STOP", "PREV", "NEXT", "SEEK"}

Lists == UNION {[1..n -> Kinds] : n \in 0..MaxItems}
Size == Len(play_list)
Places(msg) == {i \in 1..Len(uiq) : uiq[i] = msg}
Count(msg) == Cardinality(Places(msg))

(* media_type looks for http:// anywhere in the name, ...                   *)
ModeOf(kind) == IF kind \in {"radio", "m3u_url"} THEN "RADIO" ELSE "FILE"

(* ... player_thread at its beginning, and for the suffixes it plays.       *)
Playable(kind) == kind \in {"file", "radio"}

(* rtgui_thread_send does not wait: a message to a full queue is dropped.   *)
Send(q, msg) == IF Len(q) < QueueMax THEN Append(q, msg) ELSE q

(* Fault: the UI thread runs before the player thread has its request.      *)
UiRunsAlways == TRUE

(* The player thread has the higher priority: it takes a request at once.   *)
UiRuns == ~(bg = "idle" /\ reqs # <<>>)

-----------------------------------------------------------------------------
(* The play list.                                                           *)

(* &play_list[i]: null for index 0 of no list, else whatever is there.      *)
ItemAt(l, i) == IF i < Len(l) THEN {l[i + 1]} ELSE IF i = 0 THEN {} ELSE Kinds

Next0 == IF play_item_current + 1 < Size THEN play_item_current + 1 ELSE 0
Prev0 == IF play_item_current > 0 THEN play_item_current - 1 ELSE Size - 1

-----------------------------------------------------------------------------
(* player_play_item and what it and the handlers do to the player.          *)

StopReq(step) ==
  /\ next_step' = step /\ is_playing' = FALSE
  /\ UNCHANGED <<player_mode, reqs>>

PlayReq(kind) ==
  reqs' = IF Len(reqs) < RequestMax THEN Append(reqs, kind) ELSE reqs

(* Fault: a request is sent although something is playing.                  *)
PlayItemAlways(mode, playing, kind) ==
  /\ player_mode' = ModeOf(kind) /\ PlayReq(kind)
  /\ next_step' = "NEXT" /\ is_playing' = playing

(* Called in this mode and with this value of is_playing.                   *)
PlayItem(mode, playing, kind) ==
  \/ mode # "STOP" /\ StopReq("SEEK")
  \/ /\ mode = "STOP"
     /\ player_mode' = ModeOf(kind) /\ PlayReq(kind)
     /\ next_step' = "NEXT" /\ is_playing' = playing

(* The item at index i of list l, if the pointer is not null.               *)
PlayAt(mode, l, i) ==
  \/ ItemAt(l, i) = {} /\ UNCHANGED <<player_mode, next_step, is_playing, reqs>>
  \/ \E kind \in ItemAt(l, i) : PlayItem(mode, is_playing, kind)

-----------------------------------------------------------------------------
(* The user.  The modal view of a frozen player takes every touch.          *)

UserActs == UiRuns /\ ~frozen

player_onbutton ==
  /\ UserActs
  /\ \/ \E step \in {"NEXT", "PREV"} : StopReq(step)
     \/ player_mode = "STOP" /\ PlayAt(player_mode, play_list, play_item_current)
     \/ player_mode # "STOP" /\ StopReq("STOP")
  /\ UNCHANGED <<list, uiq, bg, frozen, unheard>>

player_play_list_onitem ==
  /\ UserActs
  /\ \E n \in 0..Size-1 :
       /\ play_item_current' = n
       /\ IF player_mode = "STOP"
          THEN PlayAt(player_mode, play_list, n)
          ELSE StopReq(IF n = play_item_current THEN "STOP" ELSE "SEEK")
  /\ UNCHANGED <<play_list, uiq, bg, frozen, unheard>>

(* play_list_clear, one play_list_append_radio, play_list_start: a radio    *)
(* station or a douban channel.  The station's strings are read after       *)
(* station_list_destroy has freed them: it may be anything.                 *)
function_play_radio ==
  /\ UserActs
  /\ \E kind \in Kinds :
       /\ play_list' = <<kind>> /\ play_item_current' = 0
       /\ PlayItem(player_mode, is_playing, kind)
  /\ UNCHANGED <<uiq, bg, frozen, unheard>>

function_douban ==
  /\ UserActs
  /\ "radio" \in Kinds
  /\ play_list' = <<"radio">> /\ play_item_current' = 0
  /\ PlayItem(player_mode, is_playing, "radio")
  /\ UNCHANGED <<uiq, bg, frozen, unheard>>

(* function_play_radio without a station list, when there is no play list   *)
(* either: play_list_start is null, and player_play_item reads through it.  *)
function_play_radioNoList ==
  /\ UserActs
  /\ play_item_current' = (IF Size > 0 THEN 0 ELSE play_item_current)
  /\ \E kind \in IF Size > 0 THEN {play_list[1]} ELSE Kinds :
       PlayItem(player_mode, is_playing, kind)
  /\ UNCHANGED <<play_list, uiq, bg, frozen, unheard>>

(* player_stop, then the list of a directory, a file or an .m3u, which may  *)
(* be empty, and its first item.                                            *)
function_filelist ==
  /\ UserActs
  /\ play_list' \in Lists
  /\ IF play_list' = <<>>
     THEN StopReq("STOP") /\ UNCHANGED play_item_current
     ELSE PlayItem(player_mode, FALSE, play_list'[1]) /\ play_item_current' = 0
  /\ UNCHANGED <<uiq, bg, frozen, unheard>>

(* ... or a file of another type: the old list stays, stopped.              *)
function_filelistOther ==
  /\ UserActs
  /\ StopReq("STOP")
  /\ UNCHANGED <<list, uiq, bg, frozen, unheard>>

-----------------------------------------------------------------------------
(* home_view_event_handler: the UI's messages.                              *)

Receive(msg) == UiRuns /\ uiq # <<>> /\ Head(uiq) = msg /\ uiq' = Tail(uiq)

(* play starts the timer that redraws the position, info redraws.           *)
OnPlayOrInfo ==
  /\ \E msg \in {"play", "info"} : Receive(msg)
  /\ UNCHANGED <<ui, is_playing, list, reqs, bg, frozen, unheard>>

(* Where the next item is, for a step.                                      *)
IndexFor(step) ==
  IF Size = 0 \/ step \notin {"NEXT", "PREV"} THEN play_item_current
  ELSE IF step = "NEXT" THEN Next0 ELSE Prev0

(* Fault: the mode is left for player_play_item to see.                     *)
OnStopKeepsMode ==
  /\ Receive("stop")
  /\ LET step == IF player_mode = "RADIO" THEN "STOP" ELSE next_step
         played == step = "SEEK" \/ (step \in {"NEXT", "PREV"} /\ Size > 0)
     IN IF played
        THEN /\ play_item_current' = IndexFor(step)
             /\ PlayAt(player_mode, play_list, play_item_current')
        ELSE /\ player_mode' = "STOP" /\ next_step' = step
             /\ UNCHANGED <<play_item_current, is_playing, reqs>>
  /\ UNCHANGED <<play_list, bg, frozen, unheard>>

(* A radio stops; after a file comes what next_step says.                   *)
OnStop ==
  /\ Receive("stop")
  /\ LET step == IF player_mode = "RADIO" THEN "STOP" ELSE next_step
         played == \/ step = "SEEK" /\ ItemAt(play_list, play_item_current) # {}
                   \/ step \in {"NEXT", "PREV"} /\ Size > 0
     IN IF played
        THEN /\ play_item_current' = IndexFor(step)
             /\ PlayAt("STOP", play_list, play_item_current')
        ELSE /\ player_mode' = "STOP" /\ next_step' = step
             /\ UNCHANGED <<play_item_current, is_playing, reqs>>
  /\ UNCHANGED <<play_list, bg, frozen, unheard>>

(* The modal view's own loop goes on receiving messages, and touches reach  *)
(* only the view.                                                           *)
OnFreeze ==
  /\ Receive("freeze")
  /\ frozen' = TRUE
  /\ IF is_playing THEN StopReq("STOP")
     ELSE UNCHANGED <<ui, is_playing, reqs>>
  /\ UNCHANGED <<list, bg, unheard>>

-----------------------------------------------------------------------------
(* The player thread, and the others that send messages.                    *)

(* A request, received.  One that names no known type is dropped.           *)
player_thread ==
  /\ bg = "idle" /\ reqs # <<>>
  /\ reqs' = Tail(reqs)
  /\ IF Playable(Head(reqs))
     THEN bg' = "playing" /\ is_playing' = TRUE /\ uiq' = Send(uiq, "play")
     ELSE UNCHANGED <<bg, is_playing, uiq>>
  /\ unheard' = (unheard \/ ~Playable(Head(reqs)))
  /\ UNCHANGED <<ui, list, frozen>>

(* Fault: the UI is not told.                                               *)
PlayerEndsSilent ==
  /\ bg = "playing"
  /\ bg' = "idle"
  /\ is_playing' = FALSE
  /\ UNCHANGED <<ui, list, uiq, reqs, frozen, unheard>>

(* The end of the item, an error, or a decoder that found is_playing        *)
(* cleared: player_notify_stop.                                             *)
PlayerEnds ==
  /\ bg = "playing"
  /\ bg' = "idle"
  /\ uiq' = Send(uiq, "stop")
  /\ is_playing' = FALSE
  /\ unheard' = (unheard \/ Len(uiq) >= QueueMax)
  /\ UNCHANGED <<ui, list, reqs, frozen>>

(* player_set_title, player_set_buffer_status, player_notify_info, and the  *)
(* events of the window server.                                             *)
Info ==
  /\ Count("info") < InfoMax
  /\ uiq' = Send(uiq, "info")
  /\ UNCHANGED <<ui, is_playing, list, reqs, bg, frozen, unheard>>

(* A host reads the card over USB, once.                                    *)
player_ui_freeze ==
  /\ ~frozen /\ Count("freeze") = 0
  /\ uiq' = Send(uiq, "freeze")
  /\ UNCHANGED <<ui, is_playing, list, reqs, bg, frozen, unheard>>

-----------------------------------------------------------------------------

Init ==
  /\ player_mode = "STOP" /\ next_step = "STOP" /\ is_playing = FALSE
  /\ play_list = <<>> /\ play_item_current = 0
  /\ uiq = <<>> /\ reqs = <<>> /\ bg = "idle"
  /\ frozen = FALSE /\ unheard = FALSE

User ==
  \/ function_filelist \/ function_filelistOther \/ player_onbutton
  \/ player_play_list_onitem \/ function_play_radio \/ function_douban
  \/ function_play_radioNoList

Handle == OnPlayOrInfo \/ OnStop \/ OnFreeze

Next == User \/ Handle \/ player_thread \/ PlayerEnds \/ Info \/ player_ui_freeze

Spec == Init /\ [][Next]_vars

(* The UI handles its messages, the player its requests, and a decoder ends *)
(* when it finds is_playing cleared; a stream need never end by itself.     *)
FairSpec ==
  /\ Spec
  /\ WF_vars(Handle) /\ WF_vars(player_thread)
  /\ WF_vars(PlayerEnds /\ ~is_playing)

-----------------------------------------------------------------------------
(* Properties.                                                              *)

(* The values of the variables; the current item is one of the list.        *)
TypeOK ==
  /\ player_mode \in Modes /\ next_step \in Steps /\ is_playing \in BOOLEAN
  /\ play_list \in Seq(Kinds) /\ play_item_current \in Nat
  /\ Size > 0 => play_item_current < Size
  /\ uiq \in Seq(Messages) /\ Len(uiq) <= QueueMax
  /\ reqs \in Seq(Kinds) /\ Len(reqs) <= RequestMax
  /\ bg \in {"idle", "playing"} /\ frozen \in BOOLEAN /\ unheard \in BOOLEAN

(* Of a request, a playing item and the notice of its end there is at most  *)
(* one, and while there is one the UI does not believe the player stopped:  *)
(* no second request is made before the first has ended, whatever is lost.  *)
Sessions == Len(reqs) + (IF bg = "playing" THEN 1 ELSE 0) + Count("stop")

OneSession == Sessions <= 1 /\ (Sessions = 1 => player_mode # "STOP")

(* A request to stop is never undone by the start of the item it is for:    *)
(* the player, which sets is_playing when it begins, begins before the UI   *)
(* runs again.                                                              *)
StopRequestStands ==
  player_mode # "STOP" /\ next_step # "NEXT" => ~is_playing

(* The UI believes something is playing exactly while it is, is about to    *)
(* be, or has ended and the UI is yet to hear of it, as long as no notice   *)
(* was dropped by a full queue and no request for want of a decoder.        *)
ModeAgrees == ~unheard => (player_mode # "STOP" <=> Sessions = 1)

(* Pressing stop stops: the mode returns to STOP, unless something else is  *)
(* asked for in the meantime, or a notice was lost.                         *)
StopHappens ==
  player_mode # "STOP" /\ next_step = "STOP"
    ~> player_mode = "STOP" \/ next_step # "STOP" \/ unheard
=============================================================================
