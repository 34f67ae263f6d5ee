------------------------ MODULE UserInterface_proofs ------------------------
(***************************************************************************)
(* Proofs about the two ways to the player: PlayerUi, for any kinds of     *)
(* items, lengths of the play list and lengths of the queues, and Remote,  *)
(* for any codes, keys and buffer.                                         *)
(***************************************************************************)
EXTENDS PlayerUi, Remote, FiniteSetTheorems, SequenceTheorems, TLAPS

Notice == Places("stop") # {}

(* A request, a playing item and a notice of its end exclude each other,    *)
(* and each of them the mode STOP; the item of a request is not to be       *)
(* stopped yet, as the player takes it before the interface runs again.     *)
OneStage ==
  /\ Len(reqs) <= 1
  /\ reqs # <<>> => /\ bg = "idle" /\ ~Notice
                    /\ player_mode # "STOP" /\ next_step = "NEXT"
  /\ bg = "playing" => ~Notice /\ player_mode # "STOP"
  /\ Notice => player_mode # "STOP"

OneNotice == \A i, j \in Places("stop") : i = j

(* The mode is not STOP without a stage, unless the interface was not told. *)
StageToCome ==
  ~unheard /\ player_mode # "STOP" => reqs # <<>> \/ bg = "playing" \/ Notice

IInv == TypeOK /\ OneStage /\ OneNotice /\ StageToCome /\ StopRequestStands

-----------------------------------------------------------------------------
(* The queue of the interface.                                              *)

LEMMA PlacesFinite ==
  ASSUME NEW msg \in Messages, TypeOK
  PROVE  IsFiniteSet(Places(msg)) /\ Cardinality(Places(msg)) \in Nat
<1>1. Len(uiq) \in Nat /\ Places(msg) \subseteq 1..Len(uiq)
  BY DEF TypeOK, Places
<1>2. IsFiniteSet(1..Len(uiq))
  BY <1>1, FS_Interval
<1> QED
  BY <1>1, <1>2, FS_Subset, FS_CardinalityType

(* With one notice at most, Sessions is the number of stages there are.     *)
LEMMA SessionsCount ==
  ASSUME TypeOK, OneStage, OneNotice
  PROVE  /\ Sessions \in {0, 1}
         /\ Sessions = 1 <=> reqs # <<>> \/ bg = "playing" \/ Notice
<1>1. Count("stop") = IF Notice THEN 1 ELSE 0
  <2>1. IsFiniteSet(Places("stop"))
    BY PlacesFinite DEF Messages
  <2>2. CASE Notice
    <3>1. PICK i : i \in Places("stop")
      BY <2>2 DEF Notice
    <3>2. Places("stop") = {i}
      BY <3>1 DEF OneNotice
    <3> QED
      BY <2>1, <2>2, <3>2, FS_Singleton DEF Count
  <2>3. CASE ~Notice
    BY <2>1, <2>3, FS_EmptySet DEF Count, Notice
  <2> QED
    BY <2>2, <2>3
<1>2. Len(reqs) = IF reqs # <<>> THEN 1 ELSE 0
  <2>1. Len(reqs) \in Nat /\ (reqs = <<>> <=> Len(reqs) = 0)
    BY DEF TypeOK
  <2>2. Len(reqs) <= 1
    BY DEF OneStage
  <2> QED
    BY <2>1, <2>2
<1>3. CASE reqs # <<>>
  BY <1>1, <1>2, <1>3 DEF Sessions, OneStage
<1>4. CASE reqs = <<>>
  BY <1>1, <1>2, <1>4 DEF Sessions, OneStage
<1> QED
  BY <1>3, <1>4

LEMMA SendType ==
  ASSUME TypeOK, NEW msg \in Messages, uiq' = Send(uiq, msg)
  PROVE  uiq' \in Seq(Messages) /\ Len(uiq') <= QueueMax
<1>1. CASE Len(uiq) < QueueMax
  <2>1. uiq' = Append(uiq, msg) /\ uiq \in Seq(Messages)
    BY <1>1 DEF Send, TypeOK
  <2>2. Len(uiq') = Len(uiq) + 1
    BY <2>1
  <2> QED
    BY <1>1, <2>1, <2>2, PlayerAssumption DEF TypeOK
<1>2. CASE ~(Len(uiq) < QueueMax)
  BY <1>2 DEF Send, TypeOK
<1> QED
  BY <1>1, <1>2

LEMMA SendOther ==
  ASSUME TypeOK, NEW msg \in Messages, msg # "stop", uiq' = Send(uiq, msg)
  PROVE  Places("stop")' = Places("stop")
<1>1. CASE Len(uiq) < QueueMax
  <2>1. uiq' = Append(uiq, msg) /\ uiq \in Seq(Messages)
    BY <1>1 DEF Send, TypeOK
  <2> QED
    BY <2>1 DEF Places
<1>2. CASE ~(Len(uiq) < QueueMax)
  BY <1>2 DEF Send, Places
<1> QED
  BY <1>1, <1>2

(* The notice is the only one, if it is not dropped.                        *)
LEMMA SendStop ==
  ASSUME TypeOK, ~Notice, uiq' = Send(uiq, "stop")
  PROVE  OneNotice' /\ (Len(uiq) < QueueMax => Notice')
<1>1. CASE Len(uiq) < QueueMax
  <2>1. uiq' = Append(uiq, "stop") /\ uiq \in Seq(Messages)
    BY <1>1 DEF Send, TypeOK
  <2>2. /\ Len(uiq') = Len(uiq) + 1 /\ uiq'[Len(uiq) + 1] = "stop"
        /\ \A i \in 1..Len(uiq) : uiq'[i] = uiq[i]
    BY <2>1
  <2>3. Places("stop")' = {Len(uiq) + 1}
    BY <2>1, <2>2 DEF Places, Notice
  <2> QED
    BY <2>3 DEF OneNotice, Notice
<1>2. CASE ~(Len(uiq) < QueueMax)
  BY <1>2 DEF Send, OneNotice, Notice, Places
<1> QED
  BY <1>1, <1>2

LEMMA Received ==
  ASSUME TypeOK, OneNotice, NEW msg \in Messages, Receive(msg)
  PROVE  /\ uiq' \in Seq(Messages) /\ Len(uiq') <= QueueMax
         /\ OneNotice'
         /\ msg # "stop" => (Notice' <=> Notice)
         /\ msg = "stop" => Notice /\ ~Notice'
<1>1. /\ uiq \in Seq(Messages) /\ uiq # <<>> /\ uiq' = Tail(uiq)
      /\ Len(uiq) \in Nat /\ Len(uiq) <= QueueMax /\ uiq[1] = msg
  BY DEF Receive, TypeOK
<1>2. /\ uiq' \in Seq(Messages) /\ Len(uiq') = Len(uiq) - 1
      /\ \A i \in 1..Len(uiq') : i + 1 \in 1..Len(uiq) /\ uiq'[i] = uiq[i + 1]
  BY <1>1
<1>3. \A i : i \in Places("stop")' => i \in Nat /\ i > 0 /\ i + 1 \in Places("stop")
  BY <1>2 DEF Places
<1>4. OneNotice'
  BY <1>3 DEF OneNotice
<1>5. ASSUME msg # "stop" PROVE Notice' <=> Notice
  <2>1. Notice' => Notice
    BY <1>3 DEF Notice
  <2>2. ASSUME Notice PROVE Notice'
    <3>1. PICK i \in 1..Len(uiq) : uiq[i] = "stop"
      BY <2>2 DEF Notice, Places
    <3>2. i - 1 \in 1..Len(uiq') /\ (i - 1) + 1 = i
      BY <3>1, <1>1, <1>2, <1>5
    <3>3. i - 1 \in Places("stop")'
      BY <3>1, <3>2, <1>2 DEF Places
    <3> QED
      BY <3>3 DEF Notice
  <2> QED
    BY <2>1, <2>2
<1>6. ASSUME msg = "stop" PROVE Notice /\ ~Notice'
  <2>1. 1 \in Places("stop")
    BY <1>1, <1>6 DEF Places
  <2>2. ASSUME NEW i \in Places("stop")' PROVE FALSE
    <3>1. i \in Nat /\ i > 0 /\ i + 1 \in Places("stop")
      BY <1>3
    <3>2. i + 1 = 1
      BY <2>1, <3>1 DEF OneNotice
    <3> QED
      BY <3>1, <3>2
  <2> QED
    BY <2>1, <2>2 DEF Notice
<1>7. Len(uiq') <= QueueMax
  BY <1>1, <1>2, PlayerAssumption
<1> QED
  BY <1>2, <1>4, <1>5, <1>6, <1>7, Zenon

-----------------------------------------------------------------------------
(* The play list.                                                           *)

LEMMA ItemKind ==
  ASSUME NEW l \in Seq(Kinds), NEW i \in Nat
  PROVE  ItemAt(l, i) \subseteq Kinds /\ (i < Len(l) => ItemAt(l, i) # {})
  BY DEF ItemAt

LEMMA IndexInList ==
  ASSUME TypeOK, NEW step \in Steps
  PROVE  IndexFor(step) \in Nat /\ (Size > 0 => IndexFor(step) < Size)
<1>1. Size \in Nat /\ play_item_current \in Nat
  BY DEF TypeOK, Size
<1> QED
  BY <1>1 DEF TypeOK, IndexFor, Next0, Prev0

-----------------------------------------------------------------------------
(* What a handler does to the player.                                       *)

Start(kind) == player_mode' = ModeOf(kind) /\ PlayReq(kind) /\ next_step' = "NEXT"

Kept == UNCHANGED <<player_mode, next_step, is_playing, reqs>>

(* A request to stop, a request to play in the mode STOP, or nothing.       *)
Control ==
  \/ \E step \in Steps : StopReq(step)
  \/ player_mode = "STOP" /\ \E kind \in Kinds : Start(kind)
  \/ Kept

LEMMA PlayItemControl ==
  ASSUME NEW kind \in Kinds, NEW playing \in BOOLEAN,
         PlayItem(player_mode, playing, kind)
  PROVE  Control /\ is_playing' \in BOOLEAN
<1>1. is_playing' \in BOOLEAN
  BY Zenon DEF PlayItem, StopReq
<1>2. CASE StopReq("SEEK")
  BY <1>1, <1>2 DEF Control, Steps
<1>3. CASE player_mode = "STOP" /\ Start(kind)
  BY <1>1, <1>3 DEF Control
<1> QED
  BY <1>1, <1>2, <1>3 DEF PlayItem, Start

LEMMA PlayAtControl ==
  ASSUME TypeOK, NEW l \in Seq(Kinds), NEW i \in Nat, PlayAt(player_mode, l, i)
  PROVE  Control /\ is_playing' \in BOOLEAN
<1>1. is_playing \in BOOLEAN
  BY DEF TypeOK
<1>2. CASE Kept
  <2>1. is_playing' \in BOOLEAN
    BY <1>1, <1>2, Zenon DEF Kept
  <2> QED
    BY <1>2, <2>1 DEF Control
<1>3. CASE \E kind \in Kinds : PlayItem(player_mode, is_playing, kind)
  BY <1>1, <1>3, PlayItemControl
<1> QED
  BY <1>2, <1>3, ItemKind DEF PlayAt, Kept

(* A step of the interface that leaves its queue and the player alone; it   *)
(* runs only after the player took the last request.                        *)
LEMMA ControlIInv ==
  ASSUME IInv, UiRuns, Control, is_playing' \in BOOLEAN,
         play_list' \in Seq(Kinds), play_item_current' \in Nat,
         (Size > 0 => play_item_current < Size)',
         frozen' \in BOOLEAN, UNCHANGED <<uiq, bg, unheard>>
  PROVE  IInv'
<1>1. reqs = <<>>
  BY DEF IInv, OneStage, UiRuns
<1>2. Places("stop")' = Places("stop") /\ OneNotice' /\ (Notice' <=> Notice)
  BY DEF Places, IInv, OneNotice, Notice
<1>3. CASE \E step \in Steps : StopReq(step)
  <2>1. /\ next_step' \in Steps /\ is_playing' = FALSE
        /\ UNCHANGED <<player_mode, reqs>>
    BY <1>3 DEF StopReq
  <2>2. TypeOK'
    BY <2>1 DEF IInv, TypeOK
  <2>3. OneStage' /\ StageToCome'
    BY <1>1, <1>2, <2>1 DEF IInv, OneStage, StageToCome
  <2> QED
    BY <1>2, <2>1, <2>2, <2>3 DEF IInv, StopRequestStands
<1>4. CASE player_mode = "STOP" /\ \E kind \in Kinds : Start(kind)
  <2>1. PICK kind \in Kinds : Start(kind)
    BY <1>4
  <2>2. /\ player_mode' \in {"FILE", "RADIO"} /\ next_step' = "NEXT"
        /\ reqs' = <<kind>>
    BY <1>1, <2>1, PlayerAssumption DEF Start, ModeOf, PlayReq
  <2>3. TypeOK'
    BY <2>2, PlayerAssumption DEF IInv, TypeOK, Modes, Steps
  <2>4. OneStage' /\ StageToCome'
    BY <1>2, <1>4, <2>2 DEF IInv, TypeOK, OneStage, StageToCome
  <2> QED
    BY <1>2, <2>2, <2>3, <2>4 DEF IInv, StopRequestStands
<1>5. CASE Kept
  <2>1. TypeOK'
    BY <1>5 DEF Kept, IInv, TypeOK
  <2> QED
    BY <1>2, <1>5, <2>1 DEF Kept, IInv, OneStage, StageToCome, StopRequestStands
<1> QED
  BY <1>3, <1>4, <1>5 DEF Control

-----------------------------------------------------------------------------
(* The actions.                                                             *)

LEMMA UserIInv ==
  ASSUME IInv, User
  PROVE  IInv'
<1>1. /\ UiRuns /\ play_list \in Seq(Kinds) /\ play_item_current \in Nat
      /\ is_playing \in BOOLEAN
  BY DEF User, function_filelist, function_filelistOther, player_onbutton,
     player_play_list_onitem, function_play_radio, function_douban,
     function_play_radioNoList, UserActs, IInv, TypeOK
<1>2. frozen' \in BOOLEAN /\ UNCHANGED <<uiq, bg, unheard>>
  <2>1. UNCHANGED <<uiq, bg, frozen, unheard>>
    BY DEF User, function_filelist, function_filelistOther, player_onbutton,
       player_play_list_onitem, function_play_radio, function_douban,
       function_play_radioNoList
  <2> QED
    BY <2>1 DEF IInv, TypeOK
<1>3. \A step \in Steps : StopReq(step) => Control /\ is_playing' \in BOOLEAN
  <2>1. \A step : StopReq(step) => is_playing' \in BOOLEAN
    BY Zenon DEF StopReq
  <2> QED
    BY <2>1 DEF Control
<1> DEFINE ListKept == /\ play_list' \in Seq(Kinds) /\ play_item_current' \in Nat
                       /\ (Size > 0 => play_item_current < Size)'
<1>4. UNCHANGED list => ListKept
  BY DEF list, IInv, TypeOK, Size
<1>5. CASE player_onbutton
  <2>1. Control /\ is_playing' \in BOOLEAN
    BY <1>1, <1>3, <1>5, PlayAtControl DEF player_onbutton, Steps, IInv
  <2> QED
    BY <1>1, <1>2, <1>4, <1>5, <2>1, ControlIInv DEF player_onbutton
<1>6. CASE player_play_list_onitem
  <2>1. PICK n \in 0..Size-1 :
          /\ play_item_current' = n
          /\ IF player_mode = "STOP" THEN PlayAt(player_mode, play_list, n)
             ELSE StopReq(IF n = play_item_current THEN "STOP" ELSE "SEEK")
    BY <1>6 DEF player_play_list_onitem
  <2>2. Control /\ is_playing' \in BOOLEAN
    <3>1. n \in Nat
      BY <1>1 DEF Size
    <3> QED
      BY <1>1, <1>3, <2>1, <3>1, PlayAtControl DEF Steps, IInv
  <2>3. UNCHANGED play_list
    BY <1>6 DEF player_play_list_onitem
  <2>4. ListKept
    BY <1>1, <2>1, <2>3 DEF Size
  <2> QED
    BY <1>1, <1>2, <2>2, <2>4, ControlIInv
<1>7. CASE function_play_radio \/ function_douban
  <2>1. PICK kind \in Kinds : /\ play_list' = <<kind>> /\ play_item_current' = 0
                              /\ PlayItem(player_mode, is_playing, kind)
    BY <1>7 DEF function_play_radio, function_douban
  <2>2. ListKept
    BY <2>1 DEF Size
  <2> QED
    BY <1>1, <1>2, <2>1, <2>2, PlayItemControl, ControlIInv
<1>8. CASE function_play_radioNoList
  <2>1. PICK kind \in Kinds : PlayItem(player_mode, is_playing, kind)
    BY <1>1, <1>8 DEF function_play_radioNoList, Size
  <2>2. /\ UNCHANGED play_list
        /\ play_item_current' = IF Size > 0 THEN 0 ELSE play_item_current
    BY <1>8 DEF function_play_radioNoList
  <2>3. ListKept
    BY <1>1, <2>2 DEF Size
  <2> QED
    BY <1>1, <1>2, <2>1, <2>3, PlayItemControl, ControlIInv
<1>9. CASE function_filelist
  <2>1. play_list' \in Seq(Kinds) /\ Len(play_list') \in Nat
    BY <1>9 DEF function_filelist, Lists
  <2>2. CASE play_list' = <<>>
    <3>1. StopReq("STOP") /\ UNCHANGED play_item_current
      BY <1>9, <2>2 DEF function_filelist
    <3>2. ListKept
      BY <1>1, <2>1, <2>2, <3>1 DEF Size
    <3> QED
      BY <1>1, <1>2, <1>3, <3>1, <3>2, ControlIInv DEF Steps
  <2>3. CASE play_list' # <<>>
    <3>1. /\ PlayItem(player_mode, FALSE, play_list'[1]) /\ play_item_current' = 0
          /\ play_list'[1] \in Kinds
      <4>1. play_list'[1] \in Kinds
        BY <2>1, <2>3
      <4>2. PlayItem(player_mode, FALSE, play_list'[1]) /\ play_item_current' = 0
        BY <1>9, <2>3, Zenon DEF function_filelist
      <4> QED
        BY <4>1, <4>2
    <3>2. ListKept
      BY <2>1, <2>3, <3>1 DEF Size
    <3> QED
      BY <1>1, <1>2, <3>1, <3>2, PlayItemControl, ControlIInv
  <2> QED
    BY <2>2, <2>3
<1>10. CASE function_filelistOther
  BY <1>1, <1>2, <1>3, <1>4, <1>10, ControlIInv DEF function_filelistOther, Steps
<1> QED
  BY <1>5, <1>6, <1>7, <1>8, <1>9, <1>10 DEF User

LEMMA HandleIInv ==
  ASSUME IInv, Handle
  PROVE  IInv'
<1>1. CASE OnPlayOrInfo
  <2>1. PICK msg \in {"play", "info"} : Receive(msg)
    BY <1>1 DEF OnPlayOrInfo
  <2>2. /\ uiq' \in Seq(Messages) /\ Len(uiq') <= QueueMax
        /\ OneNotice' /\ (Notice' <=> Notice)
    BY <2>1, Received DEF IInv, Messages
  <2>3. UNCHANGED <<ui, is_playing, list, reqs, bg, frozen, unheard>>
    BY <1>1 DEF OnPlayOrInfo
  <2>4. TypeOK'
    BY <2>2, <2>3 DEF ui, list, IInv, TypeOK, Size
  <2>5. OneStage' /\ StageToCome' /\ StopRequestStands'
    BY <2>2, <2>3 DEF ui, IInv, OneStage, StageToCome, StopRequestStands
  <2> QED
    BY <2>2, <2>4, <2>5 DEF IInv
<1>2. CASE OnStop
  <2> DEFINE step == IF player_mode = "RADIO" THEN "STOP" ELSE next_step
             played == \/ step = "SEEK" /\ ItemAt(play_list, play_item_current) # {}
                       \/ step \in {"NEXT", "PREV"} /\ Size > 0
  <2>1. /\ uiq' \in Seq(Messages) /\ Len(uiq') <= QueueMax
        /\ OneNotice' /\ Notice /\ ~Notice'
    BY <1>2, Received DEF OnStop, IInv, Messages
  <2>2. reqs = <<>> /\ bg = "idle" /\ UNCHANGED <<play_list, bg, frozen, unheard>>
    BY <1>2, <2>1 DEF OnStop, IInv, TypeOK, OneStage
  <2>3. CASE played
    <3>1. /\ play_item_current' = IndexFor(step) /\ step \in Steps
          /\ PlayAt("STOP", play_list, play_item_current')
      BY <1>2, <2>3 DEF OnStop, IInv, TypeOK, Steps
    <3>2. /\ play_item_current' \in Nat /\ (Size > 0 => play_item_current' < Size)
          /\ play_list \in Seq(Kinds)
      BY <3>1, IndexInList DEF IInv, TypeOK
    <3>3. ItemAt(play_list, play_item_current') # {}
      <4>1. CASE step = "SEEK"
        BY <2>3, <3>1, <4>1 DEF IndexFor
      <4>2. CASE step \in {"NEXT", "PREV"} /\ Size > 0
        BY <3>2, <4>2, ItemKind DEF Size
      <4> QED
        BY <2>3, <4>1, <4>2
    <3>4. PICK kind \in Kinds : Start(kind) /\ is_playing' = is_playing
      BY <3>1, <3>2, <3>3, ItemKind DEF PlayAt, PlayItem, Start
    <3>5. /\ player_mode' \in {"FILE", "RADIO"} /\ next_step' = "NEXT"
          /\ reqs' = <<kind>>
      BY <2>2, <3>4, PlayerAssumption DEF Start, ModeOf, PlayReq
    <3>6. TypeOK'
      BY <2>1, <2>2, <3>2, <3>4, <3>5, PlayerAssumption DEF IInv, TypeOK, Modes, Steps, Size
    <3>7. OneStage' /\ StageToCome' /\ StopRequestStands'
      BY <2>1, <2>2, <3>5 DEF OneStage, StageToCome, StopRequestStands
    <3> QED
      BY <2>1, <3>6, <3>7 DEF IInv
  <2>4. CASE ~played
    <3>1. /\ player_mode' = "STOP" /\ next_step' = step /\ step \in Steps
          /\ UNCHANGED <<play_item_current, is_playing, reqs>>
      BY <1>2, <2>4 DEF OnStop, IInv, TypeOK, Steps
    <3>2. TypeOK'
      BY <2>1, <2>2, <3>1 DEF IInv, TypeOK, Modes, Size
    <3>3. OneStage' /\ StageToCome' /\ StopRequestStands'
      BY <2>1, <2>2, <3>1 DEF IInv, OneStage, StageToCome, StopRequestStands
    <3> QED
      BY <2>1, <3>2, <3>3 DEF IInv
  <2> QED
    BY <2>3, <2>4
<1>3. CASE OnFreeze
  <2>1. /\ uiq' \in Seq(Messages) /\ Len(uiq') <= QueueMax
        /\ OneNotice' /\ (Notice' <=> Notice)
    BY <1>3, Received DEF OnFreeze, IInv, Messages
  <2>2. UNCHANGED <<list, bg, unheard, player_mode, reqs>>
    BY <1>3 DEF OnFreeze, StopReq, ui
  <2>3. frozen' \in BOOLEAN
    BY <1>3, Zenon DEF OnFreeze
  <2>4. reqs = <<>>
    BY <1>3 DEF OnFreeze, Receive, UiRuns, IInv, OneStage
  <2>5. next_step' \in Steps /\ is_playing' \in BOOLEAN /\ ~is_playing'
    <3>1. CASE is_playing
      BY <1>3, <3>1 DEF OnFreeze, StopReq, Steps
    <3>2. CASE ~is_playing
      BY <1>3, <3>2 DEF OnFreeze, ui, IInv, TypeOK
    <3> QED
      BY <3>1, <3>2
  <2>6. TypeOK'
    BY <2>1, <2>2, <2>3, <2>5 DEF list, IInv, TypeOK, Size
  <2>7. OneStage' /\ StageToCome' /\ StopRequestStands'
    BY <2>1, <2>2, <2>4, <2>5 DEF IInv, OneStage, StageToCome, StopRequestStands
  <2> QED
    BY <2>1, <2>6, <2>7 DEF IInv
<1> QED
  BY <1>1, <1>2, <1>3 DEF Handle

LEMMA PlayerIInv ==
  ASSUME IInv, player_thread
  PROVE  IInv'
<1>1. /\ bg = "idle" /\ Len(reqs) = 1 /\ reqs' = <<>> /\ ~Notice
      /\ player_mode # "STOP" /\ next_step = "NEXT"
      /\ UNCHANGED <<ui, list, frozen>>
  <2>1. reqs # <<>> /\ reqs' = Tail(reqs) /\ UNCHANGED <<ui, list, frozen>>
    BY DEF player_thread
  <2>2. /\ bg = "idle" /\ Len(reqs) <= 1 /\ ~Notice
        /\ player_mode # "STOP" /\ next_step = "NEXT"
    BY <2>1 DEF IInv, OneStage
  <2>3. reqs \in Seq(Kinds)
    BY DEF IInv, TypeOK
  <2>4. Len(reqs) = 1 /\ reqs' = <<>>
    <3>1. Len(reqs) = 1
      <4>1. Len(reqs) \in Nat /\ (Len(reqs) = 0 => reqs = <<>>)
        BY <2>3
      <4>2. Len(reqs) <= 1 /\ Len(reqs) # 0
        BY <2>1, <2>2, <4>1
      <4>3. \A n \in Nat : n <= 1 /\ n # 0 => n = 1
        OBVIOUS
      <4> QED
        BY <4>1, <4>2, <4>3
    <3>2. Tail(reqs) \in Seq(Kinds) /\ Len(Tail(reqs)) = 0
      BY <2>1, <2>3, <3>1
    <3> QED
      BY <2>1, <3>1, <3>2
  <2> QED
    BY <2>1, <2>2, <2>4
<1>2. unheard' \in BOOLEAN
  BY Zenon DEF player_thread
<1>3. CASE Playable(Head(reqs))
  <2>1. bg' = "playing" /\ is_playing' = TRUE /\ uiq' = Send(uiq, "play")
    BY <1>3 DEF player_thread
  <2>2. uiq' \in Seq(Messages) /\ Len(uiq') <= QueueMax /\ Places("stop")' = Places("stop")
    BY <2>1, SendType, SendOther DEF IInv, Messages
  <2>3. TypeOK'
    BY <1>1, <1>2, <2>1, <2>2, PlayerAssumption DEF ui, list, IInv, TypeOK, Size
  <2>4. OneStage' /\ OneNotice' /\ StageToCome' /\ StopRequestStands'
    BY <1>1, <2>1, <2>2
       DEF ui, IInv, OneStage, OneNotice, Notice, StageToCome, StopRequestStands
  <2> QED
    BY <2>3, <2>4 DEF IInv
<1>4. CASE ~Playable(Head(reqs))
  <2>1. UNCHANGED <<bg, is_playing, uiq>> /\ unheard'
    BY <1>4 DEF player_thread
  <2>2. TypeOK'
    BY <1>1, <1>2, <2>1, PlayerAssumption DEF ui, list, IInv, TypeOK, Size
  <2>3. Places("stop")' = Places("stop")
    BY <2>1 DEF Places
  <2>4. OneStage' /\ OneNotice' /\ StageToCome' /\ StopRequestStands'
    BY <1>1, <2>1, <2>3
       DEF ui, IInv, OneStage, OneNotice, Notice, StageToCome, StopRequestStands
  <2> QED
    BY <2>2, <2>4 DEF IInv
<1> QED
  BY <1>3, <1>4

LEMMA EndsIInv ==
  ASSUME IInv, PlayerEnds
  PROVE  IInv'
<1>1. /\ bg = "playing" /\ bg' = "idle" /\ uiq' = Send(uiq, "stop")
      /\ is_playing' = FALSE /\ UNCHANGED <<ui, list, reqs, frozen>>
  BY DEF PlayerEnds
<1>2. unheard' \in BOOLEAN
  BY Zenon DEF PlayerEnds
<1>3. reqs = <<>> /\ ~Notice /\ player_mode # "STOP"
  BY <1>1 DEF IInv, OneStage
<1>4. /\ uiq' \in Seq(Messages) /\ Len(uiq') <= QueueMax
      /\ OneNotice' /\ (Len(uiq) < QueueMax => Notice')
  BY <1>1, <1>3, SendType, SendStop DEF IInv, Messages
<1>5. unheard' \/ Len(uiq) < QueueMax
  <2>1. Len(uiq) >= QueueMax => unheard'
    BY Zenon DEF PlayerEnds
  <2>2. Len(uiq) \in Nat /\ QueueMax \in Nat
    BY PlayerAssumption DEF IInv, TypeOK
  <2> QED
    BY <2>1, <2>2
<1>6. TypeOK'
  BY <1>1, <1>2, <1>4 DEF ui, list, IInv, TypeOK, Size
<1>7. OneStage' /\ StageToCome' /\ StopRequestStands'
  BY <1>1, <1>3, <1>4, <1>5 DEF ui, IInv, OneStage, StageToCome, StopRequestStands
<1> QED
  BY <1>4, <1>6, <1>7 DEF IInv

LEMMA MessageIInv ==
  ASSUME IInv, Info \/ player_ui_freeze
  PROVE  IInv'
<1>1. PICK msg \in {"info", "freeze"} : uiq' = Send(uiq, msg)
  BY DEF Info, player_ui_freeze
<1>2. UNCHANGED <<ui, is_playing, list, reqs, bg, frozen, unheard>>
  BY DEF Info, player_ui_freeze
<1>3. uiq' \in Seq(Messages) /\ Len(uiq') <= QueueMax /\ Places("stop")' = Places("stop")
  BY <1>1, SendType, SendOther DEF IInv, Messages
<1>4. TypeOK'
  BY <1>2, <1>3 DEF ui, list, IInv, TypeOK, Size
<1>5. OneStage' /\ OneNotice' /\ StageToCome' /\ StopRequestStands'
  BY <1>2, <1>3
     DEF ui, IInv, OneStage, OneNotice, Notice, StageToCome, StopRequestStands
<1> QED
  BY <1>4, <1>5 DEF IInv

LEMMA InitIInv == Init => IInv
<1> SUFFICES ASSUME Init PROVE IInv
  OBVIOUS
<1>1. is_playing \in BOOLEAN /\ frozen \in BOOLEAN /\ unheard \in BOOLEAN
  BY Zenon DEF Init
<1>2. TypeOK
  BY <1>1, PlayerAssumption DEF Init, TypeOK, Modes, Steps, Size
<1>3. Places("stop") = {}
  BY DEF Init, Places
<1> QED
  BY <1>2, <1>3 DEF Init, IInv, OneStage, OneNotice, Notice, StageToCome, StopRequestStands

LEMMA Invariance == Spec => []IInv
<1>1. ASSUME IInv, Next PROVE IInv'
  BY <1>1, UserIInv, HandleIInv, PlayerIInv, EndsIInv, MessageIInv DEF Next
<1>2. ASSUME IInv, UNCHANGED vars PROVE IInv'
  <2>1. TypeOK'
    BY <1>2 DEF vars, ui, list, IInv, TypeOK, Size
  <2>2. Places("stop")' = Places("stop")
    BY <1>2 DEF vars, Places
  <2> QED
    BY <1>2, <2>1, <2>2 DEF vars, ui, list, IInv, OneStage, OneNotice, Notice,
       StageToCome, StopRequestStands
<1> QED
  BY <1>1, <1>2, InitIInv, PTL DEF Spec

-----------------------------------------------------------------------------

(* The queues keep their lengths and the current item is one of the list    *)
(* (play_list.c), for any queues and lists.                                 *)
THEOREM TypeCorrect == Spec => []TypeOK
<1>1. IInv => TypeOK
  BY DEF IInv
<1> QED
  BY <1>1, Invariance, PTL

(* There is one session at most, whatever the user presses and whichever    *)
(* messages are lost (player_ui.c, player_play_item; player_bg.c).          *)
THEOREM OneSessionAtATime == Spec => []OneSession
<1>1. IInv => OneSession
  BY SessionsCount DEF IInv, OneSession, OneStage
<1> QED
  BY <1>1, Invariance, PTL

(* A request to stop is never undone by the start of its item (player_bg.c, *)
(* is_playing).                                                             *)
THEOREM StopIsNotUndone == Spec => []StopRequestStands
<1>1. IInv => StopRequestStands
  BY DEF IInv
<1> QED
  BY <1>1, Invariance, PTL

(* The interface's mode is that of the player, unless it was not told       *)
(* (player_ui.c, player_mode).                                              *)
THEOREM ModeIsRight == Spec => []ModeAgrees
<1>1. IInv => ModeAgrees
  BY SessionsCount DEF IInv, ModeAgrees, StageToCome, OneStage
<1> QED
  BY <1>1, Invariance, PTL

-----------------------------------------------------------------------------
(* The remote control: its variables and their ranges.                      *)

RemoteTypeOK ==
  /\ rem_mode \in {"disable", "study", "enable"}
  /\ rx_count \in 0..MaxLen /\ rm_code \in [0..MaxLen-1 -> Nat]
  /\ p_rem_code_src \in [Keys -> Seq(Nat)] /\ file \in Seq(Seq(Nat))
  /\ sem_IR \in Nat /\ quiet \in 0..2
  /\ irq \in BOOLEAN /\ late \in BOOLEAN /\ fault \in BOOLEAN
  /\ sent \in {None} \cup (Buttons \X Nat)
  /\ sent # None => sent[2] < Len(Code[sent[1]])
  /\ remote \in [at : {"take", "zero", "reset", "compare", "post"}, k : Keys, j : Nat]
  /\ study \in [at : {"none", "mode", "count", "open", "clear", "wait", "scan", "copy",
                      "write", "rearm", "close", "done"}, k : Keys, j : 0..MaxLen-1]
  /\ heard \subseteq Buttons
  /\ slot \in {None, Spoilt} \cup (Buttons \X {"part", "whole"})

(* The mode goes with the thread that is at work, and with the capture off. *)
Turns ==
  /\ study.at \notin {"none", "mode"} => rem_mode = "study"
  /\ remote.at \in {"zero", "reset", "compare"} => rem_mode = "enable"
  /\ remote.at \in {"take", "zero", "reset"} => remote.j = 0
  /\ ~irq => rem_mode = "study" /\ study.at \notin {"close", "done"}

(* The first n intervals of b are at the beginning of the buffer.           *)
Captured(b, n) == \A i \in 2..n : rm_code[i - 1] = Code[b][i]

(* The burst in slot is still arriving, and the thread is not quiet.        *)
Arriving(b) ==
  slot = <<b, "part">> =>
    /\ rx_count > 0
    /\ Len(Code[b]) # 1 =>
         /\ study.at = "wait" /\ irq /\ quiet = 0 /\ sent = <<b, rx_count>>
         /\ Captured(b, rx_count)

Arrived(b) ==
  slot = <<b, "whole">> =>
    /\ rx_count >= Len(Code[b]) /\ Captured(b, Len(Code[b]))
    /\ study.at = "copy" => study.j + 1 >= Len(Code[b])

Learning ==
  /\ study.at \in {"open", "clear", "wait"} /\ slot = None => rx_count = 0
  /\ study.at \in {"scan", "copy"} => slot # None /\ rx_count > 0 /\ rm_code[0] = 0
  /\ study.at \in {"wait", "scan", "copy"} => \A b \in Buttons : Arriving(b) /\ Arrived(b)

(* The first m intervals of b are at the beginning of the n that have been  *)
(* captured, and behind them b has ended, or broken off.                    *)
Begun(b, m, n) ==
  /\ m \in 1..Len(Code[b]) /\ m <= n /\ Captured(b, m)
  /\ m = Len(Code[b]) \/ m = n \/ rm_code[m] = Gap

(* Not the beginning of a burst whose next interval will not follow.        *)
GoesOn(b, m) ==
  m = rx_count /\ m < Len(Code[b]) /\ sent # None => sent[2] = 0 \/ sent = <<b, m>>

LateOutside ==
  /\ study.at \notin {"none", "mode", "count"} /\ rx_count > 0 => late
  /\ remote.at = "compare" /\ rx_count > 0 => late

Listening ==
  rem_mode = "enable" /\ ~late /\ remote.at \in {"take", "post"} /\ rx_count > 0 =>
    /\ sem_IR > 0 => rx_count = Len(p_rem_code_src[0])
    /\ \E b \in heard : \E m \in Nat : Begun(b, m, rx_count) /\ GoesOn(b, m)

Comparing ==
  ~late /\ remote.at \in {"zero", "reset", "compare"} =>
    \E b \in heard : \E m \in Nat : Begun(b, m, Len(p_rem_code_src[0]))

Matched ==
  /\ ~late /\ remote.at \in {"reset", "compare"} => rm_code[0] = 0
  /\ ~late /\ remote.at = "compare" =>
       \A i \in 1..remote.j : rm_code[i - 1] = p_rem_code_src[remote.k][i]

Hearing == LateOutside /\ Listening /\ Comparing /\ Matched

RemoteInv == RemoteTypeOK /\ (~fault => Turns /\ Learning /\ Hearing)

-----------------------------------------------------------------------------
(* Types.                                                                   *)

(* The constants, as far as arithmetic needs them.                          *)
LEMMA Sizes ==
  K \in Nat /\ K > 0 /\ MaxLen \in Nat /\ MaxLen > 1 /\ Room \in 0..MaxLen /\ Gap \in Nat
BY RemoteAssumption DEF RemoteAssumption

LEMMA PrefixOfEqual ==
  ASSUME NEW s \in Seq(Nat), NEW t \in Seq(Nat), Len(s) <= Len(t),
         \A i \in 1..Len(s) : s[i] = t[i]
  PROVE  IsPrefix(s, t)
<1>1. SubSeq(s, 1, Len(s)) = SubSeq(t, 1, Len(s))
  OBVIOUS
<1> QED
  BY <1>1 DEF IsPrefix

(* What rem_start makes of a file.                                          *)
LEMMA LoadedType ==
  ASSUME NEW f \in Seq(Seq(Nat))
  PROVE  Loaded(f) \in [Keys -> Seq(Nat)] /\ ModeFor(f) \in {"disable", "enable"}
         /\ Misread(f) \in BOOLEAN
BY Sizes DEF Loaded, ModeFor, Misread, Keys

(* The code of a button.                                                    *)
LEMMA CodeType ==
  ASSUME NEW b \in Buttons
  PROVE  /\ Code[b] \in Seq(Nat) /\ Len(Code[b]) \in Nat
         /\ Len(Code[b]) >= 1 /\ Len(Code[b]) <= MaxLen
         /\ Code[b][1] = 0
         /\ \A i \in 1..Len(Code[b]) : Code[b][i] \in Nat
         /\ \A i \in 2..Len(Code[b]) : Code[b][i] # 0 /\ Code[b][i] # Gap
BY RemoteAssumption DEF RemoteAssumption

(* The burst that arrives.                                                  *)
LEMMA SentType ==
  ASSUME RemoteTypeOK, sent # None
  PROVE  \E b \in Buttons : \E n \in Nat : sent = <<b, n>> /\ n < Len(Code[b])
BY DEF RemoteTypeOK

LEMMA StoreType ==
  ASSUME RemoteTypeOK, NEW value \in Nat, Store(value)
  PROVE  /\ rx_count' \in 0..MaxLen /\ rm_code' \in [0..MaxLen-1 -> Nat]
         /\ sem_IR' \in Nat
<1> DEFINE n == IF Begins THEN 0 ELSE rx_count
           stored == rem_mode # "disable" /\ n < MaxLen
<1>1. n \in 0..MaxLen /\ MaxLen \in Nat
  BY RemoteAssumption DEF RemoteTypeOK, RemoteAssumption
<1>2. /\ rx_count' = IF stored THEN n + 1 ELSE n
      /\ rm_code' = IF stored THEN [rm_code EXCEPT ![n] = value] ELSE rm_code
      /\ sem_IR' = sem_IR + 1 \/ sem_IR' = sem_IR
  BY DEF Store
<1> HIDE DEF n, stored
<1>3. stored => n < MaxLen
  BY DEF stored
<1> QED
  BY <1>1, <1>2, <1>3 DEF RemoteTypeOK

LEMMA NoteType ==
  ASSUME RemoteTypeOK, NEW b \in Buttons, Note(b)
  PROVE  /\ heard' \subseteq Buttons /\ late' \in BOOLEAN
         /\ slot' \in {None, Spoilt} \cup (Buttons \X {"part", "whole"})
<1>1. heard' \subseteq Buttons
  BY DEF Note, RemoteTypeOK
<1>2. late' \in BOOLEAN
  <2>1. late' = (\/ rem_mode # "enable" \/ sem_IR > 0 \/ remote.at \notin {"take", "post"}
                \/ Middle \/ (late /\ ~Begins))
    BY DEF Note
  <2> QED
    BY <2>1
<1>3. slot' \in {slot, Spoilt, <<b, "part">>, <<b, "whole">>}
  BY DEF Note
<1> QED
  BY <1>1, <1>2, <1>3 DEF RemoteTypeOK

(* The thread that compares keeps the ranges.                               *)
LEMMA ThreadTypes ==
  ASSUME RemoteTypeOK, remote_thread
  PROVE  RemoteTypeOK'
<1>1. Idle \in [at : {"take", "zero", "reset", "compare", "post"}, k : Keys, j : Nat]
  BY Sizes DEF Idle, Keys
<1>2. UNCHANGED <<rem_mode, p_rem_code_src, irq, quiet, presses, sent, study, file, late, slot, fault>>
  BY DEF remote_thread
<1>3. Take \/ Zero \/ Reset \/ Compare \/ Post
  BY DEF remote_thread
<1>4. /\ rx_count' \in 0..MaxLen /\ rm_code' \in [0..MaxLen-1 -> Nat] /\ sem_IR' \in Nat
      /\ heard' \subseteq Buttons
      /\ remote' \in [at : {"take", "zero", "reset", "compare", "post"}, k : Keys, j : Nat]
  <2>1. CASE Take
    <3>1. sem_IR' \in Nat
      BY <2>1 DEF Take, RemoteTypeOK
    <3>2. remote' = [remote EXCEPT !.at = "zero"] \/ remote' = Idle
      BY <2>1, Zenon DEF Take
    <3>3. remote' \in [at : {"take", "zero", "reset", "compare", "post"}, k : Keys, j : Nat]
      BY <1>1, <3>2 DEF RemoteTypeOK
    <3> QED
      BY <2>1, <3>1, <3>3 DEF Take, RemoteTypeOK
  <2>2. CASE Zero
    BY <2>2, Sizes DEF Zero, Cleared, RemoteTypeOK
  <2>3. CASE Reset
    <3>1. remote' = [remote EXCEPT !.at = "compare"] /\ rx_count' = 0
      BY <2>3 DEF Reset
    <3>2. remote' \in [at : {"take", "zero", "reset", "compare", "post"}, k : Keys, j : Nat]
      BY <3>1 DEF RemoteTypeOK
    <3> QED
      BY <2>3, <3>1, <3>2, Sizes DEF Reset, RemoteTypeOK
  <2>4. CASE Compare
    <3>1. remote.k \in Keys /\ remote.j \in Nat /\ (remote.k + 1 < K => remote.k + 1 \in Keys)
      BY Sizes DEF RemoteTypeOK, Keys
    <3>2. \/ remote' = [remote EXCEPT !.j = @ + 1]
          \/ remote' = [remote EXCEPT !.at = "post"]
          \/ remote.k + 1 < K /\ remote' = [remote EXCEPT !.k = @ + 1, !.j = 0]
          \/ remote' = Idle
      BY <2>4, Zenon DEF Compare
    <3>3. remote' \in [at : {"take", "zero", "reset", "compare", "post"}, k : Keys, j : Nat]
      <4>1. remote \in [at : {"take", "zero", "reset", "compare", "post"}, k : Keys, j : Nat]
        BY DEF RemoteTypeOK
      <4>2. CASE remote' = [remote EXCEPT !.j = @ + 1]
        BY <4>1, <4>2
      <4>3. CASE remote' = [remote EXCEPT !.at = "post"]
        BY <4>1, <4>3
      <4>4. CASE remote.k + 1 < K /\ remote' = [remote EXCEPT !.k = @ + 1, !.j = 0]
        BY <3>1, <4>1, <4>4
      <4> QED
        BY <1>1, <3>2, <4>2, <4>3, <4>4
    <3>4. heard' \subseteq Buttons /\ UNCHANGED captureVars
      BY <2>4 DEF Compare, RemoteTypeOK
    <3> QED
      BY <3>3, <3>4 DEF RemoteTypeOK, captureVars
  <2>5. CASE Post
    BY <2>5, <1>1 DEF Post, captureVars, RemoteTypeOK
  <2> QED
    BY <1>3, <2>1, <2>2, <2>3, <2>4, <2>5
<1> QED
  BY <1>2, <1>4 DEF RemoteTypeOK

(* So does the thread that learns.                                          *)
LEMMA StudyTypes ==
  ASSUME RemoteTypeOK, remote_study_thread
  PROVE  RemoteTypeOK'
<1> DEFINE Studies == [at : {"none", "mode", "count", "open", "clear", "wait", "scan", "copy",
                             "write", "rearm", "close", "done"}, k : Keys, j : 0..MaxLen-1]
<1>1. NoStudy \in Studies
  BY Sizes DEF NoStudy, Keys
<1>2. UNCHANGED <<sem_IR, quiet, presses, sent, remote, heard, late>>
  BY DEF remote_study_thread
<1>3. study \in Studies
  BY DEF RemoteTypeOK
<1>4. ASSUME NEW there \in {"none", "mode", "count", "open", "clear", "wait", "scan", "copy",
                            "write", "rearm", "close", "done"}
      PROVE  [study EXCEPT !.at = there] \in Studies
  BY <1>3
<1>5. 0 \in 0..MaxLen-1
  BY Sizes
<1>6. /\ rem_mode' \in {"disable", "study", "enable"}
      /\ rx_count' \in 0..MaxLen /\ rm_code' \in [0..MaxLen-1 -> Nat]
      /\ p_rem_code_src' \in [Keys -> Seq(Nat)] /\ file' \in Seq(Seq(Nat))
      /\ irq' \in BOOLEAN /\ fault' \in BOOLEAN
      /\ study' \in Studies
      /\ slot' \in {None, Spoilt} \cup (Buttons \X {"part", "whole"})
  <2>1. CASE SetMode \/ SetCount \/ Done
    <3>1. study' \in Studies
      BY <2>1, <1>1, <1>4 DEF SetMode, SetCount, Done, Goto
    <3> QED
      BY <2>1, <3>1, Sizes DEF SetMode, SetCount, Done, RemoteTypeOK
  <2>2. CASE Open
    <3>1. study' \in Studies
      BY <2>2, <1>1, <1>4 DEF Open, Goto
    <3>2. file' = <<>> \/ file' = file
      BY <2>2 DEF Open
    <3>3. file' \in Seq(Seq(Nat))
      <4>1. <<>> \in Seq(Seq(Nat)) /\ file \in Seq(Seq(Nat))
        BY DEF RemoteTypeOK
      <4> QED
        BY <3>2, <4>1, Zenon
    <3> QED
      BY <2>2, <3>1, <3>3 DEF Open, RemoteTypeOK
  <2>3. CASE Clear
    <3>1. study' \in Studies
      BY <2>3, <1>4 DEF Clear, Goto
    <3> QED
      BY <2>3, <3>1, Sizes DEF Clear, Cleared, RemoteTypeOK
  <2>4. CASE Wait
    <3>1. study' \in Studies
      BY <2>4, <1>3, <1>5 DEF Wait
    <3> QED
      BY <2>4, <3>1, Sizes DEF Wait, Cleared, RemoteTypeOK
  <2>5. CASE Scan
    <3>1. study' \in Studies /\ fault' \in BOOLEAN
      <4>1. CASE study.j = MaxLen - 1
        <5>1. UNCHANGED fault \/ fault' = TRUE
          BY <2>5, <4>1, Zenon DEF Scan
        <5>2. UNCHANGED study \/ Goto("copy")
          BY <2>5, <4>1, Zenon DEF Scan
        <5> QED
          <6>1. study' \in Studies
            BY <5>2, <1>3, <1>4 DEF Goto
          <6>2. fault' \in BOOLEAN
            BY <5>1, Zenon DEF RemoteTypeOK
          <6> QED
            BY <6>1, <6>2
      <4>2. CASE study.j # MaxLen - 1
        <5>1. UNCHANGED fault
          BY <2>5, <4>2 DEF Scan
        <5>2. study' = [study EXCEPT !.at = "copy"] \/ study' = [study EXCEPT !.j = @ + 1]
          BY <2>5, <4>2, Zenon DEF Scan
        <5>3. study.j \in 0..MaxLen-1 /\ study.j + 1 \in 0..MaxLen-1
          BY <1>3, <4>2, Sizes
        <5>4. study' \in Studies
          BY <1>3, <1>4, <5>2, <5>3
        <5> QED
          BY <5>1, <5>4 DEF RemoteTypeOK
      <4> QED
        BY <4>1, <4>2
    <3> QED
      BY <2>5, <3>1 DEF Scan, RemoteTypeOK
  <2>6. CASE Copy
    <3>1. [i \in 1..study.j + 1 |-> rm_code[i - 1]] \in Seq(Nat)
      <4>1. study.j + 1 \in Nat /\ MaxLen \in Nat /\ study.j + 1 <= MaxLen
        BY <1>3, Sizes
      <4>2. \A i \in 1..study.j + 1 : rm_code[i - 1] \in Nat
        BY <1>3, <4>1 DEF RemoteTypeOK
      <4> QED
        BY <4>1, <4>2
    <3>2. p_rem_code_src' \in [Keys -> Seq(Nat)]
      BY <2>6, <3>1, Zenon DEF Copy, RemoteTypeOK
    <3>3. study' \in Studies /\ irq' \in BOOLEAN
      BY <2>6, <1>4 DEF Copy, Goto
    <3> QED
      BY <2>6, <3>2, <3>3 DEF Copy, RemoteTypeOK
  <2>7. CASE Write
    <3>1. study' \in Studies
      BY <2>7, <1>1, <1>4 DEF Write, Goto
    <3> QED
      BY <2>7, <3>1 DEF Write, RemoteTypeOK
  <2>8. CASE Rearm
    <3>1. study' \in Studies
      <4>1. study.k \in Nat /\ (study.k + 1 < K => study.k + 1 \in Keys)
        BY <1>3, Sizes DEF Keys
      <4>2. study.k + 1 < K => [at |-> "clear", k |-> study.k + 1, j |-> 0] \in Studies
        BY <1>5, <4>1
      <4>3. [study EXCEPT !.at = "close"] \in Studies
        BY <1>4
      <4> QED
        BY <2>8, <4>2, <4>3, Zenon DEF Rearm, NextKey
    <3>2. irq' \in BOOLEAN
      BY <2>8, Zenon DEF Rearm
    <3> QED
      BY <2>8, <3>1, <3>2, Sizes DEF Rearm, RemoteTypeOK
  <2>9. CASE Close
    <3>1. file' \in Seq(Seq(Nat))
      <4>1. \A i \in 1..K : p_rem_code_src[i - 1] \in Seq(Nat)
        BY Sizes DEF RemoteTypeOK, Keys
      <4>2. [i \in 1..K |-> p_rem_code_src[i - 1]] \in Seq(Seq(Nat))
        BY <4>1, Sizes
      <4> QED
        BY <2>9, <4>2, Zenon DEF Close
    <3>2. study' \in Studies
      BY <2>9, <1>4 DEF Close, Goto
    <3> QED
      BY <2>9, <3>1, <3>2 DEF Close, RemoteTypeOK
  <2> QED
    BY <2>1, <2>2, <2>3, <2>4, <2>5, <2>6, <2>7, <2>8, <2>9 DEF remote_study_thread
<1> QED
  BY <1>2, <1>6 DEF RemoteTypeOK

(* And a start, from whatever the file holds.                               *)
LEMMA StartTypes ==
  ASSUME NEW f \in Seq(Seq(Nat)), file' = f, p_rem_code_src' = Loaded(f),
         rem_mode' = ModeFor(f), fault' = Misread(f),
         rx_count' = 0, sem_IR' = 0, irq' = TRUE, quiet' = 2, sent' = None, rm_code' \in Unset,
         remote' = Idle, study' = NoStudy, heard' = {}, late' = FALSE, slot' = None
  PROVE  RemoteTypeOK'
<1>1. rm_code' \in [0..MaxLen-1 -> Nat]
  BY DEF Unset
<1>2. /\ p_rem_code_src' \in [Keys -> Seq(Nat)] /\ rem_mode' \in {"disable", "enable"}
      /\ fault' \in BOOLEAN
  BY LoadedType
<1>3. 0 \in Keys /\ 0 \in 0..MaxLen-1 /\ 0 \in 0..MaxLen
  BY Sizes DEF Keys
<1>4. remote' \in [at : {"take", "zero", "reset", "compare", "post"}, k : Keys, j : Nat]
  BY <1>3, Sizes DEF Idle
<1>5. study' \in [at : {"none", "mode", "count", "open", "clear", "wait", "scan", "copy",
                        "write", "rearm", "close", "done"}, k : Keys, j : 0..MaxLen-1]
  BY <1>3 DEF NoStudy
<1>6. irq' \in BOOLEAN /\ late' \in BOOLEAN
  BY Zenon
<1> QED
  BY <1>1, <1>2, <1>3, <1>4, <1>5, <1>6 DEF RemoteTypeOK

LEMMA RemoteTypeStep == RemoteTypeOK /\ [RemoteNext]_remote_vars => RemoteTypeOK'
<1> SUFFICES ASSUME RemoteTypeOK, [RemoteNext]_remote_vars PROVE RemoteTypeOK'
  OBVIOUS
<1>1. ASSUME NEW b \in Buttons, Press(b) PROVE RemoteTypeOK'
  <2>1. Len(Code[b]) > 0
    BY CodeType
  <2>2. sent' = <<b, 0>>
    BY <1>1 DEF Press
  <2>3. sent' \in Buttons \X Nat /\ sent'[2] < Len(Code[sent'[1]])
    BY <2>1, <2>2
  <2> QED
    BY <1>1, <2>3 DEF Press, captureVars, historyVars, RemoteTypeOK
<1>2. CASE Lose
  BY <1>2 DEF Lose, captureVars, RemoteTypeOK
<1>3. CASE Tick
  BY <1>3 DEF Tick, captureVars, historyVars, RemoteTypeOK
<1>4. CASE remote_isr
  <2>1. PICK b \in Buttons, n \in Nat : sent = <<b, n>> /\ n < Len(Code[b])
    BY <1>4, SentType DEF remote_isr
  <2>2. sent' = None \/ (n + 1 < Len(Code[b]) /\ sent' = <<b, n + 1>>)
    <3>1. sent[1] = b /\ sent[2] = n
      BY <2>1
    <3>2. sent' = IF sent[2] + 1 = Len(Code[b]) THEN None ELSE <<b, sent[2] + 1>>
      BY <1>4, <3>1 DEF remote_isr
    <3>3. Len(Code[b]) \in Nat
      BY CodeType
    <3>4. CASE n + 1 = Len(Code[b])
      BY <3>1, <3>2, <3>4, Zenon
    <3>5. CASE n + 1 # Len(Code[b])
      <4>1. n + 1 < Len(Code[b])
        BY <2>1, <3>3, <3>5
      <4> QED
        BY <3>1, <3>2, <3>5, <4>1, Zenon
    <3> QED
      BY <3>4, <3>5
  <2>3. /\ sent' \in {None} \cup (Buttons \X Nat)
        /\ sent' # None => sent'[2] < Len(Code[sent'[1]])
    BY <2>2
  <2>4. /\ rx_count' \in 0..MaxLen /\ rm_code' \in [0..MaxLen-1 -> Nat] /\ sem_IR' \in Nat
        /\ quiet' \in 0..2 /\ heard' \subseteq Buttons /\ late' \in BOOLEAN
        /\ slot' \in {None, Spoilt} \cup (Buttons \X {"part", "whole"})
    <3>1. CASE irq
      <4> DEFINE value == IF sent[2] = 0 THEN Gap ELSE Code[b][sent[2] + 1]
      <4>1. value \in Nat
        <5>1. sent[2] = n
          BY <2>1
        <5>2. n # 0 => n + 1 \in 1..Len(Code[b])
          BY <2>1, CodeType
        <5> QED
          BY <5>1, <5>2, CodeType, Sizes
      <4>2. sent[1] = b
        BY <2>1
      <4>3. Store(value) /\ quiet' = 0 /\ Note(b)
        BY <1>4, <3>1, <4>2 DEF remote_isr
      <4> HIDE DEF value
      <4> QED
        BY <4>1, <4>3, StoreType, NoteType
    <3>2. CASE ~irq
      BY <1>4, <3>2 DEF remote_isr, captureVars, historyVars, RemoteTypeOK
    <3> QED
      BY <3>1, <3>2
  <2>5. UNCHANGED <<rem_mode, p_rem_code_src, irq, presses, remote, study, file, fault>>
    BY <1>4 DEF remote_isr
  <2> QED
    BY <2>3, <2>4, <2>5 DEF RemoteTypeOK
<1>5. CASE remote_thread
  BY <1>5, ThreadTypes
<1>6. CASE remote_study_ui
  <2>1. fault' \in BOOLEAN
    BY <1>6, Zenon DEF remote_study_ui, RemoteTypeOK
  <2>2. study' = study \/ study' = [NoStudy EXCEPT !.at = "mode"]
    BY <1>6, Zenon DEF remote_study_ui
  <2>3. study' \in [at : {"none", "mode", "count", "open", "clear", "wait", "scan", "copy",
                          "write", "rearm", "close", "done"}, k : Keys, j : 0..MaxLen-1]
    <3>1. 0 \in Keys /\ 0 \in 0..MaxLen-1
      BY Sizes DEF Keys
    <3>2. study' = study \/ study' = [at |-> "mode", k |-> 0, j |-> 0]
      BY <2>2 DEF NoStudy
    <3> QED
      BY <3>1, <3>2 DEF RemoteTypeOK
  <2> QED
    BY <1>6, <2>1, <2>3 DEF remote_study_ui, captureVars, historyVars, RemoteTypeOK
<1>7. CASE remote_study_thread
  BY <1>7, StudyTypes
<1>8. CASE PowerFails
  <2>1. file \in Seq(Seq(Nat))
    BY DEF RemoteTypeOK
  <2> QED
    BY <1>8, <2>1, StartTypes DEF PowerFails
<1>9. CASE UNCHANGED remote_vars
  BY <1>9 DEF remote_vars, RemoteTypeOK
<1> QED
  BY <1>1, <1>2, <1>3, <1>4, <1>5, <1>6, <1>7, <1>8, <1>9 DEF RemoteNext

LEMMA RemoteTypeInit == RemoteInit => RemoteTypeOK
<1> SUFFICES ASSUME RemoteInit PROVE RemoteTypeOK
  OBVIOUS
<1>1. file \in Seq(Seq(Nat))
  <2>1. PICK n \in 0..K : file \in [1..n -> {Code[b] : b \in Buttons}]
    BY DEF RemoteInit
  <2>2. {Code[b] : b \in Buttons} \subseteq Seq(Nat)
    BY CodeType
  <2>3. n \in Nat /\ file \in [1..n -> Seq(Nat)]
    BY <2>1, <2>2, Sizes
  <2> QED
    BY <2>3
<1>2. /\ p_rem_code_src \in [Keys -> Seq(Nat)] /\ rem_mode \in {"disable", "enable"}
      /\ fault \in BOOLEAN
  BY <1>1, LoadedType DEF RemoteInit
<1>3. rm_code \in [0..MaxLen-1 -> Nat]
  BY DEF RemoteInit, Unset
<1>4. irq \in BOOLEAN /\ late \in BOOLEAN
  BY Zenon DEF RemoteInit
<1>5. 0 \in Keys /\ 0 \in 0..MaxLen-1 /\ 0 \in 0..MaxLen
  BY Sizes DEF Keys
<1>6. remote \in [at : {"take", "zero", "reset", "compare", "post"}, k : Keys, j : Nat]
  BY <1>5 DEF RemoteInit, Idle
<1>7. study \in [at : {"none", "mode", "count", "open", "clear", "wait", "scan", "copy",
                       "write", "rearm", "close", "done"}, k : Keys, j : 0..MaxLen-1]
  BY <1>5 DEF RemoteInit, NoStudy
<1> QED
  BY <1>1, <1>2, <1>3, <1>4, <1>5, <1>6, <1>7 DEF RemoteInit, RemoteTypeOK

-----------------------------------------------------------------------------
(* A capture.                                                               *)

(* No button is taken for what stands for none, or for something spoilt.    *)
LEMMA Tuples ==
  ASSUME NEW b \in Buttons, NEW c \in Buttons, NEW n \in Nat
  PROVE  /\ None # Spoilt
         /\ <<b, "part">> # None /\ <<b, "part">> # Spoilt
         /\ <<b, "whole">> # None /\ <<b, "whole">> # Spoilt
         /\ <<b, n>> # None
         /\ <<b, "part">> # <<c, "whole">>
         /\ <<b, "part">> = <<c, "part">> => b = c
         /\ <<b, "whole">> = <<c, "whole">> => b = c
<1>1. /\ <<b, "part">> \in {b} \X (Nat \cup {"part", "whole"})
      /\ <<b, "whole">> \in {b} \X (Nat \cup {"part", "whole"})
      /\ <<b, n>> \in {b} \X (Nat \cup {"part", "whole"})
  OBVIOUS
<1>2. /\ None # Spoilt
      /\ None \notin {b} \X (Nat \cup {"part", "whole"})
      /\ Spoilt \notin {b} \X (Nat \cup {"part", "whole"})
  BY RemoteAssumption, Zenon DEF RemoteAssumption
<1>3. /\ <<b, "part">> # <<c, "whole">>
      /\ <<b, "part">> = <<c, "part">> => b = c
      /\ <<b, "whole">> = <<c, "whole">> => b = c
  OBVIOUS
<1> QED
  BY <1>1, <1>2, <1>3, Zenon

Captures(b, n) ==
  /\ sent = <<b, n>> /\ n < Len(Code[b])
  /\ n + 1 = Len(Code[b]) => sent' = None
  /\ n + 1 # Len(Code[b]) => sent' = <<b, n + 1>>
  /\ Store(IF n = 0 THEN Gap ELSE Code[b][n + 1]) /\ quiet' = 0 /\ Note(b)

(* The interrupt, with the burst that arrives.                              *)
LEMMA Capture ==
  ASSUME RemoteTypeOK, remote_isr, irq
  PROVE  \E b \in Buttons : \E n \in Nat : Captures(b, n)
<1>1. PICK b \in Buttons, n \in Nat : sent = <<b, n>> /\ n < Len(Code[b])
  BY SentType DEF remote_isr
<1>2. sent[1] = b /\ sent[2] = n
  BY <1>1
<1>3. /\ sent' = IF n + 1 = Len(Code[b]) THEN None ELSE <<b, n + 1>>
      /\ Store(IF n = 0 THEN Gap ELSE Code[b][n + 1]) /\ quiet' = 0 /\ Note(b)
  BY <1>2, Zenon DEF remote_isr
<1> QED
  BY <1>1, <1>3, Zenon DEF Captures

LEMMA InBuffer ==
  ASSUME NEW n \in Nat, n < MaxLen
  PROVE  n \in 0..MaxLen-1
BY Sizes

(* Where an interval goes.                                                  *)
LEMMA Stored ==
  ASSUME RemoteTypeOK, NEW value \in Nat, Store(value), NEW n \in Nat,
         n = IF Begins THEN 0 ELSE rx_count
  PROVE  /\ rem_mode # "disable" /\ n < MaxLen =>
              /\ rx_count' = n + 1 /\ rm_code'[n] = value
              /\ \A i \in 0..MaxLen-1 : i # n => rm_code'[i] = rm_code[i]
         /\ ~(rem_mode # "disable" /\ n < MaxLen) => rx_count' = n /\ rm_code' = rm_code
         /\ sem_IR' = sem_IR \/ (sem_IR' = sem_IR + 1 /\ ~Falling
                                  /\ rx_count' = Len(p_rem_code_src[0]))
<1> DEFINE stored == rem_mode # "disable" /\ n < MaxLen
<1>1. /\ rx_count' = IF stored THEN n + 1 ELSE n
      /\ rm_code' = IF stored THEN [rm_code EXCEPT ![n] = value] ELSE rm_code
      /\ sem_IR' = IF stored /\ rem_mode = "enable" /\ Complete(n + 1)
                   THEN sem_IR + 1 ELSE sem_IR
  BY Zenon DEF Store
<1>2. stored => n \in 0..MaxLen-1
  BY InBuffer
<1>3. CASE stored
  <2>1. rx_count' = n + 1 /\ rm_code' = [rm_code EXCEPT ![n] = value]
    BY <1>1, <1>3, Zenon
  <2>2. rm_code'[n] = value /\ \A i \in 0..MaxLen-1 : i # n => rm_code'[i] = rm_code[i]
    BY <1>2, <1>3, <2>1 DEF RemoteTypeOK
  <2>3. sem_IR' = sem_IR \/ (sem_IR' = sem_IR + 1 /\ ~Falling
                             /\ rx_count' = Len(p_rem_code_src[0]))
    BY <1>1, <2>1 DEF Complete
  <2> QED
    BY <1>3, <2>1, <2>2, <2>3
<1>4. CASE ~stored
  BY <1>1, <1>4, Zenon
<1> QED
  BY <1>3, <1>4

(* What becomes of the burst in slot.                                       *)
LEMMA SlotOf ==
  ASSUME NEW b \in Buttons, NEW n \in Nat, Captures(b, n)
  PROVE  /\ rem_mode # "study" => slot' = slot
         /\ rem_mode = "study" /\ slot = None /\ n = 0 => slot' = <<b, "part">>
         /\ rem_mode = "study" /\ slot = None /\ n # 0 => slot' = Spoilt
         /\ rem_mode = "study" /\ slot = <<b, "part">> /\ n + 1 = Len(Code[b])
              => slot' = <<b, "whole">>
         /\ rem_mode = "study" /\ slot # None /\ ~(slot = <<b, "part">> /\ n + 1 = Len(Code[b]))
              => slot' = slot
<1>1. sent[2] = n
  BY DEF Captures
<1>2. slot' = CASE rem_mode = "study" /\ slot = None /\ sent[2] = 0 -> <<b, "part">>
               [] rem_mode = "study" /\ slot = None /\ sent[2] > 0 -> Spoilt
               [] rem_mode = "study" /\ slot = <<b, "part">> /\ sent[2] + 1 = Len(Code[b])
                    -> <<b, "whole">>
               [] OTHER -> slot
  BY DEF Captures, Note
<1>3. <<b, "part">> # None
  BY Tuples
<1>4. CASE rem_mode # "study"
  BY <1>2, <1>4
<1>5. CASE rem_mode = "study" /\ slot = None
  <2>1. n = 0 \/ n > 0
    OBVIOUS
  <2> QED
    BY <1>1, <1>2, <1>3, <1>5, <2>1
<1>6. CASE rem_mode = "study" /\ slot # None
  BY <1>1, <1>2, <1>6
<1> QED
  BY <1>4, <1>5, <1>6

(* Outside of decoding a burst is appended.                                 *)
LEMMA Appended ==
  ASSUME RemoteTypeOK, rem_mode = "study", NEW b \in Buttons, NEW n \in Nat, Captures(b, n)
  PROVE  /\ rx_count' \in Nat /\ rx_count' >= rx_count /\ rx_count' > 0
         /\ rx_count < MaxLen => rx_count' = rx_count + 1
         /\ \A i \in 0..MaxLen-1 : i < rx_count => rm_code'[i] = rm_code[i]
         /\ n > 0 /\ rx_count < MaxLen => rm_code'[rx_count] = Code[b][n + 1]
<1> DEFINE value == IF n = 0 THEN Gap ELSE Code[b][n + 1]
<1>1. value \in Nat
  <2>1. n # 0 => n + 1 \in 1..Len(Code[b])
    BY CodeType DEF Captures
  <2> QED
    BY <2>1, CodeType, Sizes
<1>2. Store(value)
  BY DEF Captures
<1>3. rx_count \in Nat /\ rx_count = IF Begins THEN 0 ELSE rx_count
  BY DEF Begins, RemoteTypeOK
<1>4. n > 0 => value = Code[b][n + 1]
  OBVIOUS
<1> HIDE DEF value
<1>5. rx_count < MaxLen =>
        /\ rx_count' = rx_count + 1 /\ rm_code'[rx_count] = value
        /\ \A i \in 0..MaxLen-1 : i # rx_count => rm_code'[i] = rm_code[i]
  BY <1>1, <1>2, <1>3, Stored
<1>6. ~(rx_count < MaxLen) => rx_count' = rx_count /\ rm_code' = rm_code
  BY <1>1, <1>2, <1>3, Stored
<1> QED
  BY <1>3, <1>4, <1>5, <1>6, Sizes

(* One interval more.                                                       *)
LEMMA CapturedNext ==
  ASSUME NEW b \in Buttons, NEW n \in Nat, n < MaxLen, Captured(b, n),
         \A i \in 0..MaxLen-1 : i < n => rm_code'[i] = rm_code[i],
         rm_code'[n] = Code[b][n + 1]
  PROVE  Captured(b, n + 1)'
<1> SUFFICES ASSUME NEW i \in 2..n + 1 PROVE rm_code'[i - 1] = Code[b][i]
  BY DEF Captured
<1>1. CASE i = n + 1
  BY <1>1
<1>2. CASE i # n + 1
  <2>1. i \in 2..n /\ i - 1 \in 0..MaxLen-1 /\ i - 1 < n
    BY <1>2, Sizes
  <2> QED
    BY <2>1 DEF Captured
<1> QED
  BY <1>1, <1>2

(* An interval that is captured while a key is learned.                     *)
LEMMA CaptureLearning ==
  ASSUME RemoteTypeOK, Turns, Learning, remote_isr, irq
  PROVE  Learning'
<1>1. PICK b \in Buttons, n \in Nat : Captures(b, n)
  BY Capture
<1>2. UNCHANGED <<rem_mode, irq, study>>
  BY DEF remote_isr
<1>3. CASE study.at \in {"none", "mode", "count"}
  BY <1>2, <1>3 DEF Learning
<1>4. CASE study.at \notin {"none", "mode", "count"}
  <2>1. rem_mode = "study"
    BY <1>4 DEF Turns
  <2>2. slot' # None
    <3>1. slot' \in {slot, Spoilt, <<b, "part">>, <<b, "whole">>} /\ (slot = None => slot' # slot)
      BY <1>1, <2>1, SlotOf, Tuples
    <3> QED
      BY <3>1, Tuples
  <2>3. rx_count \in Nat /\ MaxLen \in Nat /\ MaxLen > 1
    BY Sizes DEF RemoteTypeOK
  <2>4. study.at \in {"scan", "copy"} => slot # None /\ rx_count > 0 /\ rm_code'[0] = 0
    BY <1>1, <2>1, <2>3, Appended DEF Learning
  <2>5. ASSUME study.at \in {"wait", "scan", "copy"}, NEW c \in Buttons
        PROVE  Arriving(c)'
    <3> SUFFICES ASSUME slot' = <<c, "part">>
                 PROVE  /\ rx_count' > 0
                        /\ Len(Code[c]) # 1 =>
                             /\ study.at = "wait" /\ irq /\ quiet' = 0
                             /\ sent' = <<c, rx_count'>> /\ Captured(c, rx_count)'
      BY <1>2 DEF Arriving
    <3>1. \/ slot = None /\ n = 0 /\ c = b
          \/ slot = <<c, "part">> /\ (c = b => n + 1 # Len(Code[b]))
      BY <1>1, <2>1, SlotOf, Tuples
    <3>2. CASE slot = None /\ n = 0 /\ c = b
      <4>1. study.at = "wait" /\ rx_count = 0
        BY <2>4, <2>5, <3>2 DEF Learning
      <4>2. rx_count' = 1
        BY <1>1, <2>1, <2>3, <4>1, Appended
      <4>3. Len(Code[c]) # 1 => sent' = <<c, 1>>
        BY <1>1, <3>2 DEF Captures
      <4>4. irq /\ quiet' = 0
        BY <1>1 DEF Captures
      <4>5. Captured(c, rx_count)'
        BY <4>2 DEF Captured
      <4> QED
        BY <4>1, <4>2, <4>3, <4>4, <4>5
    <3>3. CASE slot = <<c, "part">> /\ (c = b => n + 1 # Len(Code[b]))
      <4>1. rx_count' > 0
        BY <1>1, <2>1, Appended
      <4>2. ASSUME Len(Code[c]) # 1
            PROVE  /\ study.at = "wait" /\ irq /\ quiet' = 0
                   /\ sent' = <<c, rx_count'>> /\ Captured(c, rx_count)'
        <5>1. /\ study.at = "wait" /\ sent = <<c, rx_count>> /\ rx_count > 0
              /\ Captured(c, rx_count)
          BY <2>5, <3>3, <4>2 DEF Learning, Arriving
        <5>2. c = b /\ n = rx_count /\ n < Len(Code[b]) /\ sent' = <<b, n + 1>>
          BY <1>1, <3>3, <5>1 DEF Captures
        <5>3. n < MaxLen
          BY <5>2, <2>3, CodeType
        <5>4. /\ rx_count' = n + 1 /\ rm_code'[n] = Code[b][n + 1]
              /\ \A i \in 0..MaxLen-1 : i < n => rm_code'[i] = rm_code[i]
          BY <1>1, <2>1, <5>1, <5>2, <5>3, Appended
        <5>5. Captured(c, n + 1)'
          BY <5>1, <5>2, <5>3, <5>4, CapturedNext
        <5>6. Captured(c, rx_count)'
          BY <5>4, <5>5 DEF Captured
        <5> QED
          BY <1>1, <5>1, <5>2, <5>4, <5>6 DEF Captures
      <4> QED
        BY <4>1, <4>2
    <3> QED
      BY <3>1, <3>2, <3>3
  <2>6. ASSUME study.at \in {"wait", "scan", "copy"}, NEW c \in Buttons
        PROVE  Arrived(c)'
    <3> SUFFICES ASSUME slot' = <<c, "whole">>
                 PROVE  /\ rx_count' >= Len(Code[c]) /\ Captured(c, Len(Code[c]))'
                        /\ study.at = "copy" => study.j + 1 >= Len(Code[c])
      BY <1>2 DEF Arrived
    <3>1. \/ slot = <<c, "whole">>
          \/ slot = <<c, "part">> /\ c = b /\ n + 1 = Len(Code[b])
      BY <1>1, <2>1, SlotOf, Tuples
    <3>2. Len(Code[c]) \in Nat /\ Len(Code[c]) >= 1 /\ Len(Code[c]) <= MaxLen
      BY CodeType
    <3>3. study.j \in Nat
      BY <2>3 DEF RemoteTypeOK
    <3>4. CASE slot = <<c, "whole">>
      <4>1. /\ rx_count >= Len(Code[c]) /\ Captured(c, Len(Code[c]))
            /\ study.at = "copy" => study.j + 1 >= Len(Code[c])
        BY <2>6, <3>4 DEF Learning, Arrived
      <4>2. /\ rx_count' >= rx_count /\ rx_count' \in Nat
            /\ \A i \in 0..MaxLen-1 : i < rx_count => rm_code'[i] = rm_code[i]
        BY <1>1, <2>1, <2>3, Appended
      <4>3. Captured(c, Len(Code[c]))'
        BY <2>3, <3>2, <4>1, <4>2 DEF Captured
      <4> QED
        BY <2>3, <3>2, <4>1, <4>2, <4>3
    <3>5. CASE slot = <<c, "part">> /\ c = b /\ n + 1 = Len(Code[b])
      <4>1. CASE Len(Code[c]) = 1
        <5>1. rx_count' \in Nat /\ rx_count' > 0
          BY <1>1, <2>1, Appended
        <5>2. rx_count > 0
          BY <2>6, <3>5 DEF Learning, Arriving
        <5>3. Captured(c, Len(Code[c]))'
          BY <4>1 DEF Captured
        <5> QED
          BY <2>3, <3>3, <4>1, <5>1, <5>2, <5>3
      <4>2. CASE Len(Code[c]) # 1
        <5>1. /\ study.at = "wait" /\ sent = <<c, rx_count>> /\ rx_count > 0
              /\ Captured(c, rx_count)
          BY <2>6, <3>5, <4>2 DEF Learning, Arriving
        <5>2. n = rx_count
          BY <1>1, <5>1 DEF Captures
        <5>3. n < MaxLen
          BY <3>2, <3>5, <2>3
        <5>4. /\ rx_count' = n + 1 /\ rm_code'[n] = Code[b][n + 1]
              /\ \A i \in 0..MaxLen-1 : i < n => rm_code'[i] = rm_code[i]
          BY <1>1, <2>1, <5>1, <5>2, <5>3, Appended
        <5>5. Captured(c, n + 1)'
          BY <3>5, <5>1, <5>2, <5>3, <5>4, CapturedNext
        <5> QED
          BY <3>2, <3>5, <5>1, <5>4, <5>5
      <4> QED
        BY <4>1, <4>2
    <3> QED
      BY <3>1, <3>4, <3>5
  <2> QED
    BY <1>1, <1>2, <2>1, <2>2, <2>4, <2>5, <2>6, Appended DEF Learning
<1> QED
  BY <1>3, <1>4

-----------------------------------------------------------------------------
(* The other steps.                                                         *)

(* The mode changes only with the thread that is at work.                   *)
LEMMA TurnsStep ==
  ASSUME RemoteTypeOK, Turns,
         \/ \E b \in Buttons : Press(b)
         \/ Lose \/ Tick \/ remote_isr \/ remote_thread \/ remote_study_ui \/ remote_study_thread
         \/ UNCHANGED remote_vars
  PROVE  Turns'
<1>1. CASE (\E b \in Buttons : Press(b)) \/ Lose \/ Tick \/ remote_isr
  <2>1. UNCHANGED <<rem_mode, irq, remote, study>>
    BY <1>1 DEF Press, Lose, Tick, remote_isr
  <2> QED
    BY <2>1 DEF Turns
<1>2. CASE remote_thread
  <2>1. UNCHANGED <<rem_mode, irq, study>>
    BY <1>2 DEF remote_thread
  <2>2. /\ remote'.at \in {"zero", "reset", "compare"} => rem_mode = "enable"
        /\ remote'.at \in {"take", "zero", "reset"} => remote'.j = 0
    <3>1. CASE Take
      <4>1. CASE rem_mode = "enable" /\ rx_count > 0
        <5>1. remote' = [remote EXCEPT !.at = "zero"]
          BY <3>1, <4>1 DEF Take
        <5> QED
          BY <3>1, <4>1, <5>1 DEF Take, Turns, RemoteTypeOK
      <4>2. CASE ~(rem_mode = "enable" /\ rx_count > 0)
        BY <3>1, <4>2 DEF Take, Idle
      <4> QED
        BY <4>1, <4>2
    <3>2. CASE Zero
      BY <3>2 DEF Zero, Turns, RemoteTypeOK
    <3>3. CASE Reset
      BY <3>3 DEF Reset, Turns, RemoteTypeOK
    <3>4. CASE Compare
      <4>1. rem_mode = "enable"
        BY <3>4 DEF Compare, Turns
      <4>2. \/ remote' = [remote EXCEPT !.j = @ + 1]
            \/ remote' = [remote EXCEPT !.at = "post"]
            \/ remote' = [remote EXCEPT !.k = @ + 1, !.j = 0]
            \/ remote' = Idle
        BY <3>4, Zenon DEF Compare
      <4>3. remote.at = "compare"
        BY <3>4 DEF Compare
      <4>4. remote'.at \in {"compare", "post"} \/ remote' = Idle
        BY <4>2, <4>3 DEF RemoteTypeOK
      <4> QED
        BY <4>1, <4>4 DEF Idle
    <3>5. CASE Post
      BY <3>5 DEF Post, Idle
    <3> QED
      BY <1>2, <3>1, <3>2, <3>3, <3>4, <3>5 DEF remote_thread
  <2> QED
    BY <2>1, <2>2 DEF Turns
<1>3. CASE remote_study_ui
  <2>1. UNCHANGED <<rem_mode, irq, remote>>
    BY <1>3 DEF remote_study_ui
  <2>2. UNCHANGED study \/ study'.at = "mode"
    BY <1>3 DEF remote_study_ui, NoStudy
  <2> QED
    BY <2>1, <2>2 DEF Turns
<1>4. CASE remote_study_thread
  <2>1. UNCHANGED remote /\ remote.at \in {"take", "post"}
    BY <1>4 DEF remote_study_thread
  <2>2. CASE SetMode
    BY <2>1, <2>2 DEF SetMode, Goto, Turns, RemoteTypeOK
  <2>3. CASE SetCount \/ Clear \/ Wait \/ Copy
    BY <2>1, <2>3 DEF SetCount, Clear, Wait, Copy, Goto, Turns, RemoteTypeOK
  <2>4. CASE Open \/ Write
    BY <2>1, <2>4 DEF Open, Write, Goto, NoStudy, Turns, RemoteTypeOK
  <2>5. CASE Scan
    <3>1. study.at = "scan" /\ UNCHANGED <<rem_mode, irq>>
      BY <2>5 DEF Scan
    <3>2. UNCHANGED study \/ study'.at = "copy" \/ study'.at = study.at
      BY <2>5 DEF Scan, Goto, RemoteTypeOK
    <3> QED
      BY <2>1, <3>1, <3>2 DEF Turns
  <2>6. CASE Rearm
    BY <2>1, <2>6 DEF Rearm, Turns
  <2>7. CASE Done
    BY <2>1, <2>7 DEF Done, NoStudy, Turns
  <2>8. CASE Close
    BY <2>1, <2>8 DEF Close, Goto, Turns, RemoteTypeOK
  <2> QED
    BY <1>4, <2>2, <2>3, <2>4, <2>5, <2>6, <2>7, <2>8 DEF remote_study_thread
<1>5. CASE UNCHANGED remote_vars
  BY <1>5 DEF remote_vars, Turns
<1> QED
  BY <1>1, <1>2, <1>3, <1>4, <1>5

(* A burst that is being learned is not quiet, and does not end unnoticed.  *)
LEMMA PressLearning ==
  ASSUME RemoteTypeOK, Learning, (\E b \in Buttons : Press(b)) \/ Tick
  PROVE  Learning'
<1>1. sent = None /\ UNCHANGED <<rx_count, rm_code, irq, study, slot>>
  BY DEF Press, Tick, captureVars, historyVars
<1>2. ASSUME study.at \in {"wait", "scan", "copy"}, NEW b \in Buttons
      PROVE  Arriving(b)' /\ Arrived(b)'
  <2>1. Arriving(b) /\ Arrived(b)
    BY <1>2 DEF Learning
  <2>2. rx_count \in Nat => <<b, rx_count>> # None
    BY Tuples
  <2>3. slot = <<b, "part">> => rx_count > 0 /\ Len(Code[b]) = 1
    BY <1>1, <2>1, <2>2 DEF Arriving, RemoteTypeOK
  <2>4. Arriving(b)'
    BY <1>1, <2>3 DEF Arriving
  <2> QED
    BY <1>1, <2>1, <2>4 DEF Arrived, Captured
<1> QED
  BY <1>1, <1>2 DEF Learning

LEMMA LoseLearning ==
  ASSUME RemoteTypeOK, Learning, Lose
  PROVE  Learning'
<1>1. /\ UNCHANGED <<rx_count, rm_code, irq, study, quiet>> /\ sent # None
      /\ slot' = IF slot = <<sent[1], "part">> THEN Spoilt ELSE slot
  BY DEF Lose, captureVars
<1>2. PICK c \in Buttons, n \in Nat : sent = <<c, n>>
  BY <1>1, SentType
<1>3. sent[1] = c
  BY <1>2
<1>4. (slot' = Spoilt /\ slot = <<c, "part">>) \/ (slot' = slot /\ slot # <<c, "part">>)
  BY <1>1, <1>3
<1>5. slot' # None \/ slot' = slot
  BY <1>4, Tuples
<1>6. slot # None => slot' # None
  BY <1>4, Tuples
<1>7. ASSUME study.at \in {"wait", "scan", "copy"}, NEW b \in Buttons
      PROVE  Arriving(b)' /\ Arrived(b)'
  <2>1. Arriving(b) /\ Arrived(b)
    BY <1>7 DEF Learning
  <2>2. slot' \in {<<b, "part">>, <<b, "whole">>} => slot' = slot /\ slot # <<c, "part">>
    BY <1>4, Tuples
  <2>3. slot' = <<b, "part">> => rx_count > 0 /\ Len(Code[b]) = 1
    BY <1>2, <2>1, <2>2 DEF Arriving
  <2>4. Arriving(b)'
    BY <1>1, <2>3 DEF Arriving
  <2>5. Arrived(b)'
    BY <1>1, <2>1, <2>2 DEF Arrived, Captured
  <2> QED
    BY <2>4, <2>5
<1> QED
  BY <1>1, <1>5, <1>6, <1>7 DEF Learning

(* What is scanned covers the burst: it has no gap and fits the buffer.     *)
LEMMA StudyLearning ==
  ASSUME RemoteTypeOK, Turns, Learning, remote_study_thread, ~fault'
  PROVE  Learning'
<1>1. UNCHANGED <<quiet, sent>>
  BY DEF remote_study_thread
<1>2. \A b \in Buttons : /\ <<b, "part">> # None /\ <<b, "part">> # Spoilt
                         /\ <<b, "whole">> # None /\ <<b, "whole">> # Spoilt
  BY Tuples
<1>3. None # Spoilt
  BY RemoteAssumption DEF RemoteAssumption
<1>4. rx_count \in Nat /\ study.j \in Nat /\ MaxLen \in Nat /\ MaxLen > 1
  BY Sizes DEF RemoteTypeOK
<1>5. CASE SetMode \/ Close \/ Done
  BY <1>5 DEF SetMode, Close, Done, Goto, NoStudy, Learning, RemoteTypeOK
<1>6. CASE SetCount
  BY <1>6 DEF SetCount, Goto, Learning, RemoteTypeOK
<1>7. CASE Open
  BY <1>7 DEF Open, Goto, NoStudy, Learning, RemoteTypeOK
<1>8. CASE Clear
  <2>1. /\ study.at = "clear" /\ study'.at = "wait" /\ rx_count' = rx_count
        /\ slot' = IF slot = None THEN None ELSE Spoilt
    BY <1>8 DEF Clear, Goto, RemoteTypeOK
  <2>2. slot' = None => rx_count' = 0
    BY <1>3, <2>1 DEF Learning
  <2>3. \A b \in Buttons : slot' # <<b, "part">> /\ slot' # <<b, "whole">>
    BY <1>2, <2>1
  <2>4. \A b \in Buttons : Arriving(b)' /\ Arrived(b)'
    BY <2>3 DEF Arriving, Arrived
  <2> QED
    BY <2>1, <2>2, <2>4 DEF Learning
<1>9. CASE Wait
  <2>1. /\ study.at = "wait" /\ quiet = 2 /\ rx_count > 0 /\ study'.at = "scan"
        /\ rm_code' = Cleared({0}) /\ UNCHANGED <<rx_count, slot, irq>>
    BY <1>9 DEF Wait, RemoteTypeOK
  <2>2. rm_code'[0] = 0 /\ \A i \in 1..MaxLen-1 : rm_code'[i] = rm_code[i]
    BY <1>4, <2>1 DEF Cleared
  <2>3. ASSUME NEW b \in Buttons PROVE Arriving(b)' /\ Arrived(b)'
    <3>1. Arriving(b) /\ Arrived(b)
      BY <2>1 DEF Learning
    <3>2. Arriving(b)'
      BY <2>1, <3>1 DEF Arriving
    <3>3. Captured(b, Len(Code[b])) => Captured(b, Len(Code[b]))'
      BY <1>4, <2>2, CodeType DEF Captured
    <3>4. Arrived(b)'
      BY <2>1, <3>1, <3>3 DEF Arrived
    <3> QED
      BY <3>2, <3>4
  <2> QED
    BY <2>1, <2>2, <2>3 DEF Learning
<1>10. CASE Scan
  <2>1. study.at = "scan" /\ UNCHANGED <<rx_count, rm_code, irq, slot>>
    BY <1>10 DEF Scan
  <2>2. \/ study'.at = "scan"
        \/ /\ study'.at = "copy" /\ study'.j = study.j
           /\ study.j = MaxLen - 1 \/ rm_code[study.j + 1] \in {0, Gap}
    <3>1. CASE study.j = MaxLen - 1
      <4>1. Goto("copy") \/ fault' = TRUE
        BY <1>10, <3>1, Zenon DEF Scan
      <4>2. Goto("copy")
        BY <4>1
      <4> QED
        BY <3>1, <4>2 DEF Goto, RemoteTypeOK
    <3>2. CASE study.j # MaxLen - 1
      BY <1>10, <2>1, <3>2 DEF Scan, RemoteTypeOK
    <3> QED
      BY <3>1, <3>2
  <2>3. ASSUME NEW b \in Buttons PROVE Arriving(b)' /\ Arrived(b)'
    <3>1. Arriving(b) /\ Arrived(b)
      BY <2>1 DEF Learning
    <3>2. Arriving(b)'
      BY <2>1, <3>1 DEF Arriving
    <3>3. ASSUME slot = <<b, "whole">>, study'.at = "copy" PROVE study'.j + 1 >= Len(Code[b])
      <4>1. Len(Code[b]) \in Nat /\ Len(Code[b]) <= MaxLen
        BY CodeType
      <4>2. CASE study.j = MaxLen - 1
        BY <1>4, <2>2, <3>3, <4>1, <4>2
      <4>3. CASE rm_code[study.j + 1] \in {0, Gap}
        <5>1. ASSUME study.j + 1 < Len(Code[b]) PROVE FALSE
          <6>1. study.j + 2 \in 2..Len(Code[b]) /\ (study.j + 2) - 1 = study.j + 1
            BY <1>4, <4>1, <5>1
          <6>2. rm_code[study.j + 1] = Code[b][study.j + 2]
            BY <3>1, <3>3, <6>1 DEF Arrived, Captured
          <6> QED
            BY <4>3, <6>1, <6>2, CodeType
        <5> QED
          BY <1>4, <2>2, <3>3, <4>1, <5>1
      <4> QED
        BY <2>2, <3>3, <4>2, <4>3
    <3>4. Arrived(b)'
      BY <2>1, <3>1, <3>3 DEF Arrived, Captured
    <3> QED
      BY <3>2, <3>4
  <2> QED
    BY <2>1, <2>2, <2>3 DEF Learning
<1>11. CASE Copy \/ Write
  BY <1>11 DEF Copy, Write, Goto, NoStudy, Learning, RemoteTypeOK
<1>12. CASE Rearm
  <2>1. study'.at \in {"clear", "close"} /\ rx_count' = 0
    BY <1>12 DEF Rearm, NextKey, RemoteTypeOK
  <2> QED
    BY <2>1 DEF Learning
<1> QED
  BY <1>5, <1>6, <1>7, <1>8, <1>9, <1>10, <1>11, <1>12 DEF remote_study_thread

LEMMA ThreadLearning ==
  ASSUME RemoteTypeOK, Turns, Learning, remote_thread
  PROVE  Learning'
<1>1. UNCHANGED <<irq, quiet, sent, study, slot>>
  BY DEF remote_thread
<1>2. CASE Take \/ Post
  <2>1. UNCHANGED <<rx_count, rm_code>>
    BY <1>2 DEF Take, Post, captureVars
  <2> QED
    BY <1>1, <2>1 DEF Learning, Arriving, Arrived, Captured
<1>3. CASE Zero \/ Reset \/ Compare
  <2>1. study.at \in {"none", "mode"}
    BY <1>3 DEF Zero, Reset, Compare, Turns
  <2> QED
    BY <1>1, <2>1 DEF Learning
<1> QED
  BY <1>2, <1>3 DEF remote_thread

LEMMA LearningStep ==
  ASSUME RemoteTypeOK, Turns, Learning, ~fault',
         \/ \E b \in Buttons : Press(b)
         \/ Lose \/ Tick \/ remote_isr \/ remote_thread \/ remote_study_ui \/ remote_study_thread
         \/ UNCHANGED remote_vars
  PROVE  Learning'
<1>1. CASE remote_isr /\ ~irq
  <2>1. UNCHANGED <<rx_count, rm_code, irq, study, slot>>
    BY <1>1 DEF remote_isr, captureVars, historyVars
  <2> QED
    BY <1>1, <2>1 DEF Learning, Arriving, Arrived, Captured
<1>2. CASE remote_study_ui
  <2>1. study.at = "none" /\ study'.at = "mode"
    BY <1>2 DEF remote_study_ui, NoStudy
  <2> QED
    BY <2>1 DEF Learning
<1>3. CASE UNCHANGED remote_vars
  BY <1>3 DEF remote_vars, Learning, Arriving, Arrived, Captured
<1>4. irq \/ ~irq
  OBVIOUS
<1> QED
  BY <1>1, <1>2, <1>3, <1>4, PressLearning, LoseLearning, CaptureLearning, ThreadLearning,
     StudyLearning

-----------------------------------------------------------------------------
(* What is heard.                                                           *)

(* A burst that was begun stays so while the buffer grows behind it.        *)
LEMMA BegunSame ==
  ASSUME NEW b \in Buttons, NEW m \in Nat, NEW n \in Nat, Begun(b, m, n), n <= MaxLen,
         NEW k \in Nat, n <= k,
         \A i \in 1..MaxLen-1 : i < n => rm_code'[i] = rm_code[i],
         n < k => m = Len(Code[b]) \/ m < n \/ rm_code'[m] = Gap
  PROVE  Begun(b, m, k)'
<1>1. /\ m \in 1..Len(Code[b]) /\ m <= n /\ Captured(b, m)
      /\ m = Len(Code[b]) \/ m = n \/ rm_code[m] = Gap
  BY DEF Begun
<1>2. Captured(b, m)'
  <2> SUFFICES ASSUME NEW i \in 2..m PROVE rm_code'[i - 1] = Code[b][i]
    BY DEF Captured
  <2>1. i - 1 \in 1..MaxLen-1 /\ i - 1 < n
    BY <1>1, Sizes
  <2> QED
    BY <1>1, <2>1 DEF Captured
<1>3. m < n => rm_code'[m] = rm_code[m]
  <2> SUFFICES ASSUME m < n PROVE rm_code'[m] = rm_code[m]
    OBVIOUS
  <2>1. m \in 1..MaxLen-1
    BY <1>1, Sizes
  <2> QED
    BY <2>1
<1>4. m = Len(Code[b]) \/ m = k \/ rm_code'[m] = Gap
  <2>1. CASE m < n
    BY <1>1, <1>3, <2>1
  <2>2. CASE m = n
    BY <2>2
  <2> QED
    BY <1>1, <2>1, <2>2
<1> QED
  BY <1>1, <1>2, <1>4 DEF Begun

(* An interval that is captured in decoding, and goes on with what is heard *)
(* or begins it.                                                            *)
LEMMA CaptureListening ==
  ASSUME RemoteTypeOK, Turns, Listening, remote_isr, irq
  PROVE  Listening'
<1> SUFFICES ASSUME rem_mode' = "enable", ~late', remote'.at \in {"take", "post"}, rx_count' > 0
             PROVE  /\ sem_IR' > 0 => rx_count' = Len(p_rem_code_src'[0])
                    /\ \E b \in heard' : \E m \in Nat : Begun(b, m, rx_count)' /\ GoesOn(b, m)'
  BY DEF Listening
<1>1. PICK b \in Buttons, n \in Nat : Captures(b, n)
  BY Capture
<1>2. UNCHANGED <<rem_mode, p_rem_code_src, remote>>
  BY DEF remote_isr
<1>3. sent = <<b, n>> /\ sent[2] = n /\ Note(b)
  BY <1>1 DEF Captures
<1>4. heard' = heard \cup {b}
  BY <1>3 DEF Note
<1>5. late' = (\/ rem_mode # "enable" \/ sem_IR > 0 \/ remote.at \notin {"take", "post"}
              \/ Middle \/ (late /\ ~Begins))
  BY <1>3 DEF Note
<1>6. /\ rem_mode = "enable" /\ sem_IR = 0 /\ remote.at \in {"take", "post"}
      /\ n = 0 \/ (rx_count # 0 /\ ~Begins)
      /\ ~late \/ Begins
  <2>1. rem_mode = "enable"
    BY <1>2
  <2>2. ~(sem_IR > 0) /\ ~Middle /\ ~(late /\ ~Begins)
    BY <1>5
  <2>3. sem_IR = 0
    BY <2>2 DEF RemoteTypeOK
  <2>4. n = 0 \/ (rx_count # 0 /\ ~Begins)
    BY <1>3, <2>2 DEF Middle
  <2> QED
    BY <1>2, <2>1, <2>2, <2>3, <2>4
<1> DEFINE value == IF n = 0 THEN Gap ELSE Code[b][n + 1]
           start == IF Begins THEN 0 ELSE rx_count
<1>7. value \in Nat /\ start \in 0..MaxLen /\ start \in Nat
  <2>1. n # 0 => n + 1 \in 1..Len(Code[b])
    BY <1>1, CodeType DEF Captures
  <2>2. value \in Nat
    BY <2>1, CodeType, Sizes
  <2>3. rx_count \in 0..MaxLen /\ 0 \in 0..MaxLen /\ MaxLen \in Nat
    BY Sizes DEF RemoteTypeOK
  <2> QED
    BY <2>2, <2>3
<1>8. Store(value)
  BY <1>1 DEF Captures
<1>9. /\ n = 0 => value = Gap
      /\ n # 0 => value = Code[b][n + 1]
      /\ Begins => start = 0
      /\ ~Begins => start = rx_count
  OBVIOUS
<1>10. start = IF Begins THEN 0 ELSE rx_count
  OBVIOUS
<1> HIDE DEF value, start
<1>11. /\ start < MaxLen =>
            /\ rx_count' = start + 1 /\ rm_code'[start] = value
            /\ \A i \in 0..MaxLen-1 : i # start => rm_code'[i] = rm_code[i]
       /\ ~(start < MaxLen) => rx_count' = start /\ rm_code' = rm_code
       /\ sem_IR' = sem_IR \/ (sem_IR' = sem_IR + 1 /\ ~Falling
                               /\ rx_count' = Len(p_rem_code_src[0]))
  BY <1>6, <1>7, <1>8, <1>10, Stored
<1>12. sem_IR' > 0 => rx_count' = Len(p_rem_code_src'[0])
  BY <1>2, <1>6, <1>11
<1>13. \A c \in Buttons : Len(Code[c]) \in Nat /\ Len(Code[c]) >= 1 /\ Len(Code[c]) <= MaxLen
  BY CodeType
<1>14. MaxLen \in Nat /\ MaxLen > 1
  BY Sizes
<1>15. CASE start = 0
  <2>1. n = 0
    BY <1>6, <1>9, <1>15
  <2>2. rx_count' = 1 /\ 1 \in 1..Len(Code[b])
    BY <1>11, <1>13, <1>14, <1>15
  <2>3. Begun(b, 1, rx_count)'
    BY <2>2 DEF Begun, Captured
  <2>4. GoesOn(b, 1)'
    BY <1>1, <2>1 DEF GoesOn, Captures
  <2> QED
    BY <1>4, <1>12, <2>3, <2>4
<1>16. CASE start # 0
  <2>1. ~Begins /\ start = rx_count /\ ~late /\ rx_count > 0 /\ rx_count \in Nat
    BY <1>6, <1>7, <1>9, <1>16
  <2>2. PICK c \in heard, m \in Nat : Begun(c, m, rx_count) /\ GoesOn(c, m)
    BY <1>6, <2>1 DEF Listening
  <2>3. c \in Buttons /\ c \in heard'
    BY <1>4 DEF RemoteTypeOK
  <2>4. /\ m \in 1..Len(Code[c]) /\ m <= rx_count /\ Captured(c, m)
    BY <2>2 DEF Begun
  <2>5. /\ rx_count' \in Nat /\ rx_count <= rx_count'
        /\ \A i \in 1..MaxLen-1 : i < rx_count => rm_code'[i] = rm_code[i]
    BY <1>7, <1>11, <1>14, <2>1
  <2>6. CASE m < rx_count \/ m = Len(Code[c]) \/ n = 0
    <3>1. rx_count < rx_count' => m = Len(Code[c]) \/ m < rx_count \/ rm_code'[m] = Gap
      BY <1>9, <1>11, <2>1, <2>4, <2>6
    <3>2. Begun(c, m, rx_count)'
      <4>1. Begun(c, m, rx_count) /\ rx_count <= MaxLen
        BY <1>7, <2>1, <2>2
      <4>2. \A k \in Nat : k = rx_count' => Begun(c, m, k)'
        BY <2>1, <2>3, <2>5, <3>1, <4>1, BegunSame
      <4> QED
        BY <2>5, <4>2 DEF Begun
    <3>3. GoesOn(c, m)'
      <4>1. m = rx_count' => m = Len(Code[c])
        BY <1>7, <1>11, <1>13, <1>14, <2>1, <2>3, <2>4
      <4> QED
        BY <1>13, <2>3, <4>1 DEF GoesOn
    <3> QED
      BY <1>12, <2>3, <3>2, <3>3
  <2>7. CASE m = rx_count /\ m < Len(Code[c]) /\ n # 0
    <3>1. c = b /\ m = n
      <4>1. sent # None
        BY <1>3, Tuples
      <4>2. sent = <<c, m>>
        BY <1>3, <2>2, <2>7, <4>1 DEF GoesOn
      <4> QED
        BY <1>3, <4>2
    <3>2. n < MaxLen /\ start = n /\ n = rx_count
      BY <1>13, <1>14, <2>1, <2>7, <3>1
    <3>3. /\ rx_count' = n + 1 /\ rm_code'[n] = Code[b][n + 1]
          /\ \A i \in 0..MaxLen-1 : i # n => rm_code'[i] = rm_code[i]
      BY <1>9, <1>11, <2>7, <3>2
    <3>4. Captured(b, n + 1)'
      <4>1. \A i \in 0..MaxLen-1 : i < n => rm_code'[i] = rm_code[i]
        BY <3>3
      <4> QED
        BY <2>4, <3>1, <3>2, <3>3, <4>1, CapturedNext
    <3>5. Begun(b, n + 1, rx_count)'
      <4>1. n + 1 \in 1..Len(Code[b])
        BY <1>13, <2>7, <3>1
      <4> QED
        BY <3>3, <3>4, <4>1 DEF Begun
    <3>6. GoesOn(b, n + 1)'
      BY <1>1, <1>13 DEF GoesOn, Captures
    <3> QED
      BY <1>4, <1>12, <3>5, <3>6
  <2> QED
    BY <1>13, <2>1, <2>3, <2>4, <2>6, <2>7
<1> QED
  BY <1>15, <1>16

(* During a comparison nothing is captured that is not late.                *)
LEMMA CaptureHearing ==
  ASSUME RemoteTypeOK, Turns, Hearing, remote_isr, irq
  PROVE  Hearing'
<1>1. PICK b \in Buttons, n \in Nat : Captures(b, n)
  BY Capture
<1>2. UNCHANGED <<rem_mode, remote, study>>
  BY DEF remote_isr
<1>3. rem_mode # "enable" \/ remote.at \notin {"take", "post"} => late'
  BY <1>1 DEF Captures, Note
<1>4. Listening'
  BY CaptureListening DEF Hearing
<1>5. LateOutside'
  BY <1>2, <1>3 DEF LateOutside, Turns
<1>6. Comparing' /\ Matched'
  BY <1>2, <1>3 DEF Comparing, Matched
<1> QED
  BY <1>4, <1>5, <1>6 DEF Hearing

LEMMA OthersHearing ==
  ASSUME RemoteTypeOK, Turns, Hearing,
         \/ \E b \in Buttons : Press(b)
         \/ Lose \/ Tick \/ (remote_isr /\ ~irq) \/ remote_study_ui \/ UNCHANGED remote_vars
  PROVE  Hearing'
<1>1. UNCHANGED <<rem_mode, rx_count, rm_code, p_rem_code_src, sem_IR, remote, heard, late>>
  BY DEF Press, Lose, Tick, remote_isr, remote_study_ui, remote_vars, captureVars, historyVars
<1>2. Comparing' /\ Matched'
  BY <1>1 DEF Hearing, Comparing, Matched, Begun, Captured
<1>3. LateOutside'
  <2>1. study'.at \in {"none", "mode", "count"} \/ UNCHANGED study
    BY DEF Press, Lose, Tick, remote_isr, remote_study_ui, remote_vars, captureVars, historyVars,
           NoStudy
  <2> QED
    BY <1>1, <2>1 DEF Hearing, LateOutside
<1>4. rem_mode # "enable" \/ UNCHANGED sent \/ sent' = None \/ (sent = None /\ sent'[2] = 0)
  <2>1. ASSUME NEW b \in Buttons, Press(b) PROVE sent = None /\ sent'[2] = 0
    BY <2>1 DEF Press
  <2>2. Lose => sent' = None
    BY DEF Lose
  <2>3. Tick \/ remote_study_ui \/ UNCHANGED remote_vars => UNCHANGED sent
    BY DEF Tick, remote_study_ui, remote_vars
  <2>4. ~irq => rem_mode # "enable"
    BY DEF Turns
  <2> QED
    BY <2>1, <2>2, <2>3, <2>4
<1>5. Listening'
  <2> SUFFICES ASSUME rem_mode = "enable", ~late, remote.at \in {"take", "post"}, rx_count > 0
               PROVE  /\ sem_IR > 0 => rx_count = Len(p_rem_code_src[0])
                      /\ \E b \in heard : \E m \in Nat : Begun(b, m, rx_count)' /\ GoesOn(b, m)'
    BY <1>1 DEF Listening
  <2>1. PICK b \in heard, m \in Nat : Begun(b, m, rx_count) /\ GoesOn(b, m)
    BY DEF Hearing, Listening
  <2>2. Begun(b, m, rx_count)'
    BY <1>1, <2>1 DEF Begun, Captured
  <2>3. GoesOn(b, m)'
    <3>1. CASE UNCHANGED sent \/ sent' = None
      BY <1>1, <2>1, <3>1 DEF GoesOn
    <3>2. CASE sent'[2] = 0
      BY <3>2 DEF GoesOn
    <3> QED
      BY <1>4, <3>1, <3>2
  <2> QED
    BY <2>1, <2>2, <2>3 DEF Hearing, Listening
<1> QED
  BY <1>2, <1>3, <1>5 DEF Hearing

(* The comparison goes on with what it was woken for.                       *)
LEMMA ThreadHearing ==
  ASSUME RemoteTypeOK, Turns, Hearing, remote_thread
  PROVE  Hearing'
<1>1. UNCHANGED <<rem_mode, p_rem_code_src, irq, sent, study, late>>
  BY DEF remote_thread
<1>2. rx_count \in Nat /\ MaxLen \in Nat /\ MaxLen > 1
  BY Sizes DEF RemoteTypeOK
<1>3. CASE Take
  <2>1. remote.at = "take" /\ sem_IR > 0 /\ sem_IR' = sem_IR - 1
        /\ UNCHANGED <<rx_count, rm_code, heard>>
    BY <1>3 DEF Take
  <2>2. CASE rem_mode = "enable" /\ rx_count > 0
    <3>1. remote'.at = "zero"
      BY <1>3, <2>2 DEF Take, RemoteTypeOK
    <3>2. LateOutside' /\ Listening' /\ Matched'
      BY <1>1, <2>1, <3>1 DEF Hearing, LateOutside, Listening, Matched
    <3>3. Comparing'
      <4> SUFFICES ASSUME ~late
                   PROVE  \E b \in heard : \E m \in Nat : Begun(b, m, Len(p_rem_code_src[0]))'
        BY <1>1, <2>1 DEF Comparing
      <4>1. PICK b \in heard, m \in Nat : Begun(b, m, rx_count) /\ rx_count = Len(p_rem_code_src[0])
        BY <2>1, <2>2 DEF Hearing, Listening
      <4> QED
        BY <1>1, <2>1, <4>1 DEF Begun, Captured
    <3> QED
      BY <3>2, <3>3 DEF Hearing
  <2>3. CASE ~(rem_mode = "enable" /\ rx_count > 0)
    <3>1. remote' = Idle
      BY <1>3, <2>3 DEF Take
    <3> QED
      BY <1>1, <1>2, <2>1, <2>3, <3>1
      DEF Idle, Hearing, LateOutside, Listening, Matched, Comparing
  <2> QED
    BY <2>2, <2>3
<1>4. CASE Zero
  <2>1. remote.at = "zero" /\ remote'.at = "reset" /\ rm_code' = Cleared({0})
        /\ UNCHANGED <<rx_count, sem_IR, heard>>
    BY <1>4 DEF Zero, RemoteTypeOK
  <2>2. rm_code'[0] = 0 /\ \A i \in 1..MaxLen-1 : rm_code'[i] = rm_code[i]
    BY <1>2, <2>1 DEF Cleared
  <2>3. LateOutside' /\ Listening' /\ Matched'
    BY <1>1, <2>1, <2>2 DEF Hearing, LateOutside, Listening, Matched
  <2>4. Comparing'
    <3> SUFFICES ASSUME ~late
                 PROVE  \E b \in heard : \E m \in Nat : Begun(b, m, Len(p_rem_code_src[0]))'
      BY <1>1, <2>1 DEF Comparing
    <3>1. PICK b \in heard, m \in Nat : Begun(b, m, Len(p_rem_code_src[0]))
      BY <2>1 DEF Hearing, Comparing
    <3>2. b \in Buttons
      BY DEF RemoteTypeOK
    <3>3. Captured(b, m)'
      BY <1>2, <2>2, <3>1, <3>2, CodeType DEF Begun, Captured
    <3>4. m = Len(Code[b]) \/ m = Len(p_rem_code_src[0]) \/ rm_code'[m] = Gap
      <4>1. m # Len(Code[b]) => m \in 1..MaxLen-1
        BY <1>2, <3>1, <3>2, CodeType DEF Begun
      <4> QED
        BY <2>2, <3>1, <4>1 DEF Begun
    <3>5. Begun(b, m, Len(p_rem_code_src[0]))'
      BY <1>1, <3>1, <3>3, <3>4 DEF Begun
    <3> QED
      BY <2>1, <3>5
  <2> QED
    BY <2>3, <2>4 DEF Hearing
<1>5. CASE Reset
  <2>1. remote.at = "reset" /\ remote'.at = "compare" /\ remote'.j = 0 /\ rx_count' = 0
        /\ UNCHANGED <<rm_code, sem_IR, heard>>
    BY <1>5 DEF Reset, Turns, RemoteTypeOK
  <2>2. LateOutside' /\ Listening' /\ Matched'
    BY <1>1, <2>1 DEF Hearing, LateOutside, Listening, Matched
  <2>3. Comparing'
    BY <1>1, <2>1 DEF Hearing, Comparing, Begun, Captured
  <2> QED
    BY <2>2, <2>3 DEF Hearing
<1>6. CASE Compare
  <2> DEFINE code == p_rem_code_src[remote.k]
  <2>1. remote.at = "compare" /\ UNCHANGED <<rx_count, rm_code, sem_IR>> /\ remote.j \in Nat
    BY <1>6 DEF Compare, captureVars, RemoteTypeOK
  <2>2. rx_count > 0 => late
    BY <2>1 DEF Hearing, LateOutside
  <2>3. \/ /\ remote' = [remote EXCEPT !.j = @ + 1] /\ heard' = heard
           /\ rm_code[remote.j] = code[remote.j + 1]
        \/ remote' = [remote EXCEPT !.at = "post"]
        \/ remote' = [remote EXCEPT !.k = @ + 1, !.j = 0] /\ heard' = heard
        \/ remote' = Idle
    <3>1. remote'.at = "compare" => heard' = heard
      BY <1>6 DEF Compare
    <3>2. \/ remote' = [remote EXCEPT !.j = @ + 1] /\ rm_code[remote.j] = code[remote.j + 1]
          \/ remote' = [remote EXCEPT !.at = "post"]
          \/ remote' = [remote EXCEPT !.k = @ + 1, !.j = 0]
          \/ remote' = Idle
      BY <1>6, Zenon DEF Compare
    <3>3. /\ remote' = [remote EXCEPT !.j = @ + 1] => remote'.at = "compare"
          /\ remote' = [remote EXCEPT !.k = @ + 1, !.j = 0] => remote'.at = "compare"
      BY <2>1 DEF RemoteTypeOK
    <3> QED
      BY <3>1, <3>2, <3>3
  <2> HIDE DEF code
  <2>4. CASE remote' = [remote EXCEPT !.at = "post"] \/ remote' = Idle
    <3>1. remote'.at \in {"post", "take"}
      BY <2>4 DEF Idle, RemoteTypeOK
    <3> QED
      BY <1>1, <2>1, <2>2, <3>1 DEF Hearing, LateOutside, Listening, Matched, Comparing
  <2>5. CASE remote' = [remote EXCEPT !.k = @ + 1, !.j = 0] /\ heard' = heard
    <3>1. remote'.at = "compare" /\ remote'.j = 0
      BY <2>1, <2>5 DEF RemoteTypeOK
    <3>2. LateOutside' /\ Listening' /\ Matched'
      BY <1>1, <2>1, <3>1 DEF Hearing, LateOutside, Listening, Matched
    <3>3. Comparing'
      BY <1>1, <2>1, <2>5 DEF Hearing, Comparing, Begun, Captured
    <3> QED
      BY <3>2, <3>3 DEF Hearing
  <2>6. CASE /\ remote' = [remote EXCEPT !.j = @ + 1] /\ heard' = heard
             /\ rm_code[remote.j] = code[remote.j + 1]
    <3>1. remote'.at = "compare" /\ remote'.j = remote.j + 1 /\ remote'.k = remote.k
      BY <2>1, <2>6 DEF RemoteTypeOK
    <3>2. LateOutside' /\ Listening'
      BY <1>1, <2>1, <3>1 DEF Hearing, LateOutside, Listening
    <3>3. Comparing'
      BY <1>1, <2>1, <2>6 DEF Hearing, Comparing, Begun, Captured
    <3>4. Matched'
      <4>1. ASSUME ~late, NEW i \in 1..remote.j + 1
            PROVE  rm_code[i - 1] = code[i]
        <5>1. CASE i = remote.j + 1
          BY <2>1, <2>6, <5>1
        <5>2. CASE i # remote.j + 1
          <6>1. i \in 1..remote.j
            BY <2>1, <5>2
          <6> QED
            BY <2>1, <4>1, <6>1 DEF Hearing, Matched, code
        <5> QED
          BY <5>1, <5>2
      <4>2. ~late => rm_code[0] = 0
        BY <2>1 DEF Hearing, Matched
      <4> QED
        BY <1>1, <2>1, <3>1, <4>1, <4>2 DEF Matched, code
    <3> QED
      BY <3>2, <3>3, <3>4 DEF Hearing
  <2> QED
    BY <2>3, <2>4, <2>5, <2>6
<1>7. CASE Post
  <2>1. remote.at = "post" /\ remote'.at = "take" /\ UNCHANGED <<rx_count, rm_code, sem_IR, heard>>
    BY <1>7 DEF Post, Idle, captureVars
  <2>2. LateOutside' /\ Matched' /\ Comparing'
    BY <1>1, <2>1 DEF Hearing, LateOutside, Matched, Comparing
  <2>3. Listening'
    BY <1>1, <2>1 DEF Hearing, Listening, Begun, Captured, GoesOn
  <2> QED
    BY <2>2, <2>3 DEF Hearing
<1> QED
  BY <1>3, <1>4, <1>5, <1>6, <1>7 DEF remote_thread

(* Nothing is heard while a key is learned.                                 *)
LEMMA StudyHearing ==
  ASSUME RemoteTypeOK, Turns, Hearing, remote_study_thread
  PROVE  Hearing'
<1>1. UNCHANGED <<remote, late>> /\ remote.at \in {"take", "post"}
  BY DEF remote_study_thread
<1>2. Comparing' /\ Matched'
  BY <1>1 DEF Comparing, Matched
<1>3. rx_count \in Nat
  BY DEF RemoteTypeOK
<1>4. rem_mode' = "study" \/ (rx_count' > 0 => late)
  <2>1. CASE SetMode
    BY <2>1 DEF SetMode
  <2>2. CASE SetCount \/ Open \/ Clear \/ Wait \/ Scan \/ Copy \/ Write \/ Rearm \/ Close
    <3>1. rem_mode = "study"
      BY <2>2 DEF SetCount, Open, Clear, Wait, Scan, Copy, Write, Rearm, Close, Turns
    <3> QED
      BY <2>2, <3>1 DEF SetCount, Open, Clear, Wait, Scan, Copy, Write, Rearm, Close
  <2>3. CASE Done
    BY <2>3 DEF Done, Hearing, LateOutside
  <2> QED
    BY <2>1, <2>2, <2>3 DEF remote_study_thread
<1>5. Listening'
  BY <1>1, <1>4 DEF Listening
<1>6. study'.at \notin {"none", "mode", "count"} /\ rx_count' > 0 => late
  <2>1. CASE SetMode
    BY <2>1 DEF SetMode, Goto, RemoteTypeOK
  <2>2. CASE SetCount \/ Rearm
    BY <2>2 DEF SetCount, Rearm
  <2>3. CASE Open \/ Clear \/ Wait \/ Scan \/ Copy \/ Write \/ Close
    BY <2>3 DEF Open, Clear, Wait, Scan, Copy, Write, Close, Hearing, LateOutside
  <2>4. CASE Done
    BY <2>4 DEF Done, NoStudy
  <2> QED
    BY <2>1, <2>2, <2>3, <2>4 DEF remote_study_thread
<1>7. LateOutside'
  BY <1>1, <1>6 DEF LateOutside
<1> QED
  BY <1>2, <1>5, <1>7 DEF Hearing

-----------------------------------------------------------------------------
(* The invariant.                                                           *)

LEMMA RemoteStart == RemoteInit => RemoteInv
<1> SUFFICES ASSUME RemoteInit PROVE RemoteInv
  OBVIOUS
<1>1. RemoteTypeOK
  BY RemoteTypeInit
<1>2. irq = TRUE /\ rx_count = 0 /\ remote.at = "take" /\ remote.j = 0 /\ study.at = "none"
  BY DEF RemoteInit, Idle, NoStudy
<1>3. Turns /\ Learning
  BY <1>2 DEF Turns, Learning
<1>4. Hearing
  BY <1>2 DEF Hearing, LateOutside, Listening, Comparing, Matched
<1> QED
  BY <1>1, <1>3, <1>4 DEF RemoteInv

LEMMA RemoteStep == RemoteInv /\ [RemoteNext]_remote_vars => RemoteInv'
<1> SUFFICES ASSUME RemoteInv, [RemoteNext]_remote_vars PROVE RemoteInv'
  OBVIOUS
<1>1. RemoteTypeOK /\ RemoteTypeOK'
  BY RemoteTypeStep DEF RemoteInv
<1>2. CASE PowerFails
  <2>1. /\ irq' = TRUE /\ rx_count' = 0 /\ remote'.at = "take" /\ remote'.j = 0
        /\ study'.at = "none"
    BY <1>2 DEF PowerFails, Idle, NoStudy
  <2>2. Turns' /\ Learning'
    BY <2>1 DEF Turns, Learning
  <2>3. Hearing'
    BY <2>1 DEF Hearing, LateOutside, Listening, Comparing, Matched
  <2> QED
    BY <1>1, <2>2, <2>3 DEF RemoteInv
<1>3. CASE \/ \E b \in Buttons : Press(b)
           \/ Lose \/ Tick \/ remote_isr \/ remote_thread \/ remote_study_ui \/ remote_study_thread
           \/ UNCHANGED remote_vars
  <2> SUFFICES ASSUME ~fault' PROVE Turns' /\ Learning' /\ Hearing'
    BY <1>1 DEF RemoteInv
  <2>1. ~fault
    BY <1>3 DEF Press, Lose, Tick, remote_isr, remote_thread, remote_study_ui, remote_study_thread,
                remote_vars
  <2>2. Turns /\ Learning /\ Hearing
    BY <2>1 DEF RemoteInv
  <2>3. Turns'
    BY <1>1, <1>3, <2>2, TurnsStep
  <2>4. Learning'
    BY <1>1, <1>3, <2>2, LearningStep
  <2>5. Hearing'
    <3>1. CASE remote_isr /\ irq
      BY <1>1, <2>2, <3>1, CaptureHearing
    <3>2. CASE remote_thread
      BY <1>1, <2>2, <3>2, ThreadHearing
    <3>3. CASE remote_study_thread
      BY <1>1, <2>2, <3>3, StudyHearing
    <3> QED
      BY <1>1, <1>3, <2>2, <3>1, <3>2, <3>3, OthersHearing
  <2> QED
    BY <2>3, <2>4, <2>5
<1> QED
  BY <1>2, <1>3 DEF RemoteNext

LEMMA RemoteInvariant == RemoteSpec => []RemoteInv
<1> QED
  BY RemoteStart, RemoteStep, PTL DEF RemoteSpec

(* Every variable of the remote control keeps to its range, whatever is     *)
(* pressed, and whenever the power fails.                                   *)
THEOREM RemoteTyped == RemoteSpec => []RemoteTypeOK
<1>1. RemoteInv => RemoteTypeOK
  BY DEF RemoteInv
<1> QED
  BY <1>1, RemoteInvariant, PTL

(* A key is reported only for a button that was pressed, as OnlyPressed says *)
(* of remote_thread_entry, for any buttons and codes: the interrupt may      *)
(* capture at any place of the comparison.                                  *)
THEOREM KeysPressed == RemoteSpec => OnlyPressed
<1> DEFINE code == p_rem_code_src[remote.k]
           Pressed == /\ code # <<>>
                      /\ \/ late \/ Len(code) > Len(p_rem_code_src[0])
                         \/ \E i \in 2..Len(code) : code[i] = Gap
                         \/ \E b \in heard : IsPrefix(code, Code[b]) \/ IsPrefix(Code[b], code)
           Reports == remote.at = "compare" /\ remote'.at = "post"
<1>1. ASSUME RemoteInv, [RemoteNext]_remote_vars, Reports PROVE Pressed
  <2>1. RemoteTypeOK
    BY <1>1 DEF RemoteInv
  <2>2. Compare /\ ~fault
    <3>1. remote' # remote /\ remote'.at # "take"
      BY <1>1
    <3>2. ~PowerFails
      BY <3>1 DEF PowerFails, Idle
    <3>3. remote_thread
      BY <1>1, <3>1, <3>2 DEF RemoteNext, Press, Lose, Tick, remote_isr, remote_study_ui,
                              remote_study_thread, remote_vars
    <3> QED
      BY <1>1, <3>3 DEF remote_thread, Take, Zero, Reset, Post
  <2>3. code # <<>> /\ remote.j = Len(code)
    <3>1. \/ remote' = [remote EXCEPT !.j = @ + 1]
          \/ code # <<>> /\ remote.j = Len(code)
          \/ remote' = [remote EXCEPT !.k = @ + 1, !.j = 0]
          \/ remote' = Idle
      BY <2>2, Zenon DEF Compare
    <3>2. /\ remote' = [remote EXCEPT !.j = @ + 1] => remote'.at = remote.at
          /\ remote' = [remote EXCEPT !.k = @ + 1, !.j = 0] => remote'.at = remote.at
      BY <2>1 DEF RemoteTypeOK
    <3>3. remote' = Idle => remote'.at = "take"
      BY DEF Idle
    <3> QED
      BY <1>1, <3>1, <3>2, <3>3
  <2>4. code \in Seq(Nat) /\ Len(code) \in Nat /\ Len(code) > 0
    BY <2>1, <2>3 DEF RemoteTypeOK
  <2>5. Len(p_rem_code_src[0]) \in Nat
    BY <2>1, Sizes DEF RemoteTypeOK, Keys
  <2>6. ASSUME ~late, ~(Len(code) > Len(p_rem_code_src[0])), \A i \in 2..Len(code) : code[i] # Gap
        PROVE  \E b \in heard : IsPrefix(code, Code[b]) \/ IsPrefix(Code[b], code)
    <3>1. Hearing
      BY <1>1, <2>2 DEF RemoteInv
    <3>2. PICK b \in heard, m \in Nat : Begun(b, m, Len(p_rem_code_src[0]))
      BY <1>1, <2>6, <3>1 DEF Hearing, Comparing
    <3>3. b \in Buttons /\ Code[b] \in Seq(Nat) /\ Len(Code[b]) \in Nat /\ Code[b][1] = 0
      BY <2>1, CodeType DEF RemoteTypeOK
    <3>4. rm_code[0] = 0 /\ \A i \in 1..Len(code) : rm_code[i - 1] = code[i]
      BY <1>1, <2>3, <2>6, <3>1 DEF Hearing, Matched
    <3>5. /\ m \in 1..Len(Code[b]) /\ \A i \in 2..m : rm_code[i - 1] = Code[b][i]
          /\ m = Len(Code[b]) \/ m = Len(p_rem_code_src[0]) \/ rm_code[m] = Gap
      BY <3>2 DEF Begun, Captured
    <3>6. \A i \in 1..m : i <= Len(code) => code[i] = Code[b][i]
      <4> SUFFICES ASSUME NEW i \in 1..m, i <= Len(code) PROVE code[i] = Code[b][i]
        OBVIOUS
      <4>1. i \in 1..Len(code)
        BY <2>4
      <4>2. CASE i = 1
        BY <3>3, <3>4, <4>1, <4>2
      <4>3. CASE i # 1
        BY <3>4, <3>5, <4>1, <4>3
      <4> QED
        BY <4>2, <4>3
    <3>7. CASE Len(code) <= m
      <4>1. Len(code) <= Len(Code[b])
        BY <2>4, <3>3, <3>5, <3>7
      <4>2. \A i \in 1..Len(code) : i \in 1..m /\ i <= Len(code)
        BY <2>4, <3>5, <3>7
      <4>3. \A i \in 1..Len(code) : code[i] = Code[b][i]
        BY <3>6, <4>2
      <4>4. IsPrefix(code, Code[b])
        BY <2>4, <3>3, <4>1, <4>3, PrefixOfEqual
      <4> QED
        BY <4>4
    <3>8. CASE Len(code) > m
      <4>1. rm_code[m] # Gap
        <5>1. m + 1 \in 1..Len(code) /\ m + 1 \in 2..Len(code) /\ (m + 1) - 1 = m
          BY <2>4, <3>5, <3>8
        <5>2. rm_code[m] = code[m + 1]
          BY <3>4, <5>1
        <5> QED
          BY <2>6, <5>1, <5>2
      <4>2. m = Len(Code[b])
        BY <2>4, <2>5, <2>6, <3>5, <3>8, <4>1
      <4>3. Len(Code[b]) <= Len(code) /\ \A i \in 1..Len(Code[b]) : Code[b][i] = code[i]
        BY <2>4, <3>3, <3>6, <3>8, <4>2
      <4>4. IsPrefix(Code[b], code)
        BY <2>4, <3>3, <4>3, PrefixOfEqual
      <4> QED
        BY <4>4
    <3> QED
      BY <2>4, <3>5, <3>7, <3>8
  <2> QED
    BY <2>3, <2>6
<1>2. RemoteInv /\ [RemoteNext]_remote_vars => [Reports => Pressed]_remote_vars
  BY <1>1
<1>3. RemoteSpec => [][Reports => Pressed]_remote_vars
  BY <1>2, RemoteInvariant, PTL DEF RemoteSpec
<1> QED
  BY <1>3 DEF OnlyPressed

(* What remote_study_thread_entry learns for a key begins with the whole     *)
(* burst that came after it was asked for, for any codes and any buffer, and *)
(* whatever the buffer held before.                                         *)
THEOREM BurstLearned == RemoteSpec => Learned
<1> DEFINE Learns == study.at = "copy" /\ study'.at = "write"
           Whole == \A b \in Buttons : slot = <<b, "whole">> =>
                      IsPrefix(Code[b], p_rem_code_src'[study.k])
<1>1. ASSUME RemoteInv, [RemoteNext]_remote_vars, Learns PROVE Whole
  <2>1. RemoteTypeOK
    BY <1>1 DEF RemoteInv
  <2>2. Copy /\ ~fault
    <3>1. study' # study /\ study'.at \notin {"none", "mode"}
      BY <1>1
    <3>2. remote_study_thread
      BY <1>1, <3>1 DEF RemoteNext, Press, Lose, Tick, remote_isr, remote_study_ui, remote_thread,
                        PowerFails, remote_vars, NoStudy
    <3> QED
      BY <1>1, <3>2 DEF remote_study_thread, SetMode, SetCount, Open, Clear, Wait, Scan, Write,
                        Rearm, Close, Done
  <2> SUFFICES ASSUME NEW b \in Buttons, slot = <<b, "whole">>
               PROVE  IsPrefix(Code[b], p_rem_code_src'[study.k])
    OBVIOUS
  <2>3. /\ Captured(b, Len(Code[b])) /\ study.j + 1 >= Len(Code[b]) /\ rm_code[0] = 0
    BY <1>1, <2>2 DEF RemoteInv, Learning, Arrived
  <2> DEFINE code == [i \in 1..study.j + 1 |-> rm_code[i - 1]]
  <2>4. study.j + 1 \in Nat /\ study.k \in Keys /\ MaxLen \in Nat /\ study.j + 1 <= MaxLen
    BY <2>1, Sizes DEF RemoteTypeOK
  <2>5. p_rem_code_src'[study.k] = code
    <3>1. p_rem_code_src' = [p_rem_code_src EXCEPT ![study.k] = code]
      BY <2>2 DEF Copy
    <3> QED
      BY <2>1, <2>4, <3>1 DEF RemoteTypeOK
  <2>6. code \in Seq(Nat) /\ Len(code) = study.j + 1
    <3>1. \A i \in 1..study.j + 1 : rm_code[i - 1] \in Nat
      BY <2>1, <2>4 DEF RemoteTypeOK
    <3> QED
      BY <2>4, <3>1
  <2>7. \A i \in 1..Len(Code[b]) : Code[b][i] = code[i]
    <3> SUFFICES ASSUME NEW i \in 1..Len(Code[b]) PROVE Code[b][i] = code[i]
      OBVIOUS
    <3>1. i \in 1..study.j + 1
      BY <2>3, <2>4, CodeType
    <3>2. CASE i = 1
      BY <2>3, <3>1, <3>2, CodeType
    <3>3. CASE i # 1
      BY <2>3, <3>1, <3>3, CodeType DEF Captured
    <3> QED
      BY <3>2, <3>3
  <2> HIDE DEF code
  <2>8. IsPrefix(Code[b], code)
    BY <2>3, <2>6, <2>7, CodeType, PrefixOfEqual
  <2> QED
    BY <2>5, <2>8
<1>2. RemoteInv /\ [RemoteNext]_remote_vars => [Learns => Whole]_remote_vars
  BY <1>1
<1>3. RemoteSpec => [][Learns => Whole]_remote_vars
  BY <1>2, RemoteInvariant, PTL DEF RemoteSpec
<1> QED
  BY <1>3 DEF Learned
===============================================================================
