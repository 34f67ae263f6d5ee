----------------------------- MODULE Calibration -----------------------------
(***************************************************************************)
(* The calibration of the touch screen, calibration.c and touch.c, and the *)
(* settings that keep it, setup.c.  The interface (priority 25) makes a    *)
(* session and a thread (20) with a window; each time the pen goes up the  *)
(* tick interrupt calls back into the session; the thread hands the range  *)
(* over, saves the settings and frees the session.  Any of them may come   *)
(* between two steps of a slower one.                                      *)
(*                                                                         *)
(* The x axis is modelled.  The y axis passes through the same places, but *)
(* step 3 overwrites what step 2 made of its maximum: of the two lower     *)
(* corners it keeps the left one.  Of the settings only the range is       *)
(* modelled: volume and brightness are written by one thread.              *)
(***************************************************************************)
EXTENDS Integers, Sequences

CONSTANTS
  Coords,  \* what the touch controller reports
  Word,    \* the range of rt_uint16_t
  Across,  \* screen between the targets: width - 2 * CALIBRATION_WIDTH
  Inset,   \* screen beyond a target: CALIBRATION_WIDTH
  MinX,    \* load_default's range
  MaxX,
  Mq       \* messages in the queue of the window's thread

ASSUME CalibrationAssumption ==
  /\ Word \in Nat /\ Coords \subseteq 0..Word-1
  /\ Across \in Nat \ {0} /\ Inset \in Nat \ {0} /\ Mq \in Nat \ {0}
  /\ {MinX, MaxX} \subseteq 0..Word-1

VARIABLES
  ptr,         \* calibration_ptr: "null", or its session "live" or "freed"
  step,        \* session's step
  data,        \* its range: min_x, max_x
  tid,         \* its thread: "unset", "null", "thread", "dead"
  calibrating, \* touch->calibrating, with calibration_func
  touch,       \* touch->min_x, max_x
  thread,      \* where the thread is
  queue,       \* messages to its window: is it TOUCH_WIN_CLOSE?
  ui,          \* where the thread ply_ui is
  setup,       \* radio_setup
  saving,      \* how far the two callers of save_setup are
  text,        \* the settings they are about to write
  file,        \* what setup_fn holds, Empty from its truncation on
  disk,        \* what it held before, while somebody saves
  tapped,      \* history: the coordinates of the corners, until widened = 2
  widened,     \* history: how often the range was widened, up to 2
  unsaved,     \* history: the last save failed, or was not alone
  fault        \* a wild pointer was used, or a session replaced under its thread

vars == <<ptr, step, data, tid, calibrating, touch, thread, queue, ui, setup,
          saving, text, file, disk, tapped, widened, unsaved, fault>>

sessionVars == <<ptr, step, data, tid, tapped, widened>>
savedVars == <<saving, text, file, disk, unsaved>>

Empty == <<>>
Savers == {"ui", "cali"}
Saving == {p \in Savers : saving[p] # "no"}

(* The thread of a session exists and will use it.                          *)
Attached == thread \notin {"none", "dead"}
Registered == thread \in {"registered", "loop", "closing"}

(* rtgui_thread_send: what cannot be sent is lost.                          *)
Post(close) ==
  queue' = IF Registered /\ Len(queue) < Mq THEN Append(queue, close) ELSE queue

Diff(r) == IF r[2] > r[1] THEN r[2] - r[1] ELSE r[1] - r[2]
Margin(r) == ((Diff(r) \div Across) * Inset) % Word

(* Until the thread sets the width it is what the memory held: any word,    *)
(* with a quotient of either sign, or 0 when the processor divides by 0.    *)
UnsetMargins(r) ==
  LET quotient(n) == IF n > 0 THEN Diff(r) \div n
                     ELSE IF n < 0 THEN -(Diff(r) \div (-n)) ELSE 0
  IN {(quotient(word - 2 * Inset) * Inset) % Word : word \in 0..Word-1}

(* Fault: as if the axis were never reversed.                               *)
WidenForward(r, m) == <<(r[1] - m) % Word, (r[2] + m) % Word>>

(* From the targets to the borders of the screen.                           *)
Widen(r, m) ==
  IF r[2] > r[1] THEN <<(r[1] - m) % Word, (r[2] + m) % Word>>
  ELSE <<(r[1] + m) % Word, (r[2] - m) % Word>>

-----------------------------------------------------------------------------
(* The interface.                                                           *)

(* calibration_init up to the callback.  A session whose thread still runs  *)
(* is replaced; one whose thread never ran, or could not, is forgotten.     *)
(* Without memory for the session the null pointer is written through.      *)
calibration_init ==
  /\ ui = "idle" /\ ~fault
  /\ tid' = "unset" /\ step' = 0 /\ data' = <<0, 0>>
  /\ tapped' = <<>> /\ widened' = 0
  /\ \/ /\ ptr' = "live" /\ calibrating' = TRUE
        /\ fault' = Attached /\ ui' = "armed"
     \/ /\ ptr' = "null" /\ fault' = TRUE
        /\ UNCHANGED <<calibrating, ui>>
  /\ UNCHANGED <<touch, thread, queue, setup, savedVars>>

ThreadStarts ==
  /\ ui = "armed" /\ ~fault
  /\ \/ tid' = "thread" /\ thread' = "start"
     \/ tid' = "null" /\ UNCHANGED thread
  /\ ui' = "idle"
  /\ UNCHANGED <<ptr, step, data, calibrating, touch, queue, setup, savedVars,
                 tapped, widened, fault>>

-----------------------------------------------------------------------------
(* The tick interrupt: touch_timeout when the pen is up.                    *)

(* calibration_data_post before the last target.                            *)
Corner(x) ==
  /\ step < 4
  /\ data' = CASE step = 0 -> <<x, data[2]>>
               [] step = 1 -> <<data[1], x>>
               [] step = 2 -> <<data[1], (data[2] + x) \div 2>>
               [] step = 3 -> <<(data[1] + x) \div 2, data[2]>>
  /\ step' = step + 1 /\ tapped' = Append(tapped, x)
  /\ Post(FALSE)
  /\ UNCHANGED widened

(* Fault: the last target counts as a step, too.                            *)
CenterOnce ==
  /\ step = 4
  /\ data' = Widen(data, Margin(data)) /\ widened' = 1
  /\ step' = 5
  /\ Post(TRUE)
  /\ UNCHANGED tapped

(* And at the last one; the step stays.  The margin is not right before the *)
(* thread has set the width.  What a third widening makes of the range, or  *)
(* one after the thread took it, is not followed: nobody reads it.          *)
Center ==
  /\ step = 4
  /\ \/ /\ widened < 2 /\ thread \in {"start", "registered"}
        /\ \E m \in UnsetMargins(data) : data' = Widen(data, m)
        /\ widened' = 2
     \/ /\ widened < 2 /\ thread \notin {"start", "registered", "save", "normal"}
        /\ data' = Widen(data, Margin(data)) /\ widened' = widened + 1
     \/ /\ widened = 2 \/ thread \in {"save", "normal"}
        /\ UNCHANGED <<data, widened>>
  /\ tapped' = IF widened' = 2 THEN <<>> ELSE tapped
  /\ Post(TRUE)
  /\ UNCHANGED step

(* A callback into a session whose thread is not, not yet or no longer      *)
(* there follows a wild pointer.                                            *)
PenUp(x) ==
  /\ calibrating /\ ptr # "null" /\ ~fault
  /\ Corner(x) \/ Center
  /\ fault' = (tid # "thread" \/ ptr # "live")
  /\ UNCHANGED <<ptr, tid, calibrating, touch, thread, ui, setup, savedVars>>

-----------------------------------------------------------------------------
(* save_setup.                                                              *)

SaveOpens(p) ==
  /\ saving[p] = "no"
  /\ saving' = [saving EXCEPT ![p] = "open"]
  /\ file' = Empty
  /\ disk' = IF Saving = {} THEN file ELSE disk
  /\ unsaved' = (Saving # {})
  /\ UNCHANGED text

(* No memory or no file: nobody is told.                                    *)
SaveFails(p) ==
  /\ saving[p] = "no"
  /\ unsaved' = TRUE
  /\ UNCHANGED <<saving, text, file, disk>>

SaveFormats(p) ==
  /\ saving[p] = "open"
  /\ saving' = [saving EXCEPT ![p] = "text"]
  /\ text' = [text EXCEPT ![p] = setup]
  /\ UNCHANGED <<file, disk, unsaved>>

(* write and close: what two at a time leave is either's text, or neither.  *)
(* A write that fails (the disk is full) leaves the file cut: nobody is     *)
(* told.                                                                    *)
SaveCloses(p) ==
  /\ saving[p] = "text"
  /\ saving' = [saving EXCEPT ![p] = "no"]
  /\ text' = [text EXCEPT ![p] = Empty]
  /\ file' \in {text[p], Empty}
  /\ unsaved' = (unsaved \/ file' = Empty)
  /\ disk' = IF Saving = {p} THEN Empty ELSE file'

-----------------------------------------------------------------------------
(* The thread.                                                              *)

(* calibration_entry: without a queue it returns and leaves all as it is.   *)
Enter ==
  /\ thread = "start"
  /\ \/ thread' = "registered" /\ UNCHANGED tid
     \/ thread' = "dead" /\ tid' = "dead"
  /\ UNCHANGED <<ptr, step, data, tapped, widened, calibrating, touch, queue, setup, savedVars>>

(* The width is set, the window made.                                       *)
OpenWindow ==
  /\ thread = "registered"
  /\ thread' = "loop"
  /\ UNCHANGED <<sessionVars, calibrating, touch, queue, setup, savedVars>>

(* Without memory for it, its handler is set all the same.                  *)
NoWindow ==
  /\ thread = "registered"
  /\ fault' = TRUE
  /\ UNCHANGED <<sessionVars, calibrating, touch, thread, queue, setup, savedVars>>

HandleMessage ==
  /\ thread = "loop" /\ queue # <<>>
  /\ queue' = Tail(queue)
  /\ thread' = IF Head(queue) THEN "closing" ELSE "loop"
  /\ UNCHANGED <<sessionVars, calibrating, touch, setup, savedVars>>

Deregister ==
  /\ thread = "closing"
  /\ queue' = <<>> /\ thread' = "min"
  /\ UNCHANGED <<sessionVars, calibrating, touch, setup, savedVars>>

(* RT_TOUCH_CALIBRATION_DATA; the interrupt may widen the range in between. *)
TakeMin ==
  /\ thread = "min"
  /\ touch' = <<data[1], touch[2]>> /\ thread' = "max"
  /\ UNCHANGED <<sessionVars, calibrating, queue, setup, savedVars>>

(* Fault: the settings are not told.                                        *)
TakeMaxOnly ==
  /\ thread = "max"
  /\ touch' = <<touch[1], data[2]>> /\ thread' = "save"
  /\ UNCHANGED <<setup, sessionVars, calibrating, queue, savedVars>>

TakeMax ==
  /\ thread = "max"
  /\ touch' = <<touch[1], data[2]>> /\ setup' = touch' /\ thread' = "save"
  /\ UNCHANGED <<sessionVars, calibrating, queue, savedVars>>

Save ==
  /\ \/ SaveOpens("cali") /\ thread = "save" /\ UNCHANGED thread
     \/ SaveFails("cali") /\ thread = "save" /\ thread' = "normal"
     \/ SaveFormats("cali") /\ UNCHANGED thread
     \/ SaveCloses("cali") /\ thread' = "normal"
  /\ UNCHANGED <<sessionVars, calibrating, touch, queue, setup>>

(* Fault: the session is freed first.                                       *)
NormalLast ==
  /\ thread = "normal"
  /\ ptr' = "freed" /\ thread' = "free"
  /\ UNCHANGED <<step, data, tid, tapped, widened, calibrating, touch, queue, setup, savedVars>>

Normal ==
  /\ thread = "normal"
  /\ calibrating' = FALSE /\ thread' = "free"
  /\ UNCHANGED <<sessionVars, touch, queue, setup, savedVars>>

Free ==
  /\ thread = "free"
  /\ ptr' = "freed" /\ thread' = "end"
  /\ UNCHANGED <<step, data, tid, tapped, widened, calibrating, touch, queue, setup, savedVars>>

End ==
  /\ thread = "end"
  /\ ptr' = "null" /\ thread' = "none" /\ tid' = "unset"
  /\ step' = 0 /\ data' = <<0, 0>> /\ tapped' = <<>> /\ widened' = 0
  /\ UNCHANGED <<calibrating, touch, queue, setup, savedVars>>

calibration_entry ==
  /\ ~fault /\ UNCHANGED ui
  /\ \/ /\ Enter \/ OpenWindow \/ HandleMessage \/ Deregister \/ TakeMin \/ TakeMax
           \/ Save \/ Normal \/ Free \/ End
        /\ UNCHANGED fault
     \/ NoWindow

(* save_handler of the settings' view.                                      *)
save_handler ==
  /\ ~fault
  /\ \/ ui = "idle" /\ SaveOpens("ui") /\ ui' = "saving"
     \/ ui = "idle" /\ SaveFails("ui") /\ UNCHANGED ui
     \/ SaveFormats("ui") /\ UNCHANGED ui
     \/ SaveCloses("ui") /\ ui' = "idle"
  /\ UNCHANGED <<sessionVars, calibrating, touch, thread, queue, setup, fault>>

(* Painting, the server: other messages to the window.                      *)
OthersPost ==
  /\ Registered /\ ~fault
  /\ Post(FALSE)
  /\ UNCHANGED <<sessionVars, calibrating, touch, thread, ui, setup, savedVars, fault>>

-----------------------------------------------------------------------------

Init ==
  /\ file = <<MinX, MaxX>> /\ disk = Empty /\ setup = file /\ touch = file
  /\ ptr = "null" /\ step = 0 /\ data = <<0, 0>> /\ tid = "unset"
  /\ calibrating = FALSE /\ thread = "none" /\ queue = <<>> /\ ui = "idle"
  /\ saving = [p \in Savers |-> "no"] /\ text = [p \in Savers |-> Empty]
  /\ tapped = <<>> /\ widened = 0 /\ unsaved = FALSE /\ fault = FALSE

(* And the start: load_setup replaces settings that were cut by the default *)
(* ones and saves them, which may fail, too.                                *)
PowerFails ==
  /\ \E found \in IF Saving # {} THEN {disk, Empty} \cup {text[p] : p \in Savers} ELSE {file} :
       IF found = Empty
       THEN setup' = <<MinX, MaxX>> /\ file' \in {setup', Empty}
       ELSE setup' = found /\ file' = found
  /\ touch' = setup' /\ disk' = Empty /\ unsaved' = (file' = Empty)
  /\ ptr' = "null" /\ step' = 0 /\ data' = <<0, 0>> /\ tid' = "unset"
  /\ calibrating' = FALSE /\ thread' = "none" /\ queue' = <<>> /\ ui' = "idle"
  /\ saving' = [p \in Savers |-> "no"] /\ text' = [p \in Savers |-> Empty]
  /\ tapped' = <<>> /\ widened' = 0 /\ fault' = FALSE

Next ==
  \/ calibration_init \/ ThreadStarts
  \/ \E x \in Coords : PenUp(x)
  \/ calibration_entry \/ save_handler \/ OthersPost
  \/ PowerFails

(* The user goes on touching the screen, now and then when the window's     *)
(* queue has room.                                                          *)
Fairness ==
  /\ WF_vars(calibration_entry) /\ WF_vars(ThreadStarts)
  /\ SF_vars(Len(queue) < Mq /\ \E x \in Coords : PenUp(x))

Spec == Init /\ [][Next]_vars /\ Fairness

-----------------------------------------------------------------------------
(* Properties.                                                              *)

(* Whenever the interrupt may call back there is a session; and the thread  *)
(* never uses one that was freed or taken away.                             *)
SessionAlive ==
  ~fault =>
    /\ calibrating => ptr = "live"
    /\ Attached /\ thread # "end" => ptr = "live" /\ tid = "thread"

(* The range that a calibration hands over goes as far beyond the four      *)
(* corners, on both sides and in the direction of the axis, as the screen   *)
(* goes beyond the targets, less than Inset short of it; if the last target *)
(* was touched once and the borders are in the range of the words.          *)
Calibrated ==
  Len(tapped) = 4 /\ widened = 1 /\ thread \in {"save", "normal", "free", "end"} =>
    LET r == <<(tapped[1] + tapped[4]) \div 2, (tapped[2] + tapped[3]) \div 2>>
        beyond == (Diff(r) * Inset) \div Across
        more == Diff(touch) - Diff(r)
    IN (\A i \in 1..2 : r[i] - beyond >= 0 /\ r[i] + beyond < Word) =>
         /\ touch[1] + touch[2] = r[1] + r[2]
         /\ r[1] < r[2] <=> touch[1] < touch[2]
         /\ more <= 2 * beyond /\ 2 * beyond - more < 2 * Inset

(* When nobody is saving, and no calibration about to, the file holds the   *)
(* range in use, if the last save went well and was alone: a start after a  *)
(* power failure finds it, whenever that was.                               *)
TouchSaved ==
  Saving = {} /\ thread \notin {"max", "save"} /\ ~unsaved => file = touch

(* Once the window is there the touch screen comes back into use, even if   *)
(* the message that closes the window found its queue full.                 *)
CalibrationEnds == thread = "loop" ~> ~calibrating \/ fault
=============================================================================
