-------------------------- MODULE Calibration_proofs --------------------------
(***************************************************************************)
(* Proofs about Calibration, for any touch panel, screen and queue.        *)
(***************************************************************************)
EXTENDS Calibration, TLAPS

Ranges == (0..Word-1) \X (0..Word-1)

Flags == calibrating \in BOOLEAN /\ fault \in BOOLEAN /\ unsaved \in BOOLEAN

(* Every range that is made, handed over, saved or found is one of words.   *)
Types ==
  /\ ptr \in {"null", "live", "freed"} /\ tid \in {"unset", "null", "thread", "dead"}
  /\ thread \in {"none", "start", "registered", "loop", "closing", "min", "max", "save",
                 "normal", "free", "end", "dead"}
  /\ ui \in {"idle", "armed", "saving"}
  /\ step \in 0..4 /\ tapped \in Seq(Coords) /\ widened \in 0..2
  /\ widened < 2 => Len(tapped) = step
  /\ data \in Ranges /\ touch \in Ranges /\ setup \in Ranges

QueueOK == queue \in Seq(BOOLEAN) /\ Len(queue) <= Mq

Files ==
  /\ saving \in [Savers -> {"no", "open", "text"}]
  /\ text \in [Savers -> Ranges \cup {Empty}]
  /\ file \in Ranges \cup {Empty} /\ disk \in Ranges \cup {Empty}

TypeOK == Flags /\ Types /\ QueueOK /\ Files

(* Who of the two callers of save_setup is where.                           *)
SaversOK ==
  /\ saving["ui"] # "no" <=> ui = "saving"
  /\ saving["cali"] # "no" => thread = "save"

(* Whose the session is, and how long it lives.                             *)
SessionOK ==
  /\ calibrating => ptr = "live"
  /\ ui = "armed" => thread \in {"none", "dead"} /\ ptr = "live"
  /\ Attached => tid = "thread"
  /\ Attached /\ thread # "end" => ptr = "live"
  /\ thread \in {"free", "end"} => ~calibrating

(* The window is told to close after the last target only.                  *)
Told == \E i \in 1..Len(queue) : queue[i] = TRUE
After == thread \in {"closing", "min", "max", "save", "normal", "free", "end"}

Closes ==
  /\ ~Registered => queue = <<>>
  /\ Told \/ After => widened > 0

(* What the range is made of so far.                                        *)
Mean(i, j) == (tapped[i] + tapped[j]) \div 2
Corners == <<Mean(1, 4), Mean(2, 3)>>

RangeOK ==
  /\ step \in {1, 2, 3} => data[1] = tapped[1]
  /\ step = 2 => data[2] = tapped[2]
  /\ step = 3 => data[2] = Mean(2, 3)
  /\ step = 4 /\ widened = 0 => data = Corners
  /\ widened = 1 => data = Widen(Corners, Margin(Corners))
  /\ widened > 0 => step = 4

(* A range widened once is handed over as it is.                            *)
HandedOver ==
  widened = 1 =>
    /\ thread = "max" => touch[1] = data[1]
    /\ thread \in {"save", "normal", "free", "end"} => touch = data

(* A wild pointer is used before the window is there, or by the interface,  *)
(* which forgets what was tapped.                                           *)
Faulted == fault => tapped = <<>> \/ thread \in {"none", "dead", "registered"}

(* The settings know the range, and a save that is not disturbed writes it. *)
SettingsOK ==
  /\ thread # "max" => setup = touch
  /\ ~unsaved =>
       /\ \E p \in Savers : saving[p] = "no"
       /\ saving["cali"] = "text" => text["cali"] = touch
       /\ thread \notin {"max", "save"} /\ saving["ui"] = "text" => text["ui"] = touch

CInv ==
  /\ TypeOK /\ SaversOK
  /\ ~fault => SessionOK /\ Closes /\ RangeOK /\ HandedOver
  /\ Faulted /\ SettingsOK /\ TouchSaved

-----------------------------------------------------------------------------
(* Ranges and messages.                                                     *)

LEMMA InWords ==
  ASSUME NEW n \in Int
  PROVE  n % Word \in 0..Word-1
<1>1. Word \in Nat \ {0}
  BY CalibrationAssumption
<1> QED
  BY <1>1

LEMMA WidenInRanges ==
  ASSUME NEW r \in Ranges, NEW m \in Int
  PROVE  Widen(r, m) \in Ranges
<1>1. r[1] \in Int /\ r[2] \in Int
  BY DEF Ranges
<1>2. /\ (r[1] - m) % Word \in 0..Word-1 /\ (r[2] + m) % Word \in 0..Word-1
      /\ (r[1] + m) % Word \in 0..Word-1 /\ (r[2] - m) % Word \in 0..Word-1
  BY <1>1, InWords
<1> QED
  BY <1>2 DEF Widen, Ranges

LEMMA MarginsAreNumbers ==
  ASSUME NEW r \in Ranges
  PROVE  Margin(r) \in Int /\ UnsetMargins(r) \subseteq Int
<1>1. Diff(r) \in Nat
  BY DEF Diff, Ranges
<1>2. Inset \in Int /\ Word \in Nat
  BY CalibrationAssumption
<1>3. Margin(r) \in Int
  <2>1. Diff(r) \div Across \in Int
    BY <1>1, CalibrationAssumption
  <2>2. (Diff(r) \div Across) * Inset \in Int
    BY <1>2, <2>1
  <2> QED
    BY <2>2, InWords DEF Margin
<1>4. ASSUME NEW word \in 0..Word-1, NEW q,
             q = LET n == word - 2 * Inset IN
                   IF n > 0 THEN Diff(r) \div n
                   ELSE IF n < 0 THEN -(Diff(r) \div (-n)) ELSE 0
      PROVE  (q * Inset) % Word \in Int
  <2> DEFINE n == word - 2 * Inset
  <2>1. n \in Int
    BY <1>2
  <2> HIDE DEF n
  <2>2. q = IF n > 0 THEN Diff(r) \div n ELSE IF n < 0 THEN -(Diff(r) \div (-n)) ELSE 0
    BY <1>4 DEF n
  <2>3. n > 0 => Diff(r) \div n \in Int
    BY <1>1, <2>1
  <2>4. n < 0 => Diff(r) \div (-n) \in Int
    BY <1>1, <2>1
  <2>5. q \in Int
    BY <2>2, <2>3, <2>4
  <2>6. q * Inset \in Int
    BY <1>2, <2>5
  <2> QED
    BY <2>6, InWords
<1>5. UnsetMargins(r) \subseteq Int
  BY <1>4 DEF UnsetMargins
<1> QED
  BY <1>3, <1>5

LEMMA MeanInWords ==
  ASSUME NEW a \in 0..Word-1, NEW b \in 0..Word-1
  PROVE  (a + b) \div 2 \in 0..Word-1
  BY CalibrationAssumption

LEMMA Posts ==
  ASSUME QueueOK, NEW close \in BOOLEAN, Post(close)
  PROVE  /\ QueueOK' /\ (~Registered => queue' = queue)
         /\ Told' => Told \/ close = TRUE
<1>1. CASE Registered /\ Len(queue) < Mq
  <2>1. /\ queue' = Append(queue, close) /\ queue' \in Seq(BOOLEAN)
        /\ Len(queue') = Len(queue) + 1 /\ queue'[Len(queue) + 1] = close
        /\ \A i \in 1..Len(queue) : queue'[i] = queue[i]
    BY <1>1 DEF Post, QueueOK
  <2>2. QueueOK'
    BY <1>1, <2>1, CalibrationAssumption DEF QueueOK
  <2>3. Told' => Told \/ close = TRUE
    <3>1. Len(queue) \in Nat
      BY DEF QueueOK
    <3>2. ASSUME NEW i \in 1..Len(queue'), queue'[i] = TRUE PROVE Told \/ close = TRUE
      BY <2>1, <3>1, <3>2 DEF Told
    <3> QED
      BY <3>2 DEF Told
  <2> QED
    BY <1>1, <2>2, <2>3
<1>2. CASE ~(Registered /\ Len(queue) < Mq)
  BY <1>2 DEF Post, QueueOK, Told
<1> QED
  BY <1>1, <1>2

-----------------------------------------------------------------------------
(* What a step leaves alone.                                                *)

LEMMA SameRange ==
  ASSUME RangeOK, UNCHANGED <<step, tapped, widened, data>>
  PROVE  RangeOK'
<1>1. Corners' = Corners /\ Mean(2, 3)' = Mean(2, 3)
  BY DEF Corners, Mean
<1> QED
  BY <1>1 DEF RangeOK

LEMMA SameSaves ==
  ASSUME Files, SaversOK, SettingsOK, TouchSaved,
         UNCHANGED <<saving, text, file, disk, unsaved, setup, touch, ui>>,
         thread' = thread \/ {thread, thread'} \cap {"max", "save"} = {}
  PROVE  Files' /\ SaversOK' /\ SettingsOK' /\ TouchSaved'
<1>1. Files' /\ Saving' = Saving
  BY DEF Files, Saving
<1>2. SaversOK'
  BY DEF SaversOK
<1>3. SettingsOK'
  BY DEF SettingsOK
<1>4. TouchSaved'
  BY <1>1 DEF TouchSaved
<1> QED
  BY <1>1, <1>2, <1>3, <1>4

-----------------------------------------------------------------------------
(* The interface and the interrupt.                                         *)

LEMMA InitCalibrates ==
  ASSUME CInv, calibration_init
  PROVE  CInv'
<1>1. /\ ui = "idle" /\ ~fault /\ ui' \in {"idle", "armed"} /\ tid' = "unset"
      /\ step' = 0 /\ data' = <<0, 0>> /\ tapped' = <<>> /\ widened' = 0
      /\ UNCHANGED <<touch, thread, queue, setup, saving, text, file, disk, unsaved>>
      /\ ptr' \in {"live", "null"}
  BY DEF calibration_init, savedVars
<1>2. Flags'
  <2>1. fault' \in BOOLEAN
    BY Zenon DEF calibration_init, Attached
  <2>2. calibrating' = TRUE \/ calibrating' = calibrating
    BY Zenon DEF calibration_init
  <2>3. calibrating \in BOOLEAN /\ unsaved \in BOOLEAN
    BY DEF CInv, TypeOK, Flags
  <2>4. calibrating' \in BOOLEAN
    BY <2>2, <2>3, Zenon
  <2> QED
    BY <1>1, <2>1, <2>3, <2>4 DEF Flags
<1>3. Types'
  BY <1>1, CalibrationAssumption DEF CInv, TypeOK, Types, Ranges
<1>4. QueueOK' /\ Files'
  BY <1>1 DEF CInv, TypeOK, QueueOK, Files
<1>5. SaversOK'
  BY <1>1 DEF CInv, SaversOK
<1>6. SettingsOK' /\ TouchSaved'
  BY <1>1 DEF CInv, SettingsOK, TouchSaved, Saving
<1>7. Faulted'
  BY <1>1 DEF Faulted
<1>8. ASSUME ~fault' PROVE SessionOK' /\ Closes' /\ RangeOK' /\ HandedOver'
  <2>0. ptr' = "live" /\ (fault' <=> Attached)
    <3>1. CASE /\ ptr' = "live" /\ calibrating' = TRUE
               /\ fault' = Attached /\ ui' = "armed"
      BY <3>1, Zenon
    <3>2. CASE /\ ptr' = "null" /\ fault' = TRUE
               /\ UNCHANGED <<calibrating, ui>>
      BY <1>8, <3>2
    <3> QED
      BY <3>1, <3>2, Zenon DEF calibration_init
  <2>1. thread \in {"none", "dead"} /\ thread' = thread
    BY <1>1, <1>8, <2>0 DEF Attached
  <2>2. SessionOK'
    BY <1>1, <2>0, <2>1 DEF SessionOK, Attached
  <2>3. Closes'
    <3>1. queue' = <<>>
      BY <1>1, <2>1 DEF CInv, Closes, Registered
    <3>2. ~Told'
      BY <3>1 DEF Told
    <3> QED
      BY <2>1, <3>1, <3>2 DEF Closes, After
  <2> QED
    BY <1>1, <2>2, <2>3 DEF RangeOK, HandedOver
<1> QED
  BY <1>2, <1>3, <1>4, <1>5, <1>6, <1>7, <1>8 DEF CInv, TypeOK

LEMMA ThreadStartsCInv ==
  ASSUME CInv, ThreadStarts
  PROVE  CInv'
<1>1. /\ ui = "armed" /\ ~fault /\ ui' = "idle" /\ fault' = fault
      /\ UNCHANGED <<ptr, step, data, calibrating, touch, queue, setup, saving, text,
                     file, disk, unsaved, tapped, widened>>
      /\ \/ tid' = "thread" /\ thread' = "start"
         \/ tid' = "null" /\ thread' = thread
  BY DEF ThreadStarts, savedVars
<1>2. thread \in {"none", "dead"} /\ ptr = "live" /\ Closes /\ RangeOK /\ HandedOver
  BY <1>1 DEF CInv, SessionOK
<1>3. thread' \in {"none", "dead", "start"}
  BY <1>1, <1>2
<1>4. TypeOK'
  BY <1>1, <1>3 DEF CInv, TypeOK, Flags, Types, QueueOK, Files
<1>5. SaversOK' /\ SettingsOK' /\ TouchSaved'
  BY <1>1, <1>2, <1>3 DEF CInv, SaversOK, SettingsOK, TouchSaved, Saving
<1>6. SessionOK'
  BY <1>1, <1>2, <1>3 DEF SessionOK, Attached
<1>7. Closes'
  BY <1>1, <1>2, <1>3 DEF Closes, Registered, Told, After
<1>8. RangeOK' /\ HandedOver'
  BY <1>1, <1>2, <1>3, SameRange DEF HandedOver
<1>9. Faulted'
  BY <1>1 DEF Faulted
<1> QED
  BY <1>4, <1>5, <1>6, <1>7, <1>8, <1>9 DEF CInv

LEMMA CornerRange ==
  ASSUME TypeOK, Closes, RangeOK, NEW x \in Coords, Corner(x)
  PROVE  /\ step' \in 0..4 /\ tapped' \in Seq(Coords) /\ Len(tapped') = step'
         /\ data' \in Ranges /\ widened = 0 /\ RangeOK' /\ widened' = 0
<1>1. /\ step \in 0..3 /\ step' = step + 1 /\ tapped' = Append(tapped, x)
      /\ widened' = widened
  BY DEF Corner, TypeOK, Types
<1>2. tapped \in Seq(Coords) /\ Len(tapped) = step /\ data \in Ranges /\ widened \in 0..2
  BY <1>1 DEF TypeOK, Types, RangeOK
<1>3. /\ tapped' \in Seq(Coords) /\ Len(tapped') = step' /\ tapped'[step'] = x
      /\ \A i \in 1..step : tapped'[i] = tapped[i]
  BY <1>1, <1>2
<1>4. widened = 0
  BY <1>1, <1>2 DEF RangeOK
<1>5. /\ data = <<data[1], data[2]>> /\ data[1] \in 0..Word-1 /\ data[2] \in 0..Word-1
      /\ x \in 0..Word-1
  BY <1>2, CalibrationAssumption DEF Ranges
<1>6. /\ (data[2] + x) \div 2 \in 0..Word-1 /\ (data[1] + x) \div 2 \in 0..Word-1
  BY <1>5, MeanInWords
<1>7. CASE step = 0
  <2>1. data' = <<x, data[2]>>
    BY <1>7 DEF Corner
  <2> QED
    BY <1>1, <1>3, <1>4, <1>5, <1>7, <2>1 DEF RangeOK, Ranges
<1>8. CASE step = 1
  <2>1. data' = <<data[1], x>>
    BY <1>8 DEF Corner
  <2>2. data[1] = tapped[1] /\ tapped'[1] = tapped[1] /\ tapped'[2] = x
    BY <1>1, <1>3, <1>8 DEF RangeOK
  <2> QED
    BY <1>1, <1>3, <1>4, <1>5, <1>8, <2>1, <2>2 DEF RangeOK, Ranges
<1>9. CASE step = 2
  <2>1. data' = <<data[1], (data[2] + x) \div 2>>
    BY <1>9 DEF Corner
  <2>2. /\ data[1] = tapped[1] /\ tapped'[1] = tapped[1] /\ tapped'[3] = x
        /\ data[2] = tapped[2] /\ tapped'[2] = tapped[2]
    BY <1>1, <1>3, <1>9 DEF RangeOK
  <2>3. data'[2] = Mean(2, 3)'
    BY <2>1, <2>2 DEF Mean
  <2> QED
    BY <1>1, <1>3, <1>4, <1>5, <1>6, <1>9, <2>1, <2>2, <2>3 DEF RangeOK, Ranges
<1>10. CASE step = 3
  <2>1. data' = <<(data[1] + x) \div 2, data[2]>>
    BY <1>10 DEF Corner
  <2>2. /\ data[1] = tapped[1] /\ tapped'[1] = tapped[1] /\ tapped'[4] = x
        /\ data[2] = Mean(2, 3) /\ tapped'[2] = tapped[2] /\ tapped'[3] = tapped[3]
    BY <1>1, <1>3, <1>10 DEF RangeOK
  <2>3. data' = Corners'
    BY <2>1, <2>2 DEF Mean, Corners
  <2> QED
    BY <1>1, <1>3, <1>4, <1>5, <1>6, <1>10, <2>1, <2>3 DEF RangeOK, Ranges
<1> QED
  BY <1>1, <1>7, <1>8, <1>9, <1>10

LEMMA CenterRange ==
  ASSUME TypeOK, RangeOK, Center
  PROVE  /\ data' \in Ranges /\ widened' \in 0..2 /\ step = 4 /\ step' = step
         /\ tapped' \in Seq(Coords) /\ (widened' < 2 => tapped' = tapped) /\ RangeOK'
         /\ \/ UNCHANGED <<data, widened>>
               /\ (widened > 0 \/ thread \in {"save", "normal"})
            \/ thread \notin {"save", "normal"} /\ widened' > widened
<1>1. /\ step = 4 /\ step' = step
      /\ tapped' = IF widened' = 2 THEN <<>> ELSE tapped
  BY DEF Center
<1>2. data \in Ranges /\ widened \in 0..2 /\ tapped \in Seq(Coords)
  BY DEF TypeOK, Types
<1>3. tapped' \in Seq(Coords)
  BY <1>1, <1>2
<1>4. CASE /\ widened < 2 /\ thread \in {"start", "registered"}
           /\ \E m \in UnsetMargins(data) : data' = Widen(data, m)
           /\ widened' = 2
  <2>1. PICK m \in UnsetMargins(data) : data' = Widen(data, m)
    BY <1>4
  <2>2. data' \in Ranges
    BY <1>2, <2>1, MarginsAreNumbers, WidenInRanges
  <2>3. RangeOK'
    BY <1>1, <1>4 DEF RangeOK
  <2> QED
    BY <1>1, <1>2, <1>3, <1>4, <2>2, <2>3
<1>5. CASE /\ widened < 2 /\ thread \notin {"start", "registered", "save", "normal"}
           /\ data' = Widen(data, Margin(data)) /\ widened' = widened + 1
  <2>1. data' \in Ranges
    BY <1>2, <1>5, MarginsAreNumbers, WidenInRanges
  <2>2. widened' = 1 => widened = 0 /\ tapped' = tapped
    BY <1>1, <1>2, <1>5
  <2>3. widened' = 1 => data = Corners /\ Corners' = Corners
    BY <1>1, <2>2 DEF RangeOK, Corners, Mean
  <2>4. widened' = 1 => data' = Widen(Corners', Margin(Corners'))
    BY <1>5, <2>3
  <2>5. Widen(Corners, Margin(Corners))' = Widen(Corners', Margin(Corners'))
    BY DEF Widen, Margin, Diff
  <2>6. RangeOK'
    BY <1>1, <1>2, <1>5, <2>4, <2>5 DEF RangeOK
  <2> QED
    BY <1>1, <1>2, <1>3, <1>5, <2>1, <2>6
<1>6. CASE /\ widened = 2 \/ thread \in {"save", "normal"}
           /\ UNCHANGED <<data, widened>>
  <2>1. RangeOK'
    <3>1. CASE widened = 2
      BY <1>1, <1>6, <3>1 DEF RangeOK
    <3>2. CASE widened # 2
      <4>1. tapped' = tapped
        BY <1>1, <1>6, <3>2
      <4> QED
        BY <1>1, <1>6, <4>1, SameRange
    <3> QED
      BY <3>1, <3>2
  <2> QED
    BY <1>1, <1>2, <1>3, <1>6, <2>1
<1> QED
  BY <1>4, <1>5, <1>6, Zenon DEF Center

LEMMA PenUpCInv ==
  ASSUME CInv, NEW x \in Coords, PenUp(x)
  PROVE  CInv'
<1>1. /\ calibrating /\ ~fault
      /\ UNCHANGED <<ptr, tid, calibrating, touch, thread, ui, setup, saving, text,
                     file, disk, unsaved>>
  BY DEF PenUp, savedVars
<1>2. fault' <=> tid # "thread" \/ ptr # "live"
  BY DEF PenUp
<1>3. ptr = "live" /\ SessionOK /\ Closes /\ RangeOK /\ HandedOver
  BY <1>1 DEF CInv, SessionOK
<1>4. Corner(x) \/ Center
  BY DEF PenUp
<1>5. Attached => ~fault'
  BY <1>2, <1>3 DEF SessionOK
<1>6. thread \notin {"free", "end"}
  BY <1>1, <1>3 DEF SessionOK
<1>7. Flags'
  <2>1. fault' \in BOOLEAN
    BY Zenon DEF PenUp
  <2> QED
    BY <1>1, <2>1 DEF CInv, TypeOK, Flags
<1>8. Files' /\ SaversOK' /\ SettingsOK' /\ TouchSaved'
  BY <1>1, SameSaves DEF CInv, TypeOK
<1>9. Faulted'
  <2>1. thread' \notin {"none", "dead"} => ~fault'
    BY <1>1, <1>5 DEF Attached
  <2> QED
    BY <2>1 DEF Faulted
<1>10. SessionOK'
  BY <1>1, <1>3 DEF SessionOK, Attached
<1>11. CASE Corner(x)
  <2>1. /\ step' \in 0..4 /\ tapped' \in Seq(Coords) /\ Len(tapped') = step'
        /\ data' \in Ranges /\ widened = 0 /\ RangeOK' /\ widened' = 0
    BY <1>3, <1>11, CornerRange DEF CInv
  <2>2. Types'
    BY <1>1, <2>1 DEF CInv, TypeOK, Types
  <2>3. Post(FALSE)
    BY <1>11, Zenon DEF Corner
  <2>4. QueueOK' /\ (~Registered => queue' = queue) /\ (Told' => Told)
    BY <2>3, Posts DEF CInv, TypeOK
  <2>5. Closes'
    BY <1>1, <1>3, <2>1, <2>4 DEF Closes, Registered, After
  <2>6. HandedOver'
    BY <2>1 DEF HandedOver
  <2> QED
    BY <1>7, <1>8, <1>9, <1>10, <2>1, <2>2, <2>4, <2>5, <2>6 DEF CInv, TypeOK
<1>12. CASE Center
  <2>1. /\ data' \in Ranges /\ widened' \in 0..2 /\ step = 4 /\ step' = step
        /\ tapped' \in Seq(Coords) /\ (widened' < 2 => tapped' = tapped) /\ RangeOK'
        /\ \/ UNCHANGED <<data, widened>>
              /\ (widened > 0 \/ thread \in {"save", "normal"})
           \/ thread \notin {"save", "normal"} /\ widened' > widened
    BY <1>3, <1>12, CenterRange DEF CInv
  <2>2. widened \in 0..2 /\ (After => widened > 0)
    BY <1>3 DEF Closes, CInv, TypeOK, Types
  <2>3. widened' > 0 /\ widened' >= widened
    BY <2>1, <2>2 DEF After
  <2>4. Types'
    BY <1>1, <2>1, <2>2, <2>3 DEF CInv, TypeOK, Types
  <2>5. Post(TRUE)
    BY <1>12, Zenon DEF Center
  <2>6. QueueOK' /\ (~Registered => queue' = queue)
    BY <2>5, Posts DEF CInv, TypeOK
  <2>7. Closes'
    BY <1>1, <1>3, <2>3, <2>6 DEF Closes, Registered
  <2>8. HandedOver'
    <3>1. CASE After
      <4>1. widened' = 1 => UNCHANGED <<data, widened>>
        BY <2>1, <2>2, <3>1
      <4> QED
        BY <1>1, <1>3, <4>1 DEF HandedOver
    <3>2. CASE ~After
      BY <1>1, <3>2 DEF HandedOver, After
    <3> QED
      BY <3>1, <3>2
  <2> QED
    BY <1>7, <1>8, <1>9, <1>10, <2>1, <2>4, <2>6, <2>7, <2>8 DEF CInv, TypeOK
<1> QED
  BY <1>4, <1>11, <1>12

LEMMA OthersPostCInv ==
  ASSUME CInv, OthersPost
  PROVE  CInv'
<1>1. /\ ~fault /\ Post(FALSE)
      /\ UNCHANGED <<ptr, step, data, tid, tapped, widened, calibrating, touch, thread,
                     ui, setup, saving, text, file, disk, unsaved, fault>>
  BY DEF OthersPost, savedVars, sessionVars
<1>2. SessionOK /\ Closes /\ RangeOK /\ HandedOver
  BY <1>1 DEF CInv
<1>3. Flags' /\ Types'
  BY <1>1 DEF CInv, TypeOK, Flags, Types
<1>4. QueueOK' /\ (~Registered => queue' = queue) /\ (Told' => Told)
  BY <1>1, Posts DEF CInv, TypeOK
<1>5. Files' /\ SaversOK' /\ SettingsOK' /\ TouchSaved'
  BY <1>1, SameSaves DEF CInv, TypeOK
<1>6. SessionOK' /\ Faulted' /\ HandedOver'
  BY <1>1, <1>2 DEF SessionOK, Attached, Faulted, HandedOver
<1>7. Closes'
  BY <1>1, <1>2, <1>4 DEF Closes, Registered, After
<1>8. RangeOK'
  BY <1>1, <1>2, SameRange
<1> QED
  BY <1>3, <1>4, <1>5, <1>6, <1>7, <1>8 DEF CInv, TypeOK

-----------------------------------------------------------------------------
(* The two savers.                                                          *)

(* One step of save_setup, with what its caller does.                       *)
SaveStep(p) == SaveOpens(p) \/ SaveFails(p) \/ SaveFormats(p) \/ SaveCloses(p)

LEMMA SaveTypes ==
  ASSUME CInv, NEW p \in Savers, SaveStep(p)
  PROVE  Files' /\ unsaved' \in BOOLEAN
<1>1. /\ saving \in [Savers -> {"no", "open", "text"}]
      /\ text \in [Savers -> Ranges \cup {Empty}]
      /\ file \in Ranges \cup {Empty} /\ disk \in Ranges \cup {Empty}
      /\ setup \in Ranges /\ unsaved \in BOOLEAN
  BY DEF CInv, TypeOK, Files, Types, Flags
<1>2. CASE SaveOpens(p)
  <2>1. unsaved' \in BOOLEAN
    BY <1>2, Zenon DEF SaveOpens
  <2>2. Files'
    BY <1>1, <1>2 DEF SaveOpens, Files
  <2> QED
    BY <2>1, <2>2
<1>3. CASE SaveFails(p)
  BY <1>1, <1>3 DEF SaveFails, Files
<1>4. CASE SaveFormats(p)
  BY <1>1, <1>4 DEF SaveFormats, Files
<1>5. CASE SaveCloses(p)
  <2>1. text[p] \in Ranges \cup {Empty}
    BY <1>1
  <2>2. file' \in Ranges \cup {Empty}
    BY <1>5, <2>1 DEF SaveCloses
  <2>3. disk' \in Ranges \cup {Empty}
    BY <1>5, <2>2 DEF SaveCloses
  <2>4. unsaved' \in BOOLEAN
    BY <1>5, Zenon DEF SaveCloses
  <2>5. Files'
    BY <1>1, <1>5, <2>2, <2>3 DEF SaveCloses, Files
  <2> QED
    BY <2>4, <2>5
<1> QED
  BY <1>2, <1>3, <1>4, <1>5 DEF SaveStep

(* A save by nobody else writes the range in use.                           *)
LEMMA SaveSettings ==
  ASSUME CInv, NEW p \in Savers, SaveStep(p), UNCHANGED <<touch, setup>>,
         p = "cali" => thread = "save",
         thread' = IF p = "cali" /\ (SaveFails(p) \/ SaveCloses(p)) THEN "normal" ELSE thread
  PROVE  SettingsOK' /\ TouchSaved'
<1>1. /\ saving \in [Savers -> {"no", "open", "text"}]
      /\ text \in [Savers -> Ranges \cup {Empty}]
      /\ Savers = {"ui", "cali"} /\ Saving = {q \in Savers : saving[q] # "no"}
      /\ Saving' = {q \in Savers : saving'[q] # "no"}
  BY DEF CInv, TypeOK, Files, Savers, Saving
<1>2. SettingsOK /\ TouchSaved /\ SaversOK
  BY DEF CInv
<1>3. thread' # "max" => setup' = touch'
  BY <1>2 DEF SettingsOK
<1>4. CASE SaveOpens(p)
  <2>1. /\ saving[p] = "no" /\ saving' = [saving EXCEPT ![p] = "open"]
        /\ text' = text /\ (unsaved' <=> Saving # {})
    BY <1>4 DEF SaveOpens
  <2>2. saving'[p] = "open" /\ \A q \in Savers \ {p} : saving'[q] = saving[q]
    BY <1>1, <2>1
  <2>3. p \in Saving'
    BY <1>1, <2>2
  <2>4. ~unsaved' => \A q \in Savers \ {p} : saving'[q] = "no"
    BY <1>1, <2>1, <2>2
  <2>5. SettingsOK'
    BY <1>1, <1>3, <2>2, <2>4 DEF SettingsOK
  <2> QED
    BY <2>3, <2>5 DEF TouchSaved
<1>5. CASE SaveFails(p)
  BY <1>3, <1>5 DEF SaveFails, SettingsOK, TouchSaved
<1>6. CASE SaveFormats(p)
  <2>1. /\ saving[p] = "open" /\ saving' = [saving EXCEPT ![p] = "text"]
        /\ text' = [text EXCEPT ![p] = setup] /\ unsaved' = unsaved
    BY <1>6 DEF SaveFormats
  <2>2. /\ saving'[p] = "text" /\ \A q \in Savers \ {p} : saving'[q] = saving[q]
        /\ text'[p] = setup /\ \A q \in Savers \ {p} : text'[q] = text[q]
    BY <1>1, <2>1
  <2>3. thread' = thread
    BY <2>1 DEF SaveFails, SaveCloses
  <2>4. p \in Saving'
    BY <1>1, <2>2
  <2>5. SettingsOK'
    BY <1>1, <1>2, <1>3, <2>1, <2>2, <2>3 DEF SettingsOK
  <2> QED
    BY <2>4, <2>5 DEF TouchSaved
<1>7. CASE SaveCloses(p)
  <2>1. /\ saving[p] = "text" /\ saving' = [saving EXCEPT ![p] = "no"]
        /\ text' = [text EXCEPT ![p] = Empty] /\ file' \in {text[p], Empty}
    BY <1>7 DEF SaveCloses
  <2>0. unsaved' <=> unsaved \/ file' = Empty
    BY <1>7, Zenon DEF SaveCloses
  <2>2. /\ saving'[p] = "no" /\ \A q \in Savers \ {p} : saving'[q] = saving[q]
    BY <1>1, <2>1
  <2>3. ASSUME ~unsaved'
        PROVE  /\ ~unsaved /\ file' = text[p]
               /\ \A q \in Savers \ {p} : saving'[q] = "no"
    <3>1. ~unsaved /\ file' = text[p]
      BY <2>0, <2>1, <2>3
    <3>2. \E q \in Savers : saving[q] = "no"
      BY <1>2, <3>1 DEF SettingsOK
    <3> QED
      BY <1>1, <2>1, <2>2, <3>1, <3>2
  <2>4. SettingsOK'
    BY <1>1, <1>3, <2>1, <2>2, <2>3 DEF SettingsOK
  <2>5. ASSUME ~unsaved, thread' \notin {"max", "save"} PROVE text[p] = touch
    <3>1. CASE p = "cali"
      BY <1>2, <2>1, <2>5, <3>1 DEF SettingsOK
    <3>2. CASE p = "ui"
      BY <1>2, <2>1, <2>5, <3>2 DEF SettingsOK
    <3> QED
      BY <1>1, <3>1, <3>2
  <2>6. TouchSaved'
    BY <2>1, <2>3, <2>5 DEF TouchSaved
  <2> QED
    BY <2>4, <2>6
<1> QED
  BY <1>4, <1>5, <1>6, <1>7 DEF SaveStep

LEMMA save_handlerCInv ==
  ASSUME CInv, save_handler
  PROVE  CInv'
<1>1. /\ ~fault /\ SaveStep("ui")
      /\ UNCHANGED <<ptr, step, data, tid, tapped, widened, calibrating, touch, thread,
                     queue, setup, fault>>
  BY DEF save_handler, sessionVars, SaveStep
<1>2. "ui" \in Savers /\ "cali" \in Savers /\ Savers = {"ui", "cali"}
  BY DEF Savers
<1>3. Files' /\ unsaved' \in BOOLEAN /\ SettingsOK' /\ TouchSaved'
  BY <1>1, <1>2, SaveTypes, SaveSettings
<1>4. /\ saving \in [Savers -> {"no", "open", "text"}] /\ SaversOK /\ SessionOK
      /\ ui \in {"idle", "armed", "saving"}
  BY <1>1 DEF CInv, TypeOK, Files, Types
<1>5. SaversOK' /\ ui' \in {"idle", "saving"}
  <2>1. CASE SaveOpens("ui") /\ ui' = "saving"
    BY <1>1, <1>2, <1>4, <2>1 DEF SaveOpens, SaversOK
  <2>2. CASE SaveFails("ui") /\ ui = "idle" /\ UNCHANGED ui
    BY <1>1, <1>2, <1>4, <2>2 DEF SaveFails, SaversOK
  <2>3. CASE SaveFormats("ui") /\ UNCHANGED ui
    BY <1>1, <1>2, <1>4, <2>3 DEF SaveFormats, SaversOK
  <2>4. CASE SaveCloses("ui") /\ ui' = "idle"
    BY <1>1, <1>2, <1>4, <2>4 DEF SaveCloses, SaversOK
  <2> QED
    BY <2>1, <2>2, <2>3, <2>4 DEF save_handler
<1>6. Flags' /\ Types' /\ QueueOK'
  BY <1>1, <1>3, <1>5 DEF CInv, TypeOK, Flags, Types, QueueOK
<1>7. Closes /\ RangeOK /\ HandedOver
  BY <1>1 DEF CInv
<1>8. SessionOK' /\ Faulted' /\ HandedOver'
  BY <1>1, <1>4, <1>5, <1>7 DEF SessionOK, Attached, Faulted, HandedOver
<1>9. Closes'
  BY <1>1, <1>7 DEF Closes, Registered, After, Told
<1>10. RangeOK'
  BY <1>1, <1>7, SameRange
<1> QED
  BY <1>3, <1>5, <1>6, <1>8, <1>9, <1>10 DEF CInv, TypeOK

-----------------------------------------------------------------------------
(* The thread.                                                              *)

LEMMA SaveCInv ==
  ASSUME CInv, ~fault, UNCHANGED <<ui, fault>>, Save
  PROVE  CInv'
<1>1. /\ SaveStep("cali")
      /\ UNCHANGED <<ptr, step, data, tid, tapped, widened, calibrating, touch, queue, setup>>
  BY DEF Save, sessionVars, SaveStep
<1>2. "ui" \in Savers /\ "cali" \in Savers /\ Savers = {"ui", "cali"}
  BY DEF Savers
<1>3. /\ saving \in [Savers -> {"no", "open", "text"}] /\ SaversOK /\ SessionOK
      /\ Closes /\ RangeOK /\ HandedOver
  BY DEF CInv, TypeOK, Files
<1>4. thread = "save"
  <2>1. SaveFormats("cali") \/ SaveCloses("cali") => saving["cali"] # "no"
    BY DEF SaveFormats, SaveCloses
  <2> QED
    BY <1>3, <2>1 DEF Save, SaversOK
<1>5. thread' = IF SaveFails("cali") \/ SaveCloses("cali") THEN "normal" ELSE thread
  <2>1. CASE SaveOpens("cali") /\ UNCHANGED thread
    <3>1. saving["cali"] = "no" /\ saving' = [saving EXCEPT !["cali"] = "open"]
      BY <2>1 DEF SaveOpens
    <3>2. ~SaveFails("cali") /\ ~SaveCloses("cali")
      <4>1. saving' # saving
        BY <1>2, <1>3, <3>1
      <4> QED
        BY <3>1, <4>1 DEF SaveFails, SaveCloses
    <3> QED
      BY <2>1, <3>2
  <2>2. CASE SaveFails("cali") /\ thread' = "normal"
    BY <2>2
  <2>3. CASE SaveFormats("cali") /\ UNCHANGED thread
    <3>1. ~SaveFails("cali") /\ ~SaveCloses("cali")
      BY <2>3 DEF SaveFormats, SaveFails, SaveCloses
    <3> QED
      BY <2>3, <3>1
  <2>4. CASE SaveCloses("cali") /\ thread' = "normal"
    BY <2>4
  <2> QED
    BY <2>1, <2>2, <2>3, <2>4 DEF Save
<1>6. Files' /\ unsaved' \in BOOLEAN
  BY <1>1, <1>2, SaveTypes
<1>7. SettingsOK' /\ TouchSaved'
  BY <1>1, <1>2, <1>4, <1>5, SaveSettings
<1>8. thread' \in {"save", "normal"}
  BY <1>4, <1>5
<1>9. SaversOK'
  <2>1. CASE SaveOpens("cali") /\ thread' = "save"
    BY <1>2, <1>3, <2>1 DEF SaveOpens, SaversOK
  <2>2. CASE SaveFails("cali")
    BY <1>2, <1>3, <2>2 DEF SaveFails, SaversOK
  <2>3. CASE SaveFormats("cali") /\ thread' = "save"
    BY <1>2, <1>3, <2>3 DEF SaveFormats, SaversOK
  <2>4. CASE SaveCloses("cali")
    BY <1>2, <1>3, <2>4 DEF SaveCloses, SaversOK
  <2> QED
    BY <1>4, <2>1, <2>2, <2>3, <2>4 DEF Save
<1>10. Flags' /\ Types' /\ QueueOK'
  BY <1>1, <1>6, <1>8 DEF CInv, TypeOK, Flags, Types, QueueOK
<1>11. SessionOK' /\ Faulted' /\ HandedOver'
  BY <1>1, <1>3, <1>4, <1>8 DEF SessionOK, Attached, Faulted, HandedOver
<1>12. Closes'
  BY <1>1, <1>3, <1>4, <1>8 DEF Closes, Registered, After, Told
<1>13. RangeOK'
  BY <1>1, <1>3, SameRange
<1> QED
  BY <1>6, <1>7, <1>9, <1>10, <1>11, <1>12, <1>13 DEF CInv, TypeOK

(* A step of the thread that saves nothing and hands nothing over.          *)
LEMMA MoveCInv ==
  ASSUME CInv, ~fault, UNCHANGED <<ui, fault, step, data, tapped, widened, touch, setup,
                                   saving, text, file, disk, unsaved>>,
         Flags', Types', QueueOK', SessionOK', Closes', HandedOver',
         {thread, thread'} \cap {"max", "save"} = {}
  PROVE  CInv'
<1>1. Files' /\ SaversOK' /\ SettingsOK' /\ TouchSaved'
  BY SameSaves DEF CInv, TypeOK
<1>2. RangeOK'
  BY SameRange DEF CInv
<1>3. Faulted'
  BY DEF Faulted
<1> QED
  BY <1>1, <1>2, <1>3 DEF CInv, TypeOK

LEMMA EnterCInv ==
  ASSUME CInv, ~fault, UNCHANGED <<ui, fault>>, Enter
  PROVE  CInv'
<1> USE DEF savedVars
<1>1. /\ thread = "start" /\ thread' \in {"registered", "dead"}
      /\ thread' = "registered" => tid' = tid
      /\ tid' \in {tid, "dead"}
      /\ UNCHANGED <<ptr, step, data, tapped, widened, calibrating, touch, queue, setup,
                     saving, text, file, disk, unsaved>>
  BY DEF Enter
<1>2. SessionOK /\ Closes /\ HandedOver
  BY DEF CInv
<1>3. Flags' /\ Types' /\ QueueOK'
  BY <1>1 DEF CInv, TypeOK, Flags, Types, QueueOK
<1>4. SessionOK'
  BY <1>1, <1>2 DEF SessionOK, Attached
<1>5. Closes' /\ HandedOver'
  BY <1>1, <1>2 DEF Closes, Registered, After, Told, HandedOver
<1> QED
  BY <1>1, <1>3, <1>4, <1>5, MoveCInv

LEMMA OpenWindowCInv ==
  ASSUME CInv, ~fault, UNCHANGED <<ui, fault>>, OpenWindow
  PROVE  CInv'
<1> USE DEF savedVars, sessionVars
<1>1. /\ thread = "registered" /\ thread' = "loop"
      /\ UNCHANGED <<ptr, step, data, tid, tapped, widened, calibrating, touch, queue,
                     setup, saving, text, file, disk, unsaved>>
  BY DEF OpenWindow
<1>2. SessionOK /\ Closes /\ HandedOver
  BY DEF CInv
<1>3. Flags' /\ Types' /\ QueueOK'
  BY <1>1 DEF CInv, TypeOK, Flags, Types, QueueOK
<1>4. SessionOK'
  BY <1>1, <1>2 DEF SessionOK, Attached
<1>5. Closes' /\ HandedOver'
  BY <1>1, <1>2 DEF Closes, Registered, After, Told, HandedOver
<1> QED
  BY <1>1, <1>3, <1>4, <1>5, MoveCInv

LEMMA NoWindowCInv ==
  ASSUME CInv, UNCHANGED ui, NoWindow
  PROVE  CInv'
<1> USE DEF savedVars, sessionVars
<1>1. /\ thread = "registered" /\ fault'
      /\ UNCHANGED <<ptr, step, data, tid, tapped, widened, calibrating, touch, thread,
                     queue, setup, saving, text, file, disk, unsaved>>
  BY DEF NoWindow
<1>2. Flags'
  <2>1. fault' = TRUE
    BY DEF NoWindow
  <2> QED
    BY <1>1, <2>1 DEF CInv, TypeOK, Flags
<1>3. Types' /\ QueueOK'
  BY <1>1 DEF CInv, TypeOK, Types, QueueOK
<1>4. Files' /\ SaversOK' /\ SettingsOK' /\ TouchSaved'
  BY <1>1, SameSaves DEF CInv, TypeOK
<1>5. Faulted'
  BY <1>1 DEF Faulted
<1> QED
  BY <1>1, <1>2, <1>3, <1>4, <1>5 DEF CInv, TypeOK

LEMMA HandleMessageCInv ==
  ASSUME CInv, ~fault, UNCHANGED <<ui, fault>>, HandleMessage
  PROVE  CInv'
<1> USE DEF savedVars, sessionVars
<1>1. /\ thread = "loop" /\ queue # <<>> /\ queue' = Tail(queue)
      /\ UNCHANGED <<ptr, step, data, tid, tapped, widened, calibrating, touch, setup,
                     saving, text, file, disk, unsaved>>
  BY DEF HandleMessage
<1>2. (thread' = "closing" /\ Head(queue) = TRUE) \/ thread' = "loop"
  <2>1. thread' = IF Head(queue) THEN "closing" ELSE "loop"
    BY DEF HandleMessage
  <2>2. Head(queue) \in BOOLEAN
    BY <1>1 DEF CInv, TypeOK, QueueOK
  <2> QED
    BY <2>1, <2>2
<1>3. SessionOK /\ Closes /\ HandedOver
  BY DEF CInv
<1>4. /\ queue \in Seq(BOOLEAN) /\ Len(queue) <= Mq /\ Len(queue) \in Nat \ {0}
      /\ Head(queue) = queue[1]
      /\ queue' \in Seq(BOOLEAN) /\ Len(queue') = Len(queue) - 1
      /\ \A i \in 1..Len(queue') : queue'[i] = queue[i + 1]
  BY <1>1 DEF CInv, TypeOK, QueueOK
<1>5. QueueOK'
  BY <1>4, CalibrationAssumption DEF QueueOK
<1>6. Told' => Told
  <2>1. ASSUME NEW i \in 1..Len(queue'), queue'[i] = TRUE PROVE Told
    <3>1. i + 1 \in 1..Len(queue) /\ queue[i + 1] = TRUE
      BY <1>4, <2>1
    <3> QED
      BY <3>1 DEF Told
  <2> QED
    BY <2>1 DEF Told
<1>7. thread' = "closing" => Told
  <2>1. 1 \in 1..Len(queue)
    BY <1>4
  <2>2. ASSUME thread' = "closing" PROVE queue[1] = TRUE
    <3>1. Head(queue) = TRUE
      BY <1>2, <2>2
    <3> QED
      BY <1>4, <3>1, Zenon
  <2> QED
    BY <2>1, <2>2, Zenon DEF Told
<1>8. Flags' /\ Types'
  BY <1>1, <1>2 DEF CInv, TypeOK, Flags, Types
<1>9. SessionOK'
  BY <1>1, <1>2, <1>3 DEF SessionOK, Attached
<1>10. Closes' /\ HandedOver'
  BY <1>1, <1>2, <1>3, <1>6, <1>7 DEF Closes, Registered, After, HandedOver
<1> QED
  BY <1>1, <1>2, <1>5, <1>8, <1>9, <1>10, MoveCInv

LEMMA DeregisterCInv ==
  ASSUME CInv, ~fault, UNCHANGED <<ui, fault>>, Deregister
  PROVE  CInv'
<1> USE DEF savedVars, sessionVars
<1>1. /\ thread = "closing" /\ thread' = "min" /\ queue' = <<>>
      /\ UNCHANGED <<ptr, step, data, tid, tapped, widened, calibrating, touch, setup,
                     saving, text, file, disk, unsaved>>
  BY DEF Deregister
<1>2. SessionOK /\ Closes /\ HandedOver
  BY DEF CInv
<1>3. Flags' /\ Types'
  BY <1>1 DEF CInv, TypeOK, Flags, Types
<1>4. QueueOK' /\ ~Told'
  BY <1>1, CalibrationAssumption DEF QueueOK, Told
<1>5. SessionOK'
  BY <1>1, <1>2 DEF SessionOK, Attached
<1>6. Closes' /\ HandedOver'
  BY <1>1, <1>2, <1>4 DEF Closes, Registered, After, HandedOver
<1> QED
  BY <1>1, <1>3, <1>4, <1>5, <1>6, MoveCInv

LEMMA TakeMinCInv ==
  ASSUME CInv, ~fault, UNCHANGED <<ui, fault>>, TakeMin
  PROVE  CInv'
<1> USE DEF savedVars, sessionVars
<1>1. /\ thread = "min" /\ thread' = "max" /\ touch' = <<data[1], touch[2]>>
      /\ UNCHANGED <<ptr, step, data, tid, tapped, widened, calibrating, queue, setup,
                     saving, text, file, disk, unsaved>>
  BY DEF TakeMin
<1>2. /\ SessionOK /\ Closes /\ RangeOK /\ HandedOver /\ SaversOK /\ SettingsOK
      /\ touch \in Ranges /\ data \in Ranges
  BY DEF CInv, TypeOK, Types
<1>3. touch' \in Ranges /\ touch'[1] = data[1]
  BY <1>1, <1>2 DEF Ranges
<1>4. TypeOK'
  BY <1>1, <1>3 DEF CInv, TypeOK, Flags, Types, QueueOK, Files
<1>5. SaversOK' /\ SessionOK' /\ Faulted'
  BY <1>1, <1>2 DEF SaversOK, SessionOK, Attached, Faulted
<1>6. Closes' /\ HandedOver'
  BY <1>1, <1>2, <1>3 DEF Closes, Registered, After, Told, HandedOver
<1>7. RangeOK'
  BY <1>1, <1>2, SameRange
<1>8. SettingsOK'
  BY <1>1, <1>2 DEF SettingsOK, SaversOK
<1>9. TouchSaved'
  BY <1>1 DEF TouchSaved
<1> QED
  BY <1>4, <1>5, <1>6, <1>7, <1>8, <1>9 DEF CInv

LEMMA TakeMaxCInv ==
  ASSUME CInv, ~fault, UNCHANGED <<ui, fault>>, TakeMax
  PROVE  CInv'
<1> USE DEF savedVars, sessionVars
<1>1. /\ thread = "max" /\ thread' = "save" /\ touch' = <<touch[1], data[2]>>
      /\ setup' = touch'
      /\ UNCHANGED <<ptr, step, data, tid, tapped, widened, calibrating, queue,
                     saving, text, file, disk, unsaved>>
  BY DEF TakeMax
<1>2. /\ SessionOK /\ Closes /\ RangeOK /\ HandedOver /\ SaversOK /\ SettingsOK
      /\ touch \in Ranges /\ data \in Ranges
  BY DEF CInv, TypeOK, Types
<1>3. touch' \in Ranges /\ (touch[1] = data[1] => touch' = data)
  BY <1>1, <1>2 DEF Ranges
<1>4. TypeOK'
  BY <1>1, <1>3 DEF CInv, TypeOK, Flags, Types, QueueOK, Files
<1>5. SaversOK' /\ SessionOK' /\ Faulted'
  BY <1>1, <1>2 DEF SaversOK, SessionOK, Attached, Faulted
<1>6. Closes' /\ HandedOver'
  BY <1>1, <1>2, <1>3 DEF Closes, Registered, After, Told, HandedOver
<1>7. RangeOK'
  BY <1>1, <1>2, SameRange
<1>8. SettingsOK'
  BY <1>1, <1>2 DEF SettingsOK, SaversOK
<1>9. TouchSaved'
  BY <1>1 DEF TouchSaved
<1> QED
  BY <1>4, <1>5, <1>6, <1>7, <1>8, <1>9 DEF CInv

LEMMA NormalCInv ==
  ASSUME CInv, ~fault, UNCHANGED <<ui, fault>>, Normal
  PROVE  CInv'
<1> USE DEF savedVars, sessionVars
<1>1. /\ thread = "normal" /\ thread' = "free" /\ calibrating' = FALSE
      /\ UNCHANGED <<ptr, step, data, tid, tapped, widened, touch, queue, setup,
                     saving, text, file, disk, unsaved>>
  BY DEF Normal
<1>2. SessionOK /\ Closes /\ HandedOver
  BY DEF CInv
<1>3. Flags' /\ Types' /\ QueueOK'
  BY <1>1 DEF CInv, TypeOK, Flags, Types, QueueOK
<1>4. SessionOK'
  BY <1>1, <1>2 DEF SessionOK, Attached
<1>5. Closes' /\ HandedOver'
  BY <1>1, <1>2 DEF Closes, Registered, After, Told, HandedOver
<1> QED
  BY <1>1, <1>3, <1>4, <1>5, MoveCInv

LEMMA FreeCInv ==
  ASSUME CInv, ~fault, UNCHANGED <<ui, fault>>, Free
  PROVE  CInv'
<1> USE DEF savedVars
<1>1. /\ thread = "free" /\ thread' = "end" /\ ptr' = "freed"
      /\ UNCHANGED <<step, data, tid, tapped, widened, calibrating, touch, queue, setup,
                     saving, text, file, disk, unsaved>>
  BY DEF Free
<1>2. SessionOK /\ Closes /\ HandedOver
  BY DEF CInv
<1>3. Flags' /\ Types' /\ QueueOK'
  BY <1>1 DEF CInv, TypeOK, Flags, Types, QueueOK
<1>4. SessionOK'
  BY <1>1, <1>2 DEF SessionOK, Attached
<1>5. Closes' /\ HandedOver'
  BY <1>1, <1>2 DEF Closes, Registered, After, Told, HandedOver
<1> QED
  BY <1>1, <1>3, <1>4, <1>5, MoveCInv

LEMMA EndCInv ==
  ASSUME CInv, ~fault, UNCHANGED <<ui, fault>>, End
  PROVE  CInv'
<1> USE DEF savedVars
<1>1. /\ thread = "end" /\ thread' = "none" /\ ptr' = "null" /\ tid' = "unset"
      /\ step' = 0 /\ data' = <<0, 0>> /\ tapped' = <<>> /\ widened' = 0
      /\ UNCHANGED <<calibrating, touch, queue, setup, saving, text, file, disk, unsaved>>
  BY DEF End
<1>2. SessionOK /\ Closes /\ HandedOver
  BY DEF CInv
<1>3. Flags' /\ Types' /\ QueueOK'
  BY <1>1, CalibrationAssumption DEF CInv, TypeOK, Flags, Types, QueueOK, Ranges
<1>4. SessionOK' /\ Faulted'
  BY <1>1, <1>2 DEF SessionOK, Attached, Faulted
<1>5. Closes' /\ HandedOver'
  <2>1. queue' = <<>> /\ ~Told'
    BY <1>1, <1>2 DEF Closes, Registered, Told
  <2> QED
    BY <1>1, <2>1 DEF Closes, Registered, After, HandedOver
<1>6. Files' /\ SaversOK' /\ SettingsOK' /\ TouchSaved'
  BY <1>1, SameSaves DEF CInv, TypeOK
<1>7. RangeOK'
  BY <1>1 DEF RangeOK
<1> QED
  BY <1>3, <1>4, <1>5, <1>6, <1>7 DEF CInv, TypeOK

-----------------------------------------------------------------------------

LEMMA InitCInv == Init => CInv
<1> SUFFICES ASSUME Init PROVE CInv
  OBVIOUS
<1>1. TypeOK
  <2>1. <<MinX, MaxX>> \in Ranges
    BY CalibrationAssumption DEF Ranges
  <2>2. Flags
    BY Zenon DEF Init, Flags
  <2>3. Types
    BY <2>1, CalibrationAssumption DEF Init, Types, Ranges
  <2>4. QueueOK
    BY CalibrationAssumption DEF Init, QueueOK
  <2>5. Files
    BY <2>1, SMT DEF Init, Files
  <2> QED
    BY <2>2, <2>3, <2>4, <2>5 DEF TypeOK
<1>2. SaversOK /\ SettingsOK /\ TouchSaved
  BY DEF Init, SaversOK, SettingsOK, TouchSaved, Savers
<1>3. SessionOK /\ Faulted /\ Closes /\ HandedOver /\ RangeOK
  BY DEF Init, SessionOK, Attached, Faulted, Closes, Registered, Told, After,
         HandedOver, RangeOK
<1> QED
  BY <1>1, <1>2, <1>3 DEF CInv

LEMMA PowerFailsCInv ==
  ASSUME CInv, PowerFails
  PROVE  CInv'
<1>1. /\ disk' = Empty /\ touch' = setup'
      /\ ptr' = "null" /\ step' = 0 /\ data' = <<0, 0>> /\ tid' = "unset"
      /\ calibrating' = FALSE /\ thread' = "none" /\ queue' = <<>> /\ ui' = "idle"
      /\ saving' = [p \in Savers |-> "no"] /\ text' = [p \in Savers |-> Empty]
      /\ tapped' = <<>> /\ widened' = 0 /\ fault' = FALSE
  BY DEF PowerFails
<1>2. setup' \in Ranges /\ file' \in {setup', Empty}
  <2>1. <<MinX, MaxX>> \in Ranges
    BY CalibrationAssumption DEF Ranges
  <2>2. PICK found \in IF Saving # {} THEN {disk, Empty} \cup {text[p] : p \in Savers} ELSE {file} :
          IF found = Empty
          THEN setup' = <<MinX, MaxX>> /\ file' \in {setup', Empty}
          ELSE setup' = found /\ file' = found
    BY DEF PowerFails
  <2>3. found \in Ranges \cup {Empty}
    BY <2>2 DEF CInv, TypeOK, Files
  <2> QED
    BY <2>1, <2>2, <2>3
<1>6. unsaved' <=> file' = Empty
  BY Zenon DEF PowerFails
<1>7. unsaved' \in BOOLEAN
  BY Zenon DEF PowerFails
<1>3. TypeOK'
  <2>1. Flags'
    BY <1>1, <1>7, Zenon DEF Flags
  <2>2. Types'
    BY <1>1, <1>2, CalibrationAssumption DEF Types, Ranges
  <2>3. QueueOK'
    BY <1>1, <1>2, CalibrationAssumption DEF QueueOK
  <2>4. Files'
    BY <1>1, <1>2, SMT DEF Files
  <2> QED
    BY <2>1, <2>2, <2>3, <2>4 DEF TypeOK
<1>4. SaversOK' /\ SettingsOK' /\ TouchSaved'
  BY <1>1, <1>2, <1>6 DEF SaversOK, SettingsOK, TouchSaved, Savers
<1>5. SessionOK' /\ Faulted' /\ Closes' /\ HandedOver' /\ RangeOK'
  BY <1>1 DEF SessionOK, Attached, Faulted, Closes, Registered, Told, After, HandedOver, RangeOK
<1> QED
  BY <1>3, <1>4, <1>5 DEF CInv

LEMMA NextCInv ==
  ASSUME CInv, [Next]_vars
  PROVE  CInv'
<1>1. CASE calibration_entry
  <2>1. ~fault /\ UNCHANGED ui
    BY <1>1 DEF calibration_entry
  <2>2. CASE NoWindow
    BY <2>1, <2>2, NoWindowCInv
  <2>3. CASE UNCHANGED fault
    BY <1>1, <2>1, <2>2, <2>3, EnterCInv, OpenWindowCInv, HandleMessageCInv,
       DeregisterCInv, TakeMinCInv, TakeMaxCInv, SaveCInv, NormalCInv, FreeCInv, EndCInv
       DEF calibration_entry
  <2> QED
    BY <1>1, <2>2, <2>3 DEF calibration_entry
<1>2. CASE UNCHANGED vars
  <2> USE DEF vars
  <2>1. TypeOK'
    BY <1>2 DEF CInv, TypeOK, Flags, Types, QueueOK, Files
  <2>2. SaversOK' /\ SettingsOK' /\ TouchSaved' /\ Faulted'
    BY <1>2 DEF CInv, SaversOK, SettingsOK, TouchSaved, Saving, Faulted, Attached
  <2>3. ~fault => SessionOK' /\ Closes' /\ HandedOver'
    BY <1>2 DEF CInv, SessionOK, Attached, Closes, Registered, Told, After, HandedOver
  <2>4. ~fault => RangeOK'
    BY <1>2, SameRange DEF CInv
  <2> QED
    BY <1>2, <2>1, <2>2, <2>3, <2>4 DEF CInv
<1> QED
  BY <1>1, <1>2, InitCalibrates, ThreadStartsCInv, PenUpCInv, save_handlerCInv,
     OthersPostCInv, PowerFailsCInv DEF Next

LEMMA Invariance == Spec => []CInv
<1>1. CInv /\ [Next]_vars => CInv'
  BY NextCInv
<1> QED
  BY InitCInv, <1>1, PTL DEF Spec

-----------------------------------------------------------------------------
(* The arithmetic of the borders.                                           *)

(* What the division before the multiplication costs.                       *)
LEMMA Rounding ==
  ASSUME NEW d \in Nat
  PROVE  /\ (d \div Across) * Inset \in Nat /\ (d * Inset) \div Across \in Nat
         /\ (d \div Across) * Inset <= (d * Inset) \div Across
         /\ (d * Inset) \div Across < (d \div Across) * Inset + Inset
<1>1. Across \in Nat \ {0} /\ Inset \in Nat \ {0}
  BY CalibrationAssumption
<1> DEFINE q == d \div Across
           b == (d * Inset) \div Across
<1>2. q \in Nat /\ d - Across * q \in 0..Across-1
  BY <1>1
<1>3. d * Inset \in Nat
  BY <1>1
<1>4. b \in Nat /\ d * Inset - Across * b \in 0..Across-1
  BY <1>1, <1>3
<1> HIDE DEF q, b
<1> DEFINE s == d - Across * q
           m == q * Inset
<1>5. s \in 0..Across-1 /\ m \in Nat
  BY <1>1, <1>2
<1>6. d * Inset - Across * m = s * Inset
  BY <1>1, <1>2
<1>7. s * Inset \in Nat /\ s * Inset < Across * Inset
  BY <1>1, <1>5
<1>8. Across * (b - m) = Across * b - Across * m
  BY <1>1, <1>4, <1>5
<1> HIDE DEF s, m
<1>9. ASSUME b < m PROVE FALSE
  <2>1. Across * (b - m) <= -Across
    BY <1>1, <1>4, <1>5, <1>9
  <2> QED
    BY <1>1, <1>3, <1>4, <1>5, <1>6, <1>7, <1>8, <2>1
<1>10. ASSUME b >= m + Inset PROVE FALSE
  <2>1. Across * (b - m) >= Across * Inset
    BY <1>1, <1>4, <1>5, <1>10
  <2> QED
    BY <1>1, <1>3, <1>4, <1>5, <1>6, <1>7, <1>8, <2>1
<1>11. m <= b /\ b < m + Inset
  BY <1>1, <1>4, <1>5, <1>9, <1>10
<1> QED
  BY <1>4, <1>5, <1>11 DEF q, b, m

(* Widening by m on both sides, without leaving the words, goes in the      *)
(* direction of the axis.                                                   *)
LEMMA Widened ==
  ASSUME NEW r \in Ranges, NEW b \in Nat,
         b = (Diff(r) * Inset) \div Across,
         \A i \in 1..2 : r[i] - b >= 0 /\ r[i] + b < Word
  PROVE  LET t == Widen(r, Margin(r)) IN
           /\ t[1] + t[2] = r[1] + r[2]
           /\ r[1] < r[2] <=> t[1] < t[2]
           /\ Diff(t) - Diff(r) <= 2 * b /\ 2 * b - (Diff(t) - Diff(r)) < 2 * Inset
<1>1. /\ r[1] \in 0..Word-1 /\ r[2] \in 0..Word-1 /\ Word \in Nat \ {0}
      /\ Inset \in Nat \ {0} /\ Across \in Nat \ {0}
  BY CalibrationAssumption DEF Ranges
<1>2. Diff(r) \in Nat
  BY <1>1 DEF Diff
<1> DEFINE m == (Diff(r) \div Across) * Inset
<1>3. m \in Nat /\ m <= b /\ b < m + Inset
  BY <1>2, Rounding
<1> HIDE DEF m
<1>4. r[1] - b >= 0 /\ r[2] - b >= 0 /\ r[1] + b < Word /\ r[2] + b < Word
  OBVIOUS
<1>5. \A n \in 0..Word-1 : n % Word = n
  BY <1>1
<1>6. Margin(r) = m
  <2>1. m \in 0..Word-1
    BY <1>1, <1>3, <1>4
  <2> QED
    BY <1>5, <2>1 DEF Margin, m
<1>7. /\ r[1] - m \in 0..Word-1 /\ r[2] - m \in 0..Word-1
      /\ r[1] + m \in 0..Word-1 /\ r[2] + m \in 0..Word-1
  BY <1>1, <1>3, <1>4
<1>8. /\ (r[1] - m) % Word = r[1] - m /\ (r[2] - m) % Word = r[2] - m
      /\ (r[1] + m) % Word = r[1] + m /\ (r[2] + m) % Word = r[2] + m
  BY <1>5, <1>7
<1>9. CASE r[2] > r[1]
  <2>1. Widen(r, Margin(r)) = <<r[1] - m, r[2] + m>>
    BY <1>6, <1>8, <1>9 DEF Widen
  <2>2. Diff(r) = r[2] - r[1] /\ Diff(Widen(r, Margin(r))) = (r[2] + m) - (r[1] - m)
    BY <1>1, <1>3, <1>9, <2>1 DEF Diff
  <2> QED
    BY <1>1, <1>3, <1>9, <2>1, <2>2
<1>10. CASE ~(r[2] > r[1])
  <2>1. Widen(r, Margin(r)) = <<r[1] + m, r[2] - m>>
    BY <1>6, <1>8, <1>10 DEF Widen
  <2>2. Diff(r) = r[1] - r[2] /\ Diff(Widen(r, Margin(r))) = (r[1] + m) - (r[2] - m)
    BY <1>1, <1>3, <1>10, <2>1 DEF Diff
  <2> QED
    BY <1>1, <1>3, <1>10, <2>1, <2>2
<1> QED
  BY <1>9, <1>10

LEMMA Elements ==
  ASSUME NEW s \in Seq(Coords)
  PROVE  \A i \in 1..Len(s) : s[i] \in Coords
  OBVIOUS

LEMMA CornersInRanges ==
  ASSUME TypeOK, Len(tapped) = 4
  PROVE  Corners \in Ranges /\ tapped # <<>>
<1>1. tapped \in Seq(Coords)
  BY DEF TypeOK, Types
<1>2. Coords \subseteq 0..Word-1
  BY CalibrationAssumption
<1>3. /\ tapped[1] \in Coords /\ tapped[2] \in Coords
      /\ tapped[3] \in Coords /\ tapped[4] \in Coords
  <2>1. \A i \in 1..Len(tapped) : tapped[i] \in Coords
    BY <1>1, Elements
  <2>2. 1 \in 1..Len(tapped) /\ 2 \in 1..Len(tapped) /\ 3 \in 1..Len(tapped) /\ 4 \in 1..Len(tapped)
    OBVIOUS
  <2> QED
    BY <2>1, <2>2
<1>4. Mean(1, 4) \in 0..Word-1 /\ Mean(2, 3) \in 0..Word-1
  <2>1. /\ tapped[1] \in 0..Word-1 /\ tapped[2] \in 0..Word-1
        /\ tapped[3] \in 0..Word-1 /\ tapped[4] \in 0..Word-1
    BY <1>2, <1>3
  <2> QED
    BY <2>1, MeanInWords DEF Mean
<1>5. tapped # <<>>
  BY <1>1
<1> QED
  BY <1>4, <1>5 DEF Corners, Ranges

-----------------------------------------------------------------------------

(* Every range that is measured, widened, saved or found after a power      *)
(* failure is one of words, and the sequence of corners has the length of   *)
(* the step.                                                                *)
THEOREM TypeCorrect == Spec => []TypeOK
<1>1. CInv => TypeOK
  BY DEF CInv
<1> QED
  BY <1>1, Invariance, PTL

(* The interrupt calls back into a session that is there, and the thread    *)
(* keeps its session to the end (calibration.c:217, touch.c:158).           *)
THEOREM SessionsLive == Spec => []SessionAlive
<1>1. CInv => SessionAlive
  BY DEF CInv, SessionOK, SessionAlive
<1> QED
  BY <1>1, Invariance, PTL

(* Whenever the power fails outside a save, the start finds the range in    *)
(* use, if the last save did not fail in any of its ways and was alone      *)
(* (setup.c:159, setup.c:202, touch.c:337).                                 *)
THEOREM RangeSaved == Spec => []TouchSaved
<1>1. CInv => TouchSaved
  BY DEF CInv
<1> QED
  BY <1>1, Invariance, PTL

(* For any screen and any panel whose borders are in the range of the       *)
(* words, the range handed over reaches the borders, in the direction of    *)
(* the axis (calibration.c:59).                                             *)
THEOREM RangeCalibrated == Spec => []Calibrated
<1>1. ASSUME CInv, Len(tapped) = 4, widened = 1,
             thread \in {"save", "normal", "free", "end"},
             NEW r, r = Corners, NEW b, b = (Diff(r) * Inset) \div Across,
             \A i \in 1..2 : r[i] - b >= 0 /\ r[i] + b < Word
      PROVE  /\ touch[1] + touch[2] = r[1] + r[2]
             /\ r[1] < r[2] <=> touch[1] < touch[2]
             /\ Diff(touch) - Diff(r) <= 2 * b
             /\ 2 * b - (Diff(touch) - Diff(r)) < 2 * Inset
  <2>1. ~fault
    <3>1. tapped # <<>>
      BY <1>1, CornersInRanges DEF CInv
    <3> QED
      BY <1>1, <3>1 DEF CInv, Faulted
  <2>2. touch = Widen(r, Margin(r))
    BY <1>1, <2>1 DEF CInv, RangeOK, HandedOver
  <2>3. r \in Ranges
    BY <1>1, CornersInRanges DEF CInv
  <2>4. Diff(r) \in Nat
    BY <2>3 DEF Diff, Ranges
  <2>5. b \in Nat
    BY <1>1, <2>4, Rounding
  <2> QED
    BY <1>1, <2>2, <2>3, <2>5, Widened
<1>2. CInv => Calibrated
  BY <1>1 DEF Calibrated, Corners, Mean
<1> QED
  BY <1>2, Invariance, PTL
=============================================================================
