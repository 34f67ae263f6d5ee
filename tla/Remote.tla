-------------------------------- MODULE Remote --------------------------------
(***************************************************************************)
(* The infrared remote control, remote.c.  The capture interrupt of a      *)
(* timer puts the intervals between the edges of a burst into a buffer and *)
(* counts them.  A thread (priority 30) compares the buffer with the codes *)
(* of the keys when there are as many as the first code has; another one   *)
(* (also 30) learns the codes.  Neither is protected from the interrupt,   *)
(* and any other thread of the player delays both.  Of the two each runs   *)
(* until it waits: that its time slice of two ticks ends before is left    *)
(* out.                                                                    *)
(*                                                                         *)
(* An interval is 0 (cleared), Gap (more than 20 ms), or one of a burst.   *)
(* Two that the tolerance of the comparison does not tell apart are one.   *)
(***************************************************************************)
EXTENDS Integers, Sequences, SequencesExt

CONSTANTS
  Buttons, \* of the remote control
  Code,    \* the intervals of a button's burst, 0 for the first
  K,       \* keys to learn
  MaxLen,  \* remote_code_len_max
  Room,    \* below this many a new burst is appended: MaxLen - 10
  Gap, None, Spoilt,
  Presses, \* how many buttons are pressed
  SemMax   \* no button is pressed while sem_IR has this value: bounds it

ASSUME RemoteAssumption ==
  /\ K \in Nat \ {0} /\ MaxLen \in Nat /\ MaxLen > 1 /\ Room \in 0..MaxLen /\ SemMax \in Nat \ {0}
  /\ Code \in [Buttons -> Seq(Nat)]
  /\ \A b \in Buttons : Len(Code[b]) \in 1..MaxLen /\ Code[b][1] = 0
  /\ Gap \in Nat \ {0}
  /\ \A b \in Buttons : \A i \in 2..Len(Code[b]) : Code[b][i] \notin {0, Gap}
  /\ None # Spoilt
  /\ \A b \in Buttons : {None, Spoilt} \cap ({b} \X (Nat \cup {"part", "whole"})) = {}

VARIABLES
  rem_mode,       \* "disable", "study", "enable"
  rx_count,
  rm_code,
  p_rem_code_src, \* the codes of the keys
  sem_IR,
  irq,            \* the capture interrupt is enabled
  quiet,          \* since the last capture: 0, 1 more than 100 ms, 2 than 200 ms
  presses,        \* buttons that are still to be pressed
  sent,           \* the button whose burst arrives, and how much of it has
  remote,         \* remote_thread_entry: where, the key and place it compares
  study,          \* the study thread: where, the key, its place in the buffer
  file,           \* the codes in remote.txt, by its entry in the directory
  heard,          \* history: buttons captured since a key was posted
  late,           \* history: what is or will be compared is not from one burst's start
  slot,           \* history: the first button captured for the key in study
  fault           \* memory beyond an array was used, or two study threads

remote_vars == <<rem_mode, rx_count, rm_code, p_rem_code_src, sem_IR, irq, quiet, presses,
                 sent, remote, study, file, heard, late, slot, fault>>

captureVars == <<rx_count, rm_code, sem_IR>>
historyVars == <<heard, late, slot>>

Keys == 0..K-1
Idle == [at |-> "take", k |-> 0, j |-> 0]
NoStudy == [at |-> "none", k |-> 0, j |-> 0]

Cleared(places) == [i \in 0..MaxLen-1 |-> IF i \in places THEN 0 ELSE rm_code[i]]

-----------------------------------------------------------------------------
(* The remote control and the time.                                         *)

Press(b) ==
  /\ sent = None /\ sem_IR < SemMax /\ presses > 0 /\ ~fault
  /\ sent' = <<b, 0>> /\ presses' = presses - 1
  /\ UNCHANGED <<rem_mode, captureVars, p_rem_code_src, irq, quiet, remote, study,
                 file, historyVars, fault>>

(* The rest of a burst does not arrive.                                     *)
Lose ==
  /\ sent # None /\ sent[2] > 0 /\ ~fault
  /\ sent' = None
  /\ slot' = IF slot = <<sent[1], "part">> THEN Spoilt ELSE slot
  /\ UNCHANGED <<rem_mode, captureVars, p_rem_code_src, irq, quiet, presses, remote, study,
                 file, heard, late, fault>>

Tick ==
  /\ sent = None /\ quiet < 2 /\ ~fault
  /\ quiet' = quiet + 1
  /\ UNCHANGED <<rem_mode, captureVars, p_rem_code_src, irq, presses, sent, remote, study,
                 file, historyVars, fault>>

-----------------------------------------------------------------------------
(* remote_isr.                                                              *)

(* Falling edges (CC3) are the first, third... of a burst; they begin a new *)
(* code when the last one is 100 ms old or the buffer has little room.      *)
Falling == sent[2] % 2 = 0
Begins == rem_mode = "enable" /\ Falling /\ (rx_count > Room \/ quiet > 0)

(* Fault: one capture later.                                                *)
CompleteLate(n) == ~Falling /\ n = Len(p_rem_code_src[0]) + 1

(* The thread is woken by a rising edge (CC4), by the length of key 0.      *)
Complete(n) == ~Falling /\ n = Len(p_rem_code_src[0])

Store(value) ==
  LET n == IF Begins THEN 0 ELSE rx_count
      stored == rem_mode # "disable" /\ n < MaxLen
  IN /\ rx_count' = IF stored THEN n + 1 ELSE n
     /\ rm_code' = IF stored THEN [rm_code EXCEPT ![n] = value] ELSE rm_code
     /\ sem_IR' = IF stored /\ rem_mode = "enable" /\ Complete(n + 1)
                  THEN sem_IR + 1 ELSE sem_IR

(* A burst that does not begin where the buffer does: the thread compared    *)
(* its beginning, or the capture was off then.                              *)
Middle == sent[2] > 0 /\ (rx_count = 0 \/ Begins)

(* The histories: what was heard in decoding, and in study.                 *)
Note(b) ==
  /\ heard' = heard \cup {b}
  /\ late' = \/ rem_mode # "enable" \/ sem_IR > 0 \/ remote.at \notin {"take", "post"}
             \/ Middle \/ (late /\ ~Begins)
  /\ slot' = CASE rem_mode = "study" /\ slot = None /\ sent[2] = 0 -> <<b, "part">>
               [] rem_mode = "study" /\ slot = None /\ sent[2] > 0 -> Spoilt
               [] rem_mode = "study" /\ slot = <<b, "part">> /\ sent[2] + 1 = Len(Code[b])
                    -> <<b, "whole">>
               [] OTHER -> slot

(* Of a repeated burst the first interval is the pause before it.           *)
remote_isr ==
  /\ sent # None /\ ~fault
  /\ LET b == sent[1]
     IN /\ sent' = IF sent[2] + 1 = Len(Code[b]) THEN None ELSE <<b, sent[2] + 1>>
        /\ IF irq
           THEN /\ Store(IF sent[2] = 0 THEN Gap ELSE Code[b][sent[2] + 1])
                /\ quiet' = 0
                /\ Note(b)
           ELSE UNCHANGED <<captureVars, quiet, historyVars>>
  /\ UNCHANGED <<rem_mode, p_rem_code_src, irq, presses, remote, study, file, fault>>

-----------------------------------------------------------------------------
(* remote_thread_entry and rem_encoder.                                     *)

Take ==
  /\ remote.at = "take" /\ sem_IR > 0
  /\ sem_IR' = sem_IR - 1
  /\ remote' = IF rem_mode = "enable" /\ rx_count > 0
               THEN [remote EXCEPT !.at = "zero"] ELSE Idle
  /\ UNCHANGED <<rx_count, rm_code, heard>>

Zero ==
  /\ remote.at = "zero"
  /\ rm_code' = Cleared({0})
  /\ remote' = [remote EXCEPT !.at = "reset"]
  /\ UNCHANGED <<rx_count, sem_IR, heard>>

Reset ==
  /\ remote.at = "reset"
  /\ rx_count' = 0
  /\ remote' = [remote EXCEPT !.at = "compare"]
  /\ UNCHANGED <<rm_code, sem_IR, heard>>

(* Fault: a key without a code matches.                                     *)
CompareUnlearned ==
  /\ remote.at = "compare"
  /\ LET code == p_rem_code_src[remote.k]
     IN remote' =
          IF remote.j < Len(code) /\ rm_code[remote.j] = code[remote.j + 1]
          THEN [remote EXCEPT !.j = @ + 1]
          ELSE IF remote.j = Len(code) THEN [remote EXCEPT !.at = "post"]
          ELSE IF remote.k + 1 < K THEN [remote EXCEPT !.k = @ + 1, !.j = 0]
          ELSE Idle
  /\ heard' = IF remote'.at = "post" THEN {} ELSE heard
  /\ UNCHANGED captureVars

(* One interval after the other, one key after the other.                   *)
Compare ==
  /\ remote.at = "compare"
  /\ LET code == p_rem_code_src[remote.k]
     IN remote' =
          IF remote.j < Len(code) /\ rm_code[remote.j] = code[remote.j + 1]
          THEN [remote EXCEPT !.j = @ + 1]
          ELSE IF code # <<>> /\ remote.j = Len(code) THEN [remote EXCEPT !.at = "post"]
          ELSE IF remote.k + 1 < K THEN [remote EXCEPT !.k = @ + 1, !.j = 0]
          ELSE Idle
  /\ heard' = IF remote'.at = "post" THEN {} ELSE heard
  /\ UNCHANGED captureVars

(* The key goes down, and up 200 ms later.                                  *)
Post ==
  /\ remote.at = "post"
  /\ remote' = Idle
  /\ UNCHANGED <<captureVars, heard>>

remote_thread ==
  /\ Take \/ Zero \/ Reset \/ Compare \/ Post
  /\ ~fault
  /\ UNCHANGED <<rem_mode, p_rem_code_src, irq, quiet, presses, sent, study, file, late, slot,
                 fault>>

-----------------------------------------------------------------------------
(* remote_study_thread_entry.                                               *)

(* From the menu, also while another one studies: the memory and the file   *)
(* of both are the same.                                                    *)
remote_study_ui ==
  /\ ~fault
  /\ IF study.at = "none" THEN study' = [NoStudy EXCEPT !.at = "mode"] /\ UNCHANGED fault
     ELSE fault' = TRUE /\ UNCHANGED study
  /\ UNCHANGED <<rem_mode, captureVars, p_rem_code_src, irq, quiet, presses, sent, remote,
                 file, historyVars>>

Goto(there) == study' = [study EXCEPT !.at = there]

SetMode ==
  /\ study.at = "mode"
  /\ rem_mode' = "study" /\ Goto("count")
  /\ UNCHANGED <<rx_count, rm_code, p_rem_code_src, irq, file, slot, fault>>

SetCount ==
  /\ study.at = "count"
  /\ rx_count' = 0 /\ slot' = None /\ Goto("open")
  /\ UNCHANGED <<rem_mode, rm_code, p_rem_code_src, irq, file, fault>>

(* Without the file the thread ends, and the mode stays.                    *)
Open ==
  /\ study.at = "open"
  /\ \/ Goto("clear") /\ file' = <<>>
     \/ study' = NoStudy /\ UNCHANGED file
  /\ UNCHANGED <<rem_mode, rx_count, rm_code, p_rem_code_src, irq, slot, fault>>

(* memset by the size of a pointer: the first two.                          *)
Clear ==
  /\ study.at = "clear"
  /\ rm_code' = Cleared({0, 1})
  /\ slot' = IF slot = None THEN None ELSE Spoilt
  /\ Goto("wait")
  /\ UNCHANGED <<rem_mode, rx_count, p_rem_code_src, irq, file, fault>>

Wait ==
  /\ study.at = "wait" /\ rem_mode = "study" /\ quiet = 2 /\ rx_count > 0
  /\ rm_code' = Cleared({0})
  /\ study' = [study EXCEPT !.at = "scan", !.j = 0]
  /\ UNCHANGED <<rem_mode, rx_count, p_rem_code_src, irq, file, slot, fault>>

(* Up to a gap, to what was cleared, or beyond the buffer.                  *)
Scan ==
  /\ study.at = "scan"
  /\ IF study.j = MaxLen - 1
     THEN \/ Goto("copy") /\ UNCHANGED fault
          \/ fault' = TRUE /\ UNCHANGED study
     ELSE /\ study' = IF rm_code[study.j + 1] \in {0, Gap} THEN [study EXCEPT !.at = "copy"]
                      ELSE [study EXCEPT !.j = @ + 1]
          /\ UNCHANGED fault
  /\ UNCHANGED <<rem_mode, rx_count, rm_code, p_rem_code_src, irq, file, slot>>

Copy ==
  /\ study.at = "copy"
  /\ irq' = FALSE
  /\ p_rem_code_src' = [p_rem_code_src EXCEPT ![study.k] =
                          [i \in 1..study.j + 1 |-> rm_code[i - 1]]]
  /\ Goto("write")
  /\ UNCHANGED <<rem_mode, rx_count, rm_code, file, slot, fault>>

(* When the disk is full the thread ends: the file is not closed, and       *)
(* nothing is captured any more.                                            *)
Write ==
  /\ study.at = "write"
  /\ Goto("rearm") \/ study' = NoStudy
  /\ UNCHANGED <<rem_mode, rx_count, rm_code, p_rem_code_src, irq, file, slot, fault>>

NextKey == IF study.k + 1 < K THEN [at |-> "clear", k |-> study.k + 1, j |-> 0]
         ELSE [study EXCEPT !.at = "close"]

(* Fault: the interrupt stays off.                                          *)
RearmOff ==
  /\ study.at = "rearm"
  /\ rx_count' = 0 /\ slot' = None
  /\ study' = NextKey
  /\ UNCHANGED <<irq, rem_mode, rm_code, p_rem_code_src, file, fault>>

(* Fault: the count goes on.                                                *)
RearmKeepsCount ==
  /\ study.at = "rearm"
  /\ irq' = TRUE /\ slot' = None
  /\ study' = NextKey
  /\ UNCHANGED <<rx_count, rem_mode, rm_code, p_rem_code_src, file, fault>>

Rearm ==
  /\ study.at = "rearm"
  /\ rx_count' = 0 /\ irq' = TRUE /\ slot' = None
  /\ study' = NextKey
  /\ UNCHANGED <<rem_mode, rm_code, p_rem_code_src, file, fault>>

(* What was written is in the directory only now.                           *)
Close ==
  /\ study.at = "close"
  /\ file' = [i \in 1..K |-> p_rem_code_src[i - 1]]
  /\ Goto("done")
  /\ UNCHANGED <<rem_mode, rx_count, rm_code, p_rem_code_src, irq, slot, fault>>

Done ==
  /\ study.at = "done"
  /\ rem_mode' = "enable" /\ study' = NoStudy
  /\ UNCHANGED <<rx_count, rm_code, p_rem_code_src, irq, file, slot, fault>>

remote_study_thread ==
  /\ \/ SetMode \/ SetCount \/ Open \/ Clear \/ Wait \/ Scan \/ Copy \/ Write
     \/ Rearm \/ Close \/ Done
  /\ remote.at \in {"take", "post"} /\ ~fault
  /\ UNCHANGED <<sem_IR, quiet, presses, sent, remote, heard, late>>

-----------------------------------------------------------------------------

(* rem_start on a file: a code as long as the buffer is taken for lengths.  *)
Loaded(f) == [k \in Keys |-> IF k + 1 <= Len(f) THEN f[k + 1] ELSE <<>>]
ModeFor(f) == IF f = <<>> THEN "disable" ELSE "enable"
Misread(f) == \E i \in 1..Len(f) : Len(f[i]) = MaxLen

(* The buffer is not cleared when it is allocated.                          *)
Unset == {[i \in 0..MaxLen-1 |-> v] : v \in {0, 1}}

(* The file may have come over USB, with codes for the first keys only.     *)
RemoteInit ==
  /\ \E n \in 0..K : file \in [1..n -> {Code[b] : b \in Buttons}]
  /\ p_rem_code_src = Loaded(file) /\ rem_mode = ModeFor(file) /\ fault = Misread(file)
  /\ rx_count = 0 /\ sem_IR = 0 /\ irq = TRUE /\ quiet = 2 /\ sent = None
  /\ rm_code \in Unset
  /\ presses = Presses /\ remote = Idle /\ study = NoStudy
  /\ heard = {} /\ late = FALSE /\ slot = None

(* A file that was opened to be written, and not closed, is an empty one.   *)
PowerFails ==
  /\ UNCHANGED <<file, presses>>
  /\ p_rem_code_src' = Loaded(file) /\ rem_mode' = ModeFor(file) /\ fault' = Misread(file)
  /\ rx_count' = 0 /\ sem_IR' = 0 /\ irq' = TRUE /\ quiet' = 2 /\ sent' = None
  /\ rm_code' \in Unset
  /\ remote' = Idle /\ study' = NoStudy
  /\ heard' = {} /\ late' = FALSE /\ slot' = None

RemoteNext ==
  \/ \E b \in Buttons : Press(b)
  \/ Lose \/ Tick
  \/ remote_isr \/ remote_thread \/ remote_study_ui \/ remote_study_thread
  \/ PowerFails

(* The burst comes, and the threads, of low priority, run when the player   *)
(* has nothing else to do.  Nobody needs to press a button.                 *)
Fairness ==
  /\ WF_remote_vars(remote_isr) /\ WF_remote_vars(Tick)
  /\ WF_remote_vars(remote_thread) /\ WF_remote_vars(remote_study_thread)

RemoteSpec == RemoteInit /\ [][RemoteNext]_remote_vars /\ Fairness

-----------------------------------------------------------------------------
(* Properties.                                                              *)

(* A key is reported only for a button that was pressed since the last      *)
(* report, and only a key that was learned, however late the thread comes:  *)
(* unless the next burst came into the one that is compared, a part of a     *)
(* burst was compared after its beginning had been, the code is longer than *)
(* that of the first key and ends in what was in the buffer, or another      *)
(* burst began in the code while it was learned.                            *)
OnlyPressed ==
  [][remote.at = "compare" /\ remote'.at = "post" =>
       LET code == p_rem_code_src[remote.k]
       IN /\ code # <<>>
          /\ \/ late \/ Len(code) > Len(p_rem_code_src[0])
             \/ \E i \in 2..Len(code) : code[i] = Gap
             \/ \E b \in heard : IsPrefix(code, Code[b]) \/ IsPrefix(Code[b], code)]_remote_vars

(* What is learned for a key is the first burst after it was asked for, if  *)
(* that arrived as a whole; and more only if the buffer held more before.   *)
Learned ==
  [][study.at = "copy" /\ study'.at = "write" =>
       \A b \in Buttons : slot = <<b, "whole">> =>
         IsPrefix(Code[b], p_rem_code_src'[study.k])]_remote_vars

(* A button whose code is known, and as long as the first one, is reported, *)
(* unless the user does not wait or goes to learn.                          *)
Known(b) ==
  /\ rem_mode = "enable" /\ sent = None /\ ~late /\ ~fault /\ remote.at = "take"
  /\ rx_count = Len(Code[b]) /\ rx_count % 2 = 0
  /\ \A i \in 2..rx_count : rm_code[i - 1] = Code[b][i]
  /\ Len(p_rem_code_src[0]) = rx_count
  /\ \E k \in Keys : p_rem_code_src[k] = Code[b]

KeyReported ==
  \A b \in Buttons :
    Known(b) /\ b \in heard ~> b \notin heard \/ late \/ rem_mode # "enable" \/ fault

(* Learning never hangs: it ends, with all keys or with a file that cannot  *)
(* be written, or it waits for a button with the capture on and nothing     *)
(* captured; unless the capture was off before, since a write had failed.   *)
EndsOrWaits ==
  \/ study.at = "none" \/ fault
  \/ study.at = "wait" /\ irq /\ rx_count = 0

StudyProceeds == study.at # "none" /\ irq ~> EndsOrWaits
=============================================================================
