--------------------------- MODULE RadioListUpdate ---------------------------
(***************************************************************************)
(* The update of the station list, radio_list_update.c, with the sockets   *)
(* of HttpSockets.  The user interface makes a queue for one request and a *)
(* thread, which runs at once (priority 20 before 25) up to rt_mq_recv;    *)
(* sends the request; and shows a view of the state.  The thread downloads *)
(* the list over the old one, sets the state, posts a paint command to the *)
(* interface, deletes the queue and ends.  Stations may play meanwhile.    *)
(*                                                                         *)
(* A list is what a reader makes of it: "list" the server's, "part" of it, *)
(* "empty", or "noise" that came over a connection of someone else.        *)
(***************************************************************************)
EXTENDS HttpSockets, Sequences

CONSTANT UiMq \* messages that the queue of the thread ply_ui holds

ASSUME UiMqAssumption == UiMq \in Nat \ {0}

VARIABLES
  mq,      \* update_radio_mq: "null", or the queue "empty" or "full"
  thread,  \* where update_radio_thread is
  state,   \* update_radio_list_state
  view,    \* update_radio_list_view: "null", or "hidden" or "shown"
  drawn,   \* the state on its face
  ui,      \* where the thread ply_ui is
  queue,   \* messages to it: "paint", or of somebody else
  file,    \* what RADIO_FN holds
  disk,    \* what it held when it was closed the last time
  spoiled, \* history: the last download was cut, or not alone on the sockets
  unseen   \* history: the paint command found the queue full

updateVars == <<mq, thread, state, view, drawn, ui, queue, file, disk, spoiled, unseen>>
socketVars == vars
listVars == <<socketVars, updateVars>>

uiVars == <<view, drawn, ui>>
fileVars == <<file, disk, spoiled>>

(* Nobody else uses the sockets, as far as the module HttpSockets can tell. *)
Alone == ~left /\ ~overlapped

(* The thread is blocked in recv, without a time-out: for the header, or    *)
(* for the list, until the server closes the connection.                    *)
AwaitsServer ==
  \/ thread = "connect" /\ pc[Update] = "header"
  \/ thread = "reading"

-----------------------------------------------------------------------------
(* The user interface.                                                      *)

(* Fault: a queue for each call of the function.                            *)
PressUnchecked ==
  /\ ui = "idle" /\ view # "shown"
  /\ mq' = "empty" /\ ui' = "request"
  /\ thread' = IF thread = "none" THEN "recv" ELSE thread
  /\ UNCHANGED <<socketVars, state, view, drawn, queue, fileVars, unseen>>

(* update_radio_list_view_init, from the menu of another view: there may be *)
(* no memory for the thread, the queue then stays.                          *)
Press ==
  /\ ui = "idle" /\ view # "shown"
  /\ IF mq = "null"
     THEN /\ mq' = "empty"
          /\ \/ thread' = "recv" /\ ui' = "request"
             \/ UNCHANGED thread /\ ui' = "show"
     ELSE UNCHANGED <<mq, thread>> /\ ui' = "show"
  /\ UNCHANGED <<socketVars, state, view, drawn, queue, fileVars, unseen>>

update_radio_list_req ==
  /\ ui = "request"
  /\ state' = "proc" /\ mq' = "full" /\ ui' = "show"
  /\ UNCHANGED <<socketVars, thread, view, drawn, queue, fileVars, unseen>>

(* update_radio_list_view_create and rtgui_view_show, which paints it.      *)
Show ==
  /\ ui = "show"
  /\ view' = "shown" /\ drawn' = state /\ ui' = "idle" /\ unseen' = FALSE
  /\ UNCHANGED <<socketVars, mq, thread, state, queue, fileVars>>

(* RETURN destroys the view; another view hides it.                         *)
Leave ==
  /\ ui = "idle" /\ view = "shown"
  /\ view' \in {"null", "hidden"} /\ drawn' = "proc"
  /\ UNCHANGED <<socketVars, mq, thread, state, ui, queue, fileVars, unseen>>

(* Buttons, the player and its time-outs post to the interface too.         *)
OthersPost ==
  /\ Len(queue) < UiMq
  /\ queue' = Append(queue, "other")
  /\ UNCHANGED <<socketVars, mq, thread, state, uiVars, fileVars, unseen>>

HandleMessage ==
  /\ ui = "idle" /\ queue # <<>>
  /\ drawn' = IF Head(queue) = "paint" /\ view = "shown" THEN state ELSE drawn
  /\ queue' = Tail(queue)
  /\ UNCHANGED <<socketVars, mq, thread, state, view, ui, fileVars, unseen>>

-----------------------------------------------------------------------------
(* update_radio_thread.                                                     *)

Receive ==
  /\ thread = "recv" /\ mq = "full"
  /\ mq' = "empty" /\ thread' = "session"
  /\ UNCHANGED <<socketVars, state, uiVars, queue, fileVars, unseen>>

SessionOpens ==
  /\ thread = "session"
  /\ UpdateOpens /\ thread' = "connect"
  /\ UNCHANGED <<mq, state, uiVars, queue, fileVars, unseen>>

(* No address, or no socket.                                                *)
SessionFails ==
  /\ thread = "session"
  /\ thread' = "failed"
  /\ UNCHANGED <<socketVars, mq, state, uiVars, queue, fileVars, unseen>>

(* Fault: the file is opened, and so truncated, before the session.         *)
ConnectsTruncating ==
  /\ thread = "connect" /\ Connection(Update)
  /\ file' = "empty"
  /\ thread' = IF pc'[Update] = "idle" THEN "failed" ELSE "connect"
  /\ UNCHANGED <<mq, state, uiVars, queue, disk, spoiled, unseen>>

(* radio_list_update_servicer_connect.                                      *)
Connects ==
  /\ thread = "connect" /\ Connection(Update)
  /\ thread' = IF pc'[Update] = "idle" THEN "failed" ELSE "connect"
  /\ UNCHANGED <<mq, state, uiVars, queue, fileVars, unseen>>

FileOpens ==
  /\ thread = "connect" /\ pc[Update] = "open"
  /\ file' = "empty" /\ thread' = "reading"
  /\ UNCHANGED <<socketVars, mq, state, uiVars, queue, disk, spoiled, unseen>>

FileFails ==
  /\ thread = "connect" /\ UpdateFails
  /\ thread' = "failed"
  /\ UNCHANGED <<mq, state, uiVars, queue, fileVars, unseen>>

(* Lines of the list, or what socket 0 receives.                            *)
FileWrites ==
  /\ thread = "reading" /\ file = "empty"
  /\ file' = IF owner[peer_handle] = Update THEN "part" ELSE "noise"
  /\ UNCHANGED <<socketVars, mq, thread, state, uiVars, queue, disk, spoiled, unseen>>

(* The end of the stream, a lost connection, a blank line or a full disk:   *)
(* all end the list, and all is called a success.                           *)
FileCloses ==
  /\ thread = "reading" /\ UpdateDone
  /\ \E cut \in BOOLEAN :
       /\ IF file = "noise" \/ owner[peer_handle] # Update \/ cut THEN UNCHANGED file
          ELSE file' = "list"
       /\ spoiled' = (cut \/ ~Alone)
  /\ disk' = file' /\ thread' = "succeeded"
  /\ UNCHANGED <<mq, state, uiVars, queue, unseen>>

(* Fault: the interface is not told.                                        *)
FinishSilently ==
  /\ thread \in {"failed", "succeeded"}
  /\ state' = thread
  /\ mq' = "null" /\ thread' = "none"
  /\ UNCHANGED <<socketVars, uiVars, queue, fileVars, unseen>>

(* The interface does not run before the thread has ended.                  *)
Finish ==
  /\ thread \in {"failed", "succeeded"}
  /\ state' = thread
  /\ IF Len(queue) < UiMq THEN queue' = Append(queue, "paint") /\ UNCHANGED unseen
     ELSE unseen' = TRUE /\ UNCHANGED queue
  /\ mq' = "null" /\ thread' = "none"
  /\ UNCHANGED <<socketVars, uiVars, fileVars>>

-----------------------------------------------------------------------------

(* All but the disk.                                                        *)
PowerOn ==
  /\ mq' = "null" /\ thread' = "none" /\ state' = "proc"
  /\ view' = "null" /\ drawn' = "proc" /\ ui' = "idle" /\ queue' = <<>>
  /\ unseen' = FALSE
  /\ owner' = [s \in 0..N-1 |-> None] /\ pc' = [a \in Sessions |-> "idle"]
  /\ left' = FALSE /\ overlapped' = FALSE
  /\ socket_handle' = [a \in Sessions |-> 0] /\ kind' = [a \in Sessions |-> "http"]

(* The file's entry and chain reach the disk in any order until it is       *)
(* closed.                                                                  *)
PowerFails ==
  /\ PowerOn
  /\ file' \in IF thread = "reading" THEN {disk, "empty", "part"} ELSE {disk}
  /\ disk' = file'
  /\ spoiled' = (spoiled \/ thread = "reading")

ListInit ==
  /\ Init
  /\ mq = "null" /\ thread = "none" /\ state = "proc"
  /\ view = "null" /\ drawn = "proc" /\ ui = "idle" /\ queue = <<>>
  /\ file = "list" /\ disk = "list"
  /\ spoiled = FALSE /\ unseen = FALSE

Interface ==
  \/ Press \/ update_radio_list_req \/ Show \/ Leave
  \/ HandleMessage

update_radio_thread ==
  \/ Receive \/ SessionOpens \/ SessionFails \/ Connects
  \/ FileOpens \/ FileFails \/ FileWrites \/ FileCloses \/ Finish

Player ==
  /\ \E a \in Radio :
       PlayerOpens(a) \/ Connection(a) \/ StartJob(a) \/ StartJobFails(a) \/ CloseJob(a)
  /\ UNCHANGED updateVars

ListNext == Interface \/ OthersPost \/ update_radio_thread \/ Player \/ PowerFails

(* Threads run when they can, and lwIP gives up a connection after some     *)
(* retries.  Of the server, which recv waits for, nothing is assumed.       *)
ListFairness ==
  /\ WF_listVars(update_radio_list_req \/ Show \/ HandleMessage)
  /\ WF_listVars(update_radio_thread /\ ~AwaitsServer)

ListSpec == ListInit /\ [][ListNext]_listVars /\ ListFairness

-----------------------------------------------------------------------------
(* Properties.                                                              *)

(* One update at a time, however often the function is called: the request  *)
(* is sent to an empty queue with a thread that waits for it, and the queue *)
(* is deleted when neither the interface nor a request needs it.            *)
RequestAwaited ==
  /\ ui = "request" => mq = "empty" /\ thread = "recv"
  /\ mq = "full" => thread = "recv"
  /\ thread # "none" => mq # "null"

(* The old list is given up only when a server's header has ended, and the  *)
(* new one is on the disk before anyone hears of a success: an update that  *)
(* reaches no server, or is refused, leaves the list as it was.  (A stream  *)
(* that ends before any answer counts as a header, radio_list_update.c:93.) *)
KeptUntilAnswered ==
  file # disk => thread = "reading" /\ pc[Update] = "open"

(* Outside a download the file is the whole list of the server, through     *)
(* refused connections and stations that play at other times, unless the    *)
(* last download was cut or shared the sockets.                             *)
ListWhole == file = "list" \/ thread = "reading" \/ spoiled

(* The view does not say "updating" for ever: the result is drawn, or the   *)
(* view was left, unless the interface's queue was full at the moment or    *)
(* another session spoiled the sockets, or the server keeps silent: the     *)
(* connection has no receive time-out (radio_list_update.c:50).             *)
ResultSeen ==
  view = "shown" /\ drawn = "proc" /\ thread # "none"
    ~> drawn # "proc" \/ view # "shown" \/ unseen \/ ~Alone \/ []AwaitsServer
=============================================================================
