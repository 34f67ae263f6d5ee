----------------------------- MODULE HttpSockets -----------------------------
(***************************************************************************)
(* The sockets of http.c and radio_list_update.c.  Both connect and then   *)
(* use what connect returned, which is not a socket but 0 for success.     *)
(* That is the right socket as long as socket returned 0 too: the first of *)
(* lwIP's table, free if no other session is open and none was left open.  *)
(*                                                                         *)
(* The player opens a session, as http for an address or as shoutcast for  *)
(* a station, and hands it to the network buffer's worker, which closes it *)
(* when the stream ends or some time after a stop: the player may open the *)
(* next one before.  The station list is updated by a thread of its own.   *)
(* The servers are external: they refuse, answer, or say nothing.  http.c  *)
(* then ends the header by the receive time-out, as a blank line does;     *)
(* radio_list_update.c sets none, and its recv may block for ever.         *)
(***************************************************************************)
EXTENDS Naturals

CONSTANTS
  Radio,  \* sessions of the player
  Update, \* the session of the station list's update
  None,
  N       \* MEMP_NUM_NETCONN, the sockets of lwIP

ASSUME SocketsAssumption ==
  /\ N \in Nat \ {0}
  /\ Update \notin Radio /\ None \notin Radio \cup {Update}

Sessions == Radio \cup {Update}

VARIABLES
  owner,         \* who called socket for it, None when it is free
  socket_handle, \* what socket returned to a session
  pc,            \* where a session is
  kind,          \* by which code
  left,          \* history: a session ended and left its socket open
  overlapped     \* history: one was begun before another had ended

vars == <<owner, socket_handle, pc, kind, left, overlapped>>

(* What connect returned.                                                   *)
peer_handle == 0

Free == {s \in 0..N-1 : owner[s] = None}
Active == {a \in Sessions : pc[a] # "idle"}

(* One player thread, one job of the network buffer.                        *)
Opening == {a \in Radio : pc[a] \in {"connect", "header", "open"}}
Job == {a \in Radio : pc[a] = "job"}

Close(s) == owner' = [owner EXCEPT ![s] = None]
Goto(a, there) == pc' = [pc EXCEPT ![a] = there]

(* The call returns, its variables are gone.                                *)
Ends(a) ==
  /\ Goto(a, "idle")
  /\ socket_handle' = [socket_handle EXCEPT ![a] = 0]
  /\ kind' = [kind EXCEPT ![a] = "http"]

-----------------------------------------------------------------------------

Socket(a, k) ==
  /\ pc[a] = "idle"
  /\ \E s \in Free :
       /\ \A u \in Free : s <= u
       /\ owner' = [owner EXCEPT ![s] = a]
       /\ socket_handle' = [socket_handle EXCEPT ![a] = s]
  /\ kind' = [kind EXCEPT ![a] = k]
  /\ Goto(a, "connect")
  /\ overlapped' = (overlapped \/ Active # {})
  /\ UNCHANGED left

Connect(a) ==
  /\ pc[a] = "connect"
  /\ Goto(a, "header")
  /\ UNCHANGED <<owner, socket_handle, kind, left, overlapped>>

(* Fault: no session closes the socket.                                     *)
ConnectFailsOpen(a) ==
  /\ pc[a] = "connect"
  /\ UNCHANGED owner
  /\ left' = (left \/ kind[a] = "http")
  /\ Ends(a)
  /\ UNCHANGED overlapped

(* http_connect returns without closing it.                                 *)
ConnectFails(a) ==
  /\ pc[a] = "connect"
  /\ IF kind[a] = "http" THEN UNCHANGED owner ELSE Close(socket_handle[a])
  /\ left' = (left \/ kind[a] = "http")
  /\ Ends(a)
  /\ UNCHANGED overlapped

(* Blank line, end of the stream, or time-out where one is set: recv        *)
(* returns 0, and less only for a socket that is not open.                  *)
Header(a) ==
  /\ pc[a] = "header" /\ peer_handle \notin Free
  /\ Goto(a, "open")
  /\ UNCHANGED <<owner, socket_handle, kind, left, overlapped>>

(* An error in the status line, another type of content, or no such socket. *)
HeaderFails(a) ==
  /\ pc[a] = "header"
  /\ \/ kind[a] = "http" /\ UNCHANGED owner
     \/ kind[a] = "shoutcast" /\ Close(socket_handle[a])
     \/ kind[a] = "update" /\ Close(peer_handle)
  /\ left' = (left \/ kind[a] = "http")
  /\ Ends(a)
  /\ UNCHANGED overlapped

-----------------------------------------------------------------------------
(* The player and the network buffer.                                       *)

PlayerOpens(a) ==
  /\ a \in Radio /\ Opening = {}
  /\ \E k \in {"http", "shoutcast"} : Socket(a, k)

StartJob(a) ==
  /\ a \in Radio /\ pc[a] = "open" /\ Job = {}
  /\ Goto(a, "job")
  /\ UNCHANGED <<owner, socket_handle, kind, left, overlapped>>

(* The job of the session before has not stopped yet.                       *)
StartJobFails(a) ==
  /\ a \in Radio /\ pc[a] = "open" /\ Job # {}
  /\ Close(peer_handle)
  /\ Ends(a)
  /\ UNCHANGED <<left, overlapped>>

(* Fault: the worker closes nothing.                                        *)
CloseJobKeeps(a) ==
  /\ pc[a] = "job"
  /\ Ends(a)
  /\ UNCHANGED <<owner, left, overlapped>>

CloseJob(a) ==
  /\ pc[a] = "job"
  /\ Close(peer_handle)
  /\ Ends(a)
  /\ UNCHANGED <<left, overlapped>>

-----------------------------------------------------------------------------
(* The update of the station list.                                          *)

UpdateOpens == Socket(Update, "update")

(* The file cannot be written: update_radio_list returns at once.           *)
UpdateFails ==
  /\ pc[Update] = "open"
  /\ left' = TRUE
  /\ Ends(Update)
  /\ UNCHANGED <<owner, overlapped>>

UpdateDone ==
  /\ pc[Update] = "open"
  /\ Close(peer_handle)
  /\ Ends(Update)
  /\ UNCHANGED <<left, overlapped>>

-----------------------------------------------------------------------------

Init ==
  /\ owner = [s \in 0..N-1 |-> None]
  /\ socket_handle = [a \in Sessions |-> 0]
  /\ pc = [a \in Sessions |-> "idle"]
  /\ kind \in [Sessions -> {"http"}]
  /\ left = FALSE /\ overlapped = FALSE

Connection(a) == Connect(a) \/ ConnectFails(a) \/ Header(a) \/ HeaderFails(a)

Next ==
  \/ \E a \in Sessions : Connection(a)
  \/ \E a \in Radio : PlayerOpens(a) \/ StartJob(a) \/ StartJobFails(a) \/ CloseJob(a)
  \/ UpdateOpens \/ UpdateFails \/ UpdateDone

Spec == Init /\ [][Next]_vars

-----------------------------------------------------------------------------
(* Properties.                                                              *)

(* The values of the variables; the player opens one session at a time and  *)
(* the worker has one job.                                                  *)
TypeOK ==
  /\ owner \in [0..N-1 -> Sessions \cup {None}]
  /\ socket_handle \in [Sessions -> 0..N-1]
  /\ pc \in [Sessions -> {"idle", "connect", "header", "open", "job"}]
  /\ kind \in [Sessions -> {"http", "shoutcast", "update"}]
  /\ left \in BOOLEAN /\ overlapped \in BOOLEAN
  /\ \A a, b \in Opening : a = b
  /\ \A a, b \in Job : a = b

(* The socket that a session uses is the one it connected.                  *)
Own(a) == socket_handle[a] = peer_handle /\ owner[peer_handle] = a

(* As long as no session was left open and no two overlapped, a session     *)
(* uses its own connection: nothing else makes 0 the wrong socket, not a    *)
(* refused one, nor one that failed, nor a change of station.               *)
OwnConnection ==
  ~left /\ ~overlapped => \A a \in Active : Own(a)

(* And as long, no socket is open that no session will close: the next one  *)
(* gets the first of the table again.                                       *)
NoneLeftOpen ==
  ~left /\ ~overlapped =>
    \A s \in 0..N-1 : owner[s] # None => owner[s] \in Active /\ socket_handle[owner[s]] = s

(* http.c:319: "http connect returns valid socket": the one of the session. *)
ValidSocket == \A a \in Sessions : pc[a] \in {"open", "job"} => Own(a)
=============================================================================
