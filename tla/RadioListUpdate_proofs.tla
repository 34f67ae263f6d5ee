------------------------ MODULE RadioListUpdate_proofs ------------------------
(***************************************************************************)
(* Proofs about HttpSockets, for any number of sessions and sockets, and   *)
(* about RadioListUpdate, for any number of messages, too: the invariants  *)
(* of HttpSockets hold in it, and the station list survives.               *)
(***************************************************************************)
EXTENDS RadioListUpdate, TLAPS

-----------------------------------------------------------------------------
(* The sockets alone: HttpSockets.                                          *)

(* Of two sessions that use their own connection, both on socket 0, one is  *)
(* the other; so the two properties, together, are inductive: with nothing  *)
(* active every socket is free, and the next session gets socket 0.         *)
IInv == TypeOK /\ OwnConnection /\ NoneLeftOpen

LEMMA InitIInv == Init => IInv
<1> SUFFICES ASSUME Init PROVE IInv
  OBVIOUS
<1>1. TypeOK
  <2>1. owner \in [0..N-1 -> Sessions \cup {None}]
    BY DEF Init
  <2>2. socket_handle \in [Sessions -> 0..N-1]
    BY SocketsAssumption DEF Init
  <2>3. /\ pc \in [Sessions -> {"idle", "connect", "header", "open", "job"}]
        /\ left \in BOOLEAN /\ overlapped \in BOOLEAN
    BY DEF Init
  <2>4. kind \in [Sessions -> {"http", "shoutcast", "update"}]
    BY DEF Init
  <2>5. Opening = {} /\ Job = {}
    BY DEF Init, Opening, Job, Sessions
  <2> QED
    BY <2>1, <2>2, <2>3, <2>4, <2>5 DEF TypeOK
<1>2. OwnConnection /\ NoneLeftOpen
  BY DEF Init, OwnConnection, NoneLeftOpen, Active
<1> QED
  BY <1>1, <1>2 DEF IInv

-----------------------------------------------------------------------------
(* Types.                                                                   *)

LEMMA SocketType ==
  ASSUME TypeOK, NEW a \in Sessions, NEW k \in {"http", "shoutcast", "update"},
         Socket(a, k), a \in Radio => Opening = {}
  PROVE  TypeOK'
<1>1. PICK s \in Free : /\ owner' = [owner EXCEPT ![s] = a]
                        /\ socket_handle' = [socket_handle EXCEPT ![a] = s]
  BY DEF Socket
<1>2. owner' \in [0..N-1 -> Sessions \cup {None}]
  BY <1>1 DEF TypeOK, Free
<1>3. socket_handle' \in [Sessions -> 0..N-1]
  BY <1>1 DEF TypeOK, Free
<1>4. /\ pc' \in [Sessions -> {"idle", "connect", "header", "open", "job"}]
      /\ kind' \in [Sessions -> {"http", "shoutcast", "update"}]
  BY DEF TypeOK, Socket, Goto
<1>5. left' \in BOOLEAN /\ overlapped' \in BOOLEAN
  BY DEF TypeOK, Socket
<1>6. (\A b, c \in Opening : b = c)' /\ (\A b, c \in Job : b = c)'
  BY DEF TypeOK, Socket, Goto, Opening, Job, Sessions
<1> QED
  BY <1>2, <1>3, <1>4, <1>5, <1>6 DEF TypeOK

(* A session goes on, or ends, and closes at most one socket.               *)
LEMMA GoesOnType ==
  ASSUME TypeOK, NEW a \in Sessions,
         \/ UNCHANGED owner
         \/ \E s \in 0..N-1 : Close(s),
         \/ Ends(a)
         \/ /\ \/ pc[a] = "connect" /\ Goto(a, "header")
               \/ pc[a] = "header" /\ Goto(a, "open")
               \/ Job = {} /\ Goto(a, "job")
            /\ UNCHANGED <<socket_handle, kind>>,
         left' \in BOOLEAN, UNCHANGED overlapped
  PROVE  TypeOK'
<1>1. owner' \in [0..N-1 -> Sessions \cup {None}]
  BY DEF TypeOK, Close
<1>2. /\ socket_handle' \in [Sessions -> 0..N-1]
      /\ kind' \in [Sessions -> {"http", "shoutcast", "update"}]
  <2>1. 0 \in 0..N-1
    BY SocketsAssumption
  <2> QED
    BY <2>1 DEF TypeOK, Ends
<1>3. pc' \in [Sessions -> {"idle", "connect", "header", "open", "job"}]
  BY DEF TypeOK, Ends, Goto
<1>4. (\A b, c \in Opening : b = c)' /\ (\A b, c \in Job : b = c)'
  BY DEF TypeOK, Ends, Goto, Opening, Job, Sessions
<1> QED
  BY <1>1, <1>2, <1>3, <1>4 DEF TypeOK

LEMMA NextType ==
  ASSUME TypeOK, [Next]_vars
  PROVE  TypeOK'
<1>0. peer_handle \in 0..N-1
  BY SocketsAssumption DEF peer_handle
<1>1. ASSUME NEW a \in Sessions, Connection(a) PROVE TypeOK'
  <2>1. CASE Connect(a)
    BY <2>1, <1>1, GoesOnType DEF Connect, TypeOK
  <2>2. CASE ConnectFails(a)
    <3>1. UNCHANGED owner \/ \E s \in 0..N-1 : Close(s)
      BY <2>2 DEF ConnectFails, TypeOK
    <3>2. left' \in BOOLEAN /\ Ends(a) /\ UNCHANGED overlapped
      BY <2>2 DEF ConnectFails, TypeOK
    <3> QED
      BY <3>1, <3>2, GoesOnType
  <2>3. CASE Header(a)
    BY <2>3, GoesOnType DEF Header, TypeOK
  <2>4. CASE HeaderFails(a)
    <3>1. UNCHANGED owner \/ \E s \in 0..N-1 : Close(s)
      BY <2>4, <1>0 DEF HeaderFails, TypeOK
    <3>2. left' \in BOOLEAN /\ Ends(a) /\ UNCHANGED overlapped
      BY <2>4 DEF HeaderFails, TypeOK
    <3> QED
      BY <3>1, <3>2, GoesOnType
  <2> QED
    BY <1>1, <2>1, <2>2, <2>3, <2>4 DEF Connection
<1>2. ASSUME NEW a \in Radio, PlayerOpens(a) PROVE TypeOK'
  <2>1. PICK k \in {"http", "shoutcast"} : Socket(a, k)
    BY <1>2 DEF PlayerOpens
  <2> QED
    BY <1>2, <2>1, SocketType DEF PlayerOpens, Sessions
<1>3. ASSUME NEW a \in Radio, StartJob(a) PROVE TypeOK'
  BY <1>3, GoesOnType DEF StartJob, TypeOK, Sessions
<1>4. ASSUME NEW a \in Radio, StartJobFails(a) \/ CloseJob(a) PROVE TypeOK'
  <2>1. Ends(a) /\ Close(peer_handle) /\ UNCHANGED <<left, overlapped>>
    BY <1>4 DEF StartJobFails, CloseJob
  <2>2. left' \in BOOLEAN
    BY <2>1 DEF TypeOK
  <2> QED
    BY <2>1, <2>2, <1>0, GoesOnType DEF Sessions
<1>5. CASE UpdateOpens
  <2>1. Update \in Sessions /\ Update \notin Radio /\ Socket(Update, "update")
    BY <1>5, SocketsAssumption DEF UpdateOpens, Sessions
  <2> QED
    BY <2>1, SocketType
<1>6. CASE UpdateFails
  BY <1>6, GoesOnType DEF UpdateFails, Sessions
<1>7. CASE UpdateDone
  <2>1. Ends(Update) /\ Close(peer_handle) /\ UNCHANGED <<left, overlapped>>
    BY <1>7 DEF UpdateDone
  <2>2. left' \in BOOLEAN
    BY <2>1 DEF TypeOK
  <2> QED
    BY <2>1, <2>2, <1>0, GoesOnType DEF Sessions
<1>8. CASE UNCHANGED vars
  BY <1>8 DEF vars, TypeOK, Opening, Job
<1> QED
  BY <1>1, <1>2, <1>3, <1>4, <1>5, <1>6, <1>7, <1>8 DEF Next

-----------------------------------------------------------------------------
(* Connections.                                                             *)

(* A session that is active without one left open or another has socket 0,  *)
(* and there is no other session and no other open socket.                  *)
LEMMA OnlyOne ==
  ASSUME TypeOK, OwnConnection, NoneLeftOpen, ~left, ~overlapped,
         NEW a \in Active
  PROVE  /\ Active = {a} /\ owner[0] = a /\ socket_handle[a] = 0
         /\ \A s \in 0..N-1 : s # 0 => owner[s] = None
<1>1. owner[0] = a /\ socket_handle[a] = 0
  BY DEF OwnConnection, Own, peer_handle
<1>2. Active = {a}
  BY <1>1 DEF OwnConnection, Own, peer_handle
<1>3. \A s \in 0..N-1 : s # 0 => owner[s] = None
  BY <1>1, <1>2 DEF NoneLeftOpen
<1> QED
  BY <1>1, <1>2, <1>3

LEMMA SocketOwn ==
  ASSUME IInv, NEW a \in Sessions, NEW k, Socket(a, k)
  PROVE  OwnConnection' /\ NoneLeftOpen'
<1> SUFFICES ASSUME ~left', ~overlapped'
             PROVE  /\ (\A b \in Active : Own(b))'
                    /\ (\A s \in 0..N-1 : owner[s] # None =>
                          owner[s] \in Active /\ socket_handle[owner[s]] = s)'
  BY DEF OwnConnection, NoneLeftOpen
<1>1. ~left /\ ~overlapped /\ Active = {}
  BY DEF Socket
<1>2. \A s \in 0..N-1 : owner[s] = None
  BY <1>1 DEF IInv, NoneLeftOpen
<1>3. 0 \in Free /\ 0 \in 0..N-1
  BY <1>2, SocketsAssumption DEF Free
<1>4. PICK s \in Free : /\ \A u \in Free : s <= u
                        /\ owner' = [owner EXCEPT ![s] = a]
                        /\ socket_handle' = [socket_handle EXCEPT ![a] = s]
  BY DEF Socket
<1>5. s = 0
  BY <1>3, <1>4, SocketsAssumption DEF Free
<1>6. owner' = [owner EXCEPT ![0] = a] /\ socket_handle' = [socket_handle EXCEPT ![a] = 0]
  BY <1>4, <1>5
<1>7. owner'[0] = a /\ socket_handle'[a] = 0
  BY <1>6, <1>3 DEF IInv, TypeOK
<1>8. Active' = {a}
  BY <1>1 DEF Socket, Goto, Active, IInv, TypeOK
<1>9. \A u \in 0..N-1 : u # 0 => owner'[u] = None
  BY <1>2, <1>6 DEF IInv, TypeOK
<1> QED
  BY <1>7, <1>8, <1>9 DEF Own, peer_handle

LEMMA GoesOnOwn ==
  ASSUME IInv, NEW a \in Sessions, NEW there \in {"header", "open", "job"},
         pc[a] # "idle", Goto(a, there),
         UNCHANGED <<owner, socket_handle, kind, left, overlapped>>
  PROVE  OwnConnection' /\ NoneLeftOpen'
<1>1. Active' = Active
  BY DEF Goto, Active, IInv, TypeOK
<1> QED
  BY <1>1 DEF IInv, OwnConnection, NoneLeftOpen, Own

(* A session that closes the socket it should, or the one it uses.          *)
LEMMA EndsOwn ==
  ASSUME IInv, NEW a \in Sessions, pc[a] # "idle", Ends(a), UNCHANGED overlapped,
         left' \/ (left' = left /\ (Close(peer_handle) \/ Close(socket_handle[a])))
  PROVE  OwnConnection' /\ NoneLeftOpen'
<1> SUFFICES ASSUME ~left', ~overlapped'
             PROVE  /\ (\A b \in Active : Own(b))'
                    /\ (\A s \in 0..N-1 : owner[s] # None =>
                          owner[s] \in Active /\ socket_handle[owner[s]] = s)'
  BY DEF OwnConnection, NoneLeftOpen
<1>1. ~left /\ ~overlapped /\ a \in Active
  BY DEF Active
<1>2. /\ Active = {a} /\ owner[0] = a /\ socket_handle[a] = 0
      /\ \A s \in 0..N-1 : s # 0 => owner[s] = None
  BY <1>1, OnlyOne DEF IInv
<1>3. owner' = [owner EXCEPT ![0] = None]
  BY <1>2 DEF Close, peer_handle
<1>4. \A s \in 0..N-1 : owner'[s] = None
  BY <1>2, <1>3 DEF IInv, TypeOK
<1>5. Active' = {}
  BY <1>2 DEF Ends, Goto, Active, IInv, TypeOK
<1> QED
  BY <1>4, <1>5

LEMMA NextOwn ==
  ASSUME IInv, [Next]_vars
  PROVE  OwnConnection' /\ NoneLeftOpen'
<1>1. ASSUME NEW a \in Sessions, Connection(a) PROVE OwnConnection' /\ NoneLeftOpen'
  <2>1. CASE Connect(a)
    BY <2>1, GoesOnOwn DEF Connect
  <2>2. CASE ConnectFails(a)
    <3>1. left' \/ (left' = left /\ Close(socket_handle[a]))
      BY <2>2 DEF ConnectFails, IInv, TypeOK
    <3> QED
      BY <2>2, <3>1, EndsOwn DEF ConnectFails
  <2>3. CASE Header(a)
    BY <2>3, GoesOnOwn DEF Header
  <2>4. CASE HeaderFails(a)
    <3>1. left' \/ (left' = left /\ (Close(peer_handle) \/ Close(socket_handle[a])))
      BY <2>4 DEF HeaderFails, IInv, TypeOK
    <3> QED
      BY <2>4, <3>1, EndsOwn DEF HeaderFails
  <2> QED
    BY <1>1, <2>1, <2>2, <2>3, <2>4 DEF Connection
<1>2. ASSUME NEW a \in Radio, PlayerOpens(a) PROVE OwnConnection' /\ NoneLeftOpen'
  BY <1>2, SocketOwn DEF PlayerOpens, Sessions
<1>3. ASSUME NEW a \in Radio, StartJob(a) PROVE OwnConnection' /\ NoneLeftOpen'
  BY <1>3, GoesOnOwn DEF StartJob, Sessions
<1>4. ASSUME NEW a \in Radio, StartJobFails(a) \/ CloseJob(a)
      PROVE  OwnConnection' /\ NoneLeftOpen'
  BY <1>4, EndsOwn DEF StartJobFails, CloseJob, Sessions
<1>5. CASE UpdateOpens
  BY <1>5, SocketOwn DEF UpdateOpens, Sessions
<1>6. CASE UpdateFails
  BY <1>6, EndsOwn DEF UpdateFails, Sessions
<1>7. CASE UpdateDone
  BY <1>7, EndsOwn DEF UpdateDone, Sessions
<1>8. CASE UNCHANGED vars
  BY <1>8 DEF vars, IInv, OwnConnection, NoneLeftOpen, Active, Own
<1> QED
  BY <1>1, <1>2, <1>3, <1>4, <1>5, <1>6, <1>7, <1>8 DEF Next

-----------------------------------------------------------------------------

LEMMA Invariance == Spec => []IInv
<1>1. IInv /\ [Next]_vars => IInv'
  BY NextType, NextOwn DEF IInv
<1> QED
  BY <1>1, InitIInv, PTL DEF Spec

(* The variables stay in their ranges, the player opens one session at a    *)
(* time and the worker has one job, for any number of sessions and sockets  *)
(* (http.c, radio_list_update.c).                                           *)
THEOREM TypeCorrect == Spec => []TypeOK
<1>1. IInv => TypeOK
  BY DEF IInv
<1> QED
  BY <1>1, Invariance, PTL

(* A session reads and writes its own connection, although the code uses    *)
(* what connect returned, as long as every session closed its socket and    *)
(* none was begun before another had ended (http.c:225).                    *)
THEOREM UsesOwnConnection == Spec => []OwnConnection
<1>1. IInv => OwnConnection
  BY DEF IInv
<1> QED
  BY <1>1, Invariance, PTL

(* And as long every open socket is closed by the session that has it.      *)
THEOREM NoSocketLeftOpen == Spec => []NoneLeftOpen
<1>1. IInv => NoneLeftOpen
  BY DEF IInv
<1> QED
  BY <1>1, Invariance, PTL

-----------------------------------------------------------------------------
(* The update of the station list over them: RadioListUpdate.               *)

(* The download reads a session that is open, and finds on its socket what  *)
(* is not for it only when the sockets were spoiled.                        *)
Reading ==
  thread = "reading" => pc[Update] = "open" /\ (file = "noise" => ~Alone)

ListIInv ==
  /\ IInv /\ Reading /\ RequestAwaited /\ KeptUntilAnswered /\ ListWhole

-----------------------------------------------------------------------------
(* The sockets.                                                             *)

(* Every step is one of HttpSockets, none for it, or the power's.           *)
LEMMA SocketStep ==
  ASSUME ListNext
  PROVE  [Next]_vars \/ PowerOn
<1>1. CASE Interface \/ OthersPost
  BY <1>1 DEF Interface, OthersPost, Press, update_radio_list_req, Show, Leave,
     HandleMessage, socketVars
<1>2. CASE update_radio_thread
  BY <1>2 DEF update_radio_thread, Receive, SessionOpens, SessionFails, Connects,
     FileOpens, FileFails, FileWrites, FileCloses, Finish, socketVars, Next, Sessions
<1>3. CASE Player
  BY <1>3 DEF Player, Next, Sessions
<1>4. CASE PowerFails
  BY <1>4 DEF PowerFails
<1> QED
  BY <1>1, <1>2, <1>3, <1>4 DEF ListNext

LEMMA PowerOnInit == PowerOn => Init'
  BY DEF PowerOn, Init

LEMMA SocketsIInv ==
  ASSUME IInv, [ListNext]_listVars
  PROVE  IInv'
<1>1. CASE [Next]_vars
  BY <1>1, NextType, NextOwn DEF IInv
<1>2. CASE PowerOn
  BY <1>2, PowerOnInit, InitIInv, PTL
<1>3. CASE UNCHANGED listVars
  <2>1. UNCHANGED vars
    BY <1>3 DEF listVars, socketVars
  <2> QED
    BY <2>1, NextType, NextOwn DEF IInv
<1> QED
  BY <1>1, <1>2, <1>3, SocketStep

(* What has been spoiled stays so.                                          *)
LEMMA SpoiledStays ==
  ASSUME [Next]_vars, ~Alone
  PROVE  ~Alone'
<1>1. ASSUME NEW a \in Sessions, Connection(a) PROVE ~Alone'
  BY <1>1 DEF Connection, Connect, ConnectFails, Header, HeaderFails, Alone
<1>2. ASSUME NEW a \in Radio, PlayerOpens(a) \/ StartJob(a) \/ StartJobFails(a) \/ CloseJob(a)
      PROVE  ~Alone'
  BY <1>2 DEF PlayerOpens, Socket, StartJob, StartJobFails, CloseJob, Alone
<1>3. CASE UpdateOpens \/ UpdateFails \/ UpdateDone
  BY <1>3 DEF UpdateOpens, Socket, UpdateFails, UpdateDone, Alone
<1>4. CASE UNCHANGED vars
  BY <1>4 DEF vars, Alone
<1> QED
  BY <1>1, <1>2, <1>3, <1>4 DEF Next

(* The player's sessions are not the update's.                              *)
LEMMA PlayerKeepsUpdate ==
  ASSUME TypeOK, NEW a \in Radio,
         PlayerOpens(a) \/ Connection(a) \/ StartJob(a) \/ StartJobFails(a) \/ CloseJob(a)
  PROVE  pc'[Update] = pc[Update]
<1>1. a # Update /\ Update \in Sessions /\ a \in Sessions
  BY SocketsAssumption DEF Sessions
<1> QED
  BY <1>1 DEF TypeOK, PlayerOpens, Socket, Connection, Connect, ConnectFails, Header,
     HeaderFails, StartJob, StartJobFails, CloseJob, Ends, Goto

-----------------------------------------------------------------------------
(* The update.                                                              *)

LEMMA InterfaceKeeps ==
  ASSUME ListIInv, Interface \/ OthersPost
  PROVE  (Reading /\ RequestAwaited /\ KeptUntilAnswered /\ ListWhole)'
<1>1. UNCHANGED <<vars, file, disk, spoiled>>
  BY DEF Interface, OthersPost, Press, update_radio_list_req, Show, Leave,
     HandleMessage, socketVars, fileVars
<1>2. thread' = thread \/ (thread = "none" /\ thread' = "recv")
  BY DEF Interface, OthersPost, Press, update_radio_list_req, Show, Leave,
     HandleMessage, ListIInv, RequestAwaited
<1>3. (Reading /\ KeptUntilAnswered /\ ListWhole)'
  BY <1>1, <1>2 DEF vars, ListIInv, Reading, Alone, KeptUntilAnswered, ListWhole
<1>4. RequestAwaited'
  BY DEF Interface, OthersPost, Press, update_radio_list_req, Show, Leave,
     HandleMessage, uiVars, ListIInv, RequestAwaited
<1> QED
  BY <1>3, <1>4

(* Steps of the thread that leave the file alone and do not begin to read.  *)
LEMMA ThreadKeeps ==
  ASSUME ListIInv, UNCHANGED <<file, disk, spoiled>>, thread # "reading", thread' # "reading"
  PROVE  (Reading /\ KeptUntilAnswered /\ ListWhole)'
  BY DEF ListIInv, Reading, KeptUntilAnswered, ListWhole

LEMMA ThreadStep ==
  ASSUME ListIInv, update_radio_thread
  PROVE  (Reading /\ RequestAwaited /\ KeptUntilAnswered /\ ListWhole)'
<1>1. RequestAwaited'
  BY DEF update_radio_thread, Receive, SessionOpens, SessionFails, Connects, FileOpens,
     FileFails, FileWrites, FileCloses, Finish, uiVars, ListIInv, RequestAwaited
<1>2. CASE Receive \/ SessionOpens \/ SessionFails \/ Connects \/ FileFails \/ Finish
  <2>1. UNCHANGED <<file, disk, spoiled>> /\ thread # "reading" /\ thread' # "reading"
    BY <1>2 DEF Receive, SessionOpens, SessionFails, Connects, FileFails, Finish, fileVars
  <2> QED
    BY <1>1, <2>1, ThreadKeeps
<1>3. CASE FileOpens
  BY <1>1, <1>3 DEF FileOpens, socketVars, vars, Reading, KeptUntilAnswered, ListWhole
<1>4. CASE FileWrites
  <2>1. /\ thread = "reading" /\ thread' = "reading" /\ UNCHANGED vars
        /\ pc[Update] = "open"
        /\ file' = IF owner[peer_handle] = Update THEN "part" ELSE "noise"
    BY <1>4 DEF FileWrites, socketVars, ListIInv, Reading
  <2>2. ASSUME Alone PROVE owner[peer_handle] = Update
    <3>1. Update \in Active
      BY <2>1 DEF Active, Sessions
    <3> QED
      BY <2>2, <3>1 DEF Alone, ListIInv, IInv, OwnConnection, Own
  <2>3. Alone' <=> Alone
    BY <2>1 DEF vars, Alone
  <2>4. Reading'
    BY <2>1, <2>2, <2>3 DEF vars, Reading
  <2> QED
    BY <1>1, <2>1, <2>4 DEF vars, KeptUntilAnswered, ListWhole
<1>5. CASE FileCloses
  <2>1. PICK cut \in BOOLEAN :
          /\ IF file = "noise" \/ owner[peer_handle] # Update \/ cut THEN UNCHANGED file
             ELSE file' = "list"
          /\ spoiled' = (cut \/ ~Alone)
    BY <1>5 DEF FileCloses
  <2>2. thread = "reading" /\ thread' = "succeeded" /\ disk' = file'
    BY <1>5 DEF FileCloses
  <2>3. ASSUME ~cut, Alone PROVE file' = "list"
    <3>1. pc[Update] = "open" /\ file # "noise"
      BY <2>2, <2>3 DEF ListIInv, Reading
    <3>2. Update \in Active
      BY <3>1 DEF Active, Sessions
    <3>3. owner[peer_handle] = Update
      BY <2>3, <3>2 DEF Alone, ListIInv, IInv, OwnConnection, Own
    <3> QED
      BY <2>1, <2>3, <3>1, <3>3
  <2>4. file' = "list" \/ spoiled'
    BY <2>1, <2>3
  <2> QED
    BY <1>1, <2>2, <2>4 DEF Reading, KeptUntilAnswered, ListWhole
<1> QED
  BY <1>2, <1>3, <1>4, <1>5 DEF update_radio_thread

LEMMA PlayerStep ==
  ASSUME ListIInv, Player
  PROVE  (Reading /\ RequestAwaited /\ KeptUntilAnswered /\ ListWhole)'
<1>1. UNCHANGED <<mq, thread, ui, file, disk, spoiled>>
  BY DEF Player, updateVars
<1>2. pc'[Update] = pc[Update]
  BY PlayerKeepsUpdate DEF Player, ListIInv, IInv
<1>3. ~Alone => ~Alone'
  BY SpoiledStays DEF Player, Next, Sessions
<1>4. Reading'
  BY <1>1, <1>2, <1>3 DEF ListIInv, Reading
<1> QED
  BY <1>1, <1>2, <1>4 DEF ListIInv, RequestAwaited, KeptUntilAnswered, ListWhole

LEMMA PowerStep ==
  ASSUME ListIInv, PowerFails
  PROVE  (Reading /\ RequestAwaited /\ KeptUntilAnswered /\ ListWhole)'
<1>1. mq' = "null" /\ thread' = "none" /\ ui' = "idle"
  BY DEF PowerFails, PowerOn
<1>2. /\ file' \in IF thread = "reading" THEN {disk, "empty", "part"} ELSE {disk}
      /\ disk' = file' /\ spoiled' = (spoiled \/ thread = "reading")
  BY DEF PowerFails
<1>3. ListWhole'
  BY <1>2 DEF ListIInv, ListWhole, KeptUntilAnswered
<1> QED
  BY <1>1, <1>2, <1>3 DEF Reading, RequestAwaited, KeptUntilAnswered

-----------------------------------------------------------------------------

LEMMA ListInitIInv == ListInit => ListIInv
  BY InitIInv DEF ListInit, ListIInv, Reading, RequestAwaited, KeptUntilAnswered, ListWhole

LEMMA ListNextIInv ==
  ASSUME ListIInv, [ListNext]_listVars
  PROVE  ListIInv'
<1>1. IInv'
  BY SocketsIInv DEF ListIInv
<1>2. (Reading /\ RequestAwaited /\ KeptUntilAnswered /\ ListWhole)'
  <2>1. CASE ListNext
    BY <2>1, InterfaceKeeps, ThreadStep, PlayerStep, PowerStep DEF ListNext
  <2>2. CASE UNCHANGED listVars
    BY <2>2 DEF listVars, socketVars, updateVars, vars, ListIInv, Reading, Alone,
       RequestAwaited, KeptUntilAnswered, ListWhole
  <2> QED
    BY <2>1, <2>2
<1> QED
  BY <1>1, <1>2 DEF ListIInv

LEMMA ListInvariance == ListSpec => []ListIInv
  BY ListInitIInv, ListNextIInv, PTL DEF ListSpec

(* A request goes to an empty queue and a thread that waits for it, however *)
(* often the view is opened (radio_list_update_view.c, update_radio_mq).    *)
THEOREM RequestIsAwaited == ListSpec => []RequestAwaited
<1>1. ListIInv => RequestAwaited
  BY DEF ListIInv
<1> QED
  BY <1>1, ListInvariance, PTL

(* The old list is given up for an answer only, and the new one is on the   *)
(* disk before a success is reported (radio_list_update.c), through power   *)
(* failures.                                                                *)
THEOREM OldListKept == ListSpec => []KeptUntilAnswered
<1>1. ListIInv => KeptUntilAnswered
  BY DEF ListIInv
<1> QED
  BY <1>1, ListInvariance, PTL

(* Outside a download the list is whole, unless one was cut or shared its   *)
(* socket (radio_list_update.c).                                            *)
THEOREM ListIsWhole == ListSpec => []ListWhole
<1>1. ListIInv => ListWhole
  BY DEF ListIInv
<1> QED
  BY <1>1, ListInvariance, PTL

(* With updates, and power failures, in between, sessions still use their   *)
(* own connections (http.c:225).                                            *)
THEOREM ConnectionsStayOwn == ListSpec => []OwnConnection
<1>1. ListIInv => OwnConnection
  BY DEF ListIInv, IInv
<1> QED
  BY <1>1, ListInvariance, PTL

(* And open sockets are still closed by their sessions.                     *)
THEOREM SocketsStayClosed == ListSpec => []NoneLeftOpen
<1>1. ListIInv => NoneLeftOpen
  BY DEF ListIInv, IInv
<1> QED
  BY <1>1, ListInvariance, PTL
=============================================================================
