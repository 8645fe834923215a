----------------------------- MODULE ChatClient -----------------------------
(***************************************************************************)
(* The chat page, src/public/chat.html: one page, its global variables, and *)
(* the WebSocket objects it has made so far.  Each action is one task of    *)
(* the browser's event loop: a click, or an event of a socket.  The         *)
(* handlers of a socket stay in place when the page has moved on to another *)
(* socket or to none, and they work on the same globals.                    *)
(***************************************************************************)
EXTENDS Naturals, Sequences

CONSTANTS Sockets,     \* the WebSocket objects of a behaviour, a bound
          NoSocket,    \* null
          Rooms, Users,
          NoUser,      \* null, or no name yet
          NoRoom,
          MaxSends     \* bound on the messages the user sends

ASSUME PageAssumption ==
  /\ NoSocket \notin Sockets /\ NoUser \notin Users /\ NoRoom \notin Rooms
  /\ MaxSends \in Nat

VARIABLES ws, connected, seq, dmTarget,
          my,          \* myRoom and myUser
          onlineUsers,
          userList,    \* the names in the list that is shown
          state,       \* each socket's readyState; "unborn" before it is made
          made,        \* the room and user a socket was made for
          wire,        \* history: the packets sent over each socket
          late         \* history: since the last connect() a socket other
                       \* than the page's own has opened or closed

page == <<ws, connected, seq, dmTarget, my, onlineUsers, userList>>
vars == <<page, state, made, wire, late>>

NoName == [room |-> NoRoom, user |-> NoUser]
Names == [room : Rooms, user : Users]
States == {"unborn", "connecting", "open", "closing", "closed"}

Init ==
  /\ ws = NoSocket
  /\ connected = FALSE
  /\ seq = 0
  /\ dmTarget = NoUser
  /\ my = NoName
  /\ onlineUsers = {}
  /\ userList = {}
  /\ state = [s \in Sockets |-> "unborn"]
  /\ made = [s \in Sockets |-> NoName]
  /\ wire = [s \in Sockets |-> <<>>]
  /\ late = FALSE

-----------------------------------------------------------------------------

\* Mutant: the readyState is not minded.
SendRawAnyState(kind, user) ==
  /\ seq' = seq + 1
  /\ wire' = IF ws # NoSocket
             THEN [wire EXCEPT ![ws] =
                     Append(@, [kind |-> kind, room |-> my.room, user |-> user, seq |-> seq])]
             ELSE wire

\* sendRaw: the number is used up whatever comes of it.  ws.send throws when
\* ws is null or not yet open, and does nothing on a socket that is closing.
SendRaw(kind, user) ==
  /\ seq' = seq + 1
  /\ wire' = IF ws # NoSocket /\ state'[ws] = "open"
             THEN [wire EXCEPT ![ws] =
                     Append(@, [kind |-> kind, room |-> my.room, user |-> user, seq |-> seq])]
             ELSE wire

ResetUI ==
  /\ connected' = FALSE
  /\ onlineUsers' = {}
  /\ userList' = {}
  /\ dmTarget' = NoUser
  /\ ws' = NoSocket
  /\ UNCHANGED <<seq, my>>

-----------------------------------------------------------------------------
(* The user.                                                                *)

\* Mutant: the socket is made before the name is read.
ConnectKeepsName(s) ==
  /\ ~connected
  /\ state[s] = "unborn"
  /\ \E n \in Names :
       /\ my' = IF ws = NoSocket THEN n ELSE my
       /\ made' = [made EXCEPT ![s] = n]
  /\ seq' = 0
  /\ onlineUsers' = {}
  /\ dmTarget' = NoUser
  /\ ws' = s
  /\ state' = [state EXCEPT ![s] = "connecting"]
  /\ late' = FALSE
  /\ UNCHANGED <<connected, userList, wire>>

\* connect(): also while an earlier socket is still connecting, which is then
\* forgotten but not closed.  The list is not rendered again.  The names are
\* well-formed and the page came over http, so that making the URL and the
\* socket does not throw.
Connect(s) ==
  /\ ~connected
  /\ state[s] = "unborn"
  /\ \E n \in Names : my' = n /\ made' = [made EXCEPT ![s] = n]
  /\ seq' = 0
  /\ onlineUsers' = {}
  /\ dmTarget' = NoUser
  /\ ws' = s
  /\ state' = [state EXCEPT ![s] = "connecting"]
  /\ late' = FALSE
  /\ UNCHANGED <<connected, userList, wire>>

\* disconnect(): ws.close() does nothing when the socket is closed already.
Disconnect ==
  /\ connected
  /\ state' = [s \in Sockets |->
                IF s = ws /\ state[s] \in {"connecting", "open"} THEN "closing" ELSE state[s]]
  /\ ResetUI
  /\ UNCHANGED <<made, wire, late>>

\* A click on a name of the list that is shown, or on "Everyone".
SelectDmTarget ==
  /\ dmTarget' \in userList \cup {NoUser}
  /\ userList' = onlineUsers
  /\ UNCHANGED <<ws, connected, seq, my, onlineUsers, state, made, wire, late>>

\* The input is enabled while connected, and !ws returns early.
SendMessage ==
  /\ connected
  /\ ws # NoSocket
  /\ seq < MaxSends
  /\ UNCHANGED <<ws, connected, dmTarget, my, onlineUsers, userList, state, made, late>>
  /\ IF dmTarget # NoUser THEN SendRaw("unicast", dmTarget) ELSE SendRaw("broadcast", my.user)

-----------------------------------------------------------------------------
(* The events of a socket.                                                  *)

\* onopen announces the user over ws, whichever socket opened; the list is
\* rendered unless the announcement throws.
Opened(s) ==
  /\ state[s] = "connecting"
  /\ state' = [state EXCEPT ![s] = "open"]
  /\ connected' = TRUE
  /\ SendRaw("broadcast", my.user)
  /\ userList' = IF ws # NoSocket /\ state'[ws] # "connecting" THEN onlineUsers ELSE userList
  /\ late' = (late \/ s # ws)
  /\ UNCHANGED <<ws, dmTarget, my, onlineUsers, made>>

\* onmessage: the announcement of a user, or a broadcast from one.
Message(s) ==
  /\ state[s] = "open"
  /\ \E u \in Users \ ({my.user} \cup onlineUsers) : onlineUsers' = onlineUsers \cup {u}
  /\ userList' = onlineUsers'
  /\ UNCHANGED <<ws, connected, seq, dmTarget, my, state, made, wire, late>>

\* A close frame of the gateway arrives; no handler runs yet.
ServerCloses(s) ==
  /\ state[s] = "open"
  /\ state' = [state EXCEPT ![s] = "closing"]
  /\ UNCHANGED <<page, made, wire, late>>

\* Mutant: the close event is only reported.
ClosedKeepsUI(s) ==
  /\ state[s] \in {"connecting", "open", "closing"}
  /\ state' = [state EXCEPT ![s] = "closed"]
  /\ late' = (late \/ s # ws)
  /\ UNCHANGED <<page, made, wire>>

\* onclose, after onerror when the socket failed: both reset the page.
Closed(s) ==
  /\ state[s] \in {"connecting", "open", "closing"}
  /\ state' = [state EXCEPT ![s] = "closed"]
  /\ late' = (late \/ s # ws)
  /\ ResetUI
  /\ UNCHANGED <<made, wire>>

Next ==
  \/ Disconnect \/ SelectDmTarget \/ SendMessage
  \/ \E s \in Sockets : Connect(s) \/ Opened(s) \/ Message(s) \/ ServerCloses(s) \/ Closed(s)

Spec == Init /\ [][Next]_vars

-----------------------------------------------------------------------------
(* Properties.                                                              *)

\* A socket that has not been open has carried nothing.
TypeOK ==
  /\ ws \in Sockets \cup {NoSocket}
  /\ connected \in BOOLEAN /\ late \in BOOLEAN
  /\ seq \in Nat
  /\ dmTarget \in Users \cup {NoUser}
  /\ my \in Names \cup {NoName}
  /\ onlineUsers \subseteq Users /\ userList \subseteq Users
  /\ state \in [Sockets -> States]
  /\ made \in [Sockets -> Names \cup {NoName}]
  /\ \A s \in Sockets : state[s] \in {"unborn", "connecting"} => wire[s] = <<>>

\* The page shows what its socket is: unless an earlier socket has opened or
\* closed since the last connect(), "connected" means that ws is a socket
\* that opened and has not been closed, and no connection is forgotten.
PageShowsItsSocket ==
  ~late => (connected <=> ws # NoSocket /\ state[ws] \in {"open", "closing"})

\* Whatever sockets are left over, a packet goes out over a connection of
\* the room it names and, as a broadcast, under the name of its user.
PacketsCarryTheirConnection ==
  \A s \in Sockets : \A i \in DOMAIN wire[s] :
    /\ wire[s][i].room = made[s].room
    /\ wire[s][i].kind = "broadcast" => wire[s][i].user = made[s].user

\* The sequence numbers of a connection increase, so that a receiver can
\* tell lost and reordered packets, even when several sockets open late.
SequenceIncreases ==
  \A s \in Sockets : \A i \in 2 .. Len(wire[s]) : wire[s][i - 1].seq < wire[s][i].seq
=============================================================================
