-------------------------- MODULE ChatClientProofs --------------------------
(***************************************************************************)
(* Proofs about ChatClient, for any number of sockets, rooms and users, of  *)
(* messages and of late events.                                             *)
(***************************************************************************)
EXTENDS ChatClient, TLAPS

Packets == [kind : {"unicast", "broadcast"}, room : Rooms \cup {NoRoom},
            user : Users \cup {NoUser}, seq : Nat]

\* What a packet sent over socket s may be.
Fits(s, k) == k.room = made[s].room /\ (k.kind = "broadcast" => k.user = made[s].user)

\* The page's names are those its socket was made for, and its counter is
\* ahead of what that socket has carried.
PageFollowsSocket ==
  ws # NoSocket =>
    /\ made[ws] = my
    /\ state[ws] # "unborn"
    /\ \A i \in DOMAIN wire[ws] : wire[ws][i].seq < seq

WireOK == wire \in [Sockets -> Seq(Packets)]

CInv ==
  /\ TypeOK /\ WireOK
  /\ PageShowsItsSocket /\ PageFollowsSocket
  /\ PacketsCarryTheirConnection /\ SequenceIncreases

-----------------------------------------------------------------------------

\* A page that was just loaded has no socket and has sent nothing.
LEMMA InitCInv == Init => CInv
<1> SUFFICES ASSUME Init PROVE CInv
  OBVIOUS
<1>a. connected \in BOOLEAN /\ late \in BOOLEAN
  BY Zenon DEF Init
<1>b. state \in [Sockets -> States] /\ made \in [Sockets -> Names \cup {NoName}]
  BY DEF Init, States
<1>c. WireOK
  <2>1. <<>> \in Seq(Packets)
    OBVIOUS
  <2> QED
    BY <2>1, Zenon DEF Init, WireOK
<1>d. \A s \in Sockets : wire[s] = <<>>
  BY DEF Init
<1>e. /\ ws \in Sockets \cup {NoSocket} /\ seq \in Nat /\ dmTarget \in Users \cup {NoUser}
      /\ my \in Names \cup {NoName} /\ onlineUsers \subseteq Users /\ userList \subseteq Users
  BY DEF Init
<1>1. TypeOK /\ WireOK
  BY <1>a, <1>b, <1>c, <1>d, <1>e, Zenon DEF TypeOK
<1>2. PageShowsItsSocket /\ PageFollowsSocket
  BY DEF Init, PageShowsItsSocket, PageFollowsSocket
<1>3. \A s \in Sockets : wire[s] = <<>>
  BY DEF Init
<1>4. PacketsCarryTheirConnection /\ SequenceIncreases
  BY <1>3 DEF PacketsCarryTheirConnection, SequenceIncreases
<1> QED
  BY <1>1, <1>2, <1>4 DEF CInv

\* The packets of a wire are numbered by naturals.
LEMMA NumbersAreNaturals ==
  ASSUME NEW q \in Seq(Packets), NEW i \in DOMAIN q
  PROVE  q[i].seq \in Nat
<1>1. q[i] \in Packets
  OBVIOUS
<1>2. \A k \in Packets : k.seq \in Nat
  BY DEF Packets
<1> QED
  BY <1>1, <1>2

\* The page's counter is ahead of what its socket has carried.
LEMMA CounterAhead ==
  ASSUME CInv, ws # NoSocket, NEW i \in DOMAIN wire[ws]
  PROVE  wire[ws][i].seq < seq
BY Zenon DEF CInv, PageFollowsSocket

\* A socket that is on the page belongs to it.
LEMMA PageSocket ==
  ASSUME CInv, ws # NoSocket
  PROVE  ws \in Sockets /\ made[ws] = my /\ state[ws] # "unborn"
BY DEF CInv, TypeOK, PageFollowsSocket

\* sendRaw: one packet more for the page's socket, or none.
LEMMA SendRawKeeps ==
  ASSUME CInv, NEW kind \in {"unicast", "broadcast"}, NEW user \in Users \cup {NoUser},
         kind = "broadcast" => user = my.user,
         SendRaw(kind, user), UNCHANGED <<ws, my, made>>,
         state' \in [Sockets -> States],
         \A s \in Sockets : state'[s] # "unborn" \/ state[s] = "unborn",
         ws # NoSocket => state'[ws] # "unborn"
  PROVE  /\ seq' \in Nat
         /\ WireOK'
         /\ PageFollowsSocket'
         /\ PacketsCarryTheirConnection'
         /\ SequenceIncreases'
         /\ \A s \in Sockets : state'[s] \in {"unborn", "connecting"} /\ state[s] \in {"unborn", "connecting"} => wire'[s] = <<>>
<1> DEFINE k == [kind |-> kind, room |-> my.room, user |-> user, seq |-> seq]
<1>1. seq \in Nat /\ seq' = seq + 1 /\ my.room \in Rooms \cup {NoRoom}
  BY DEF CInv, TypeOK, SendRaw, Names, NoName
<1>2. k \in Packets
  BY <1>1 DEF Packets
<1>3. wire \in [Sockets -> Seq(Packets)]
  BY DEF CInv, WireOK
<1>4. CASE ws # NoSocket /\ state'[ws] = "open"
  <2>1. ws \in Sockets /\ made[ws] = my
    BY <1>4, PageSocket
  <2>2. wire' = [wire EXCEPT ![ws] = Append(@, k)]
    BY <1>4 DEF SendRaw
  <2>3. WireOK' /\ wire'[ws] = Append(wire[ws], k)
    BY <1>2, <1>3, <2>1, <2>2 DEF WireOK
  <2>4. \A s \in Sockets : s # ws => wire'[s] = wire[s]
    BY <1>3, <2>2
  <2>5. wire[ws] \in Seq(Packets) /\ Len(wire[ws]) \in Nat
    BY <1>3, <2>1
  <2>6. /\ Len(wire'[ws]) = Len(wire[ws]) + 1
        /\ DOMAIN wire'[ws] = 1 .. Len(wire[ws]) + 1
        /\ DOMAIN wire[ws] = 1 .. Len(wire[ws])
        /\ wire'[ws][Len(wire[ws]) + 1] = k
        /\ \A i \in DOMAIN wire[ws] : wire'[ws][i] = wire[ws][i]
    BY <1>2, <2>3, <2>5
  <2>7. \A i \in DOMAIN wire[ws] : wire[ws][i].seq < seq /\ wire[ws][i].seq \in Nat
    BY <1>4, <2>5, NumbersAreNaturals, CounterAhead
  <2>8. PageFollowsSocket'
    <3>1. \A i \in DOMAIN wire'[ws] : wire'[ws][i].seq < seq'
      BY <1>1, <2>5, <2>6, <2>7
    <3>2. state'[ws] # "unborn" /\ made'[ws'] = my' /\ ws' = ws
      BY <1>4, <2>1
    <3> QED
      BY <3>1, <3>2, Zenon DEF PageFollowsSocket
  <2>9. PacketsCarryTheirConnection'
    <3> SUFFICES ASSUME NEW s \in Sockets, NEW i \in DOMAIN wire'[s]
                 PROVE  /\ wire'[s][i].room = made[s].room
                        /\ wire'[s][i].kind = "broadcast" => wire'[s][i].user = made[s].user
      BY DEF PacketsCarryTheirConnection
    <3>1. CASE s # ws
      BY <3>1, <2>4 DEF CInv, PacketsCarryTheirConnection
    <3>2. CASE s = ws /\ i \in DOMAIN wire[ws]
      BY <3>2, <2>6 DEF CInv, PacketsCarryTheirConnection
    <3>3. CASE s = ws /\ i = Len(wire[ws]) + 1
      BY <3>3, <2>1, <2>6
    <3> QED
      BY <3>1, <3>2, <3>3, <2>5, <2>6
  <2>10. SequenceIncreases'
    <3> SUFFICES ASSUME NEW s \in Sockets, NEW i \in 2 .. Len(wire'[s])
                 PROVE  wire'[s][i - 1].seq < wire'[s][i].seq
      BY DEF SequenceIncreases
    <3>1. CASE s # ws
      BY <3>1, <2>4 DEF CInv, SequenceIncreases
    <3>2. CASE s = ws /\ i <= Len(wire[ws])
      <4>1. i - 1 \in DOMAIN wire[ws] /\ i \in DOMAIN wire[ws] /\ i \in 2 .. Len(wire[ws])
        BY <3>2, <2>5, <2>6
      <4> QED
        BY <3>2, <4>1, <2>1, <2>6 DEF CInv, SequenceIncreases
    <3>3. CASE s = ws /\ i = Len(wire[ws]) + 1
      <4>1. i - 1 \in DOMAIN wire[ws] /\ wire'[ws][i - 1] = wire[ws][i - 1]
        BY <3>3, <2>5, <2>6
      <4> QED
        BY <3>3, <4>1, <2>6, <2>7
    <3> QED
      BY <3>1, <3>2, <3>3, <2>5, <2>6
  <2>11. \A s \in Sockets : state'[s] \in {"unborn", "connecting"} /\ state[s] \in {"unborn", "connecting"}
            => wire'[s] = <<>>
    BY <1>4, <2>4 DEF CInv, TypeOK
  <2> QED
    BY <1>1, <2>3, <2>8, <2>9, <2>10, <2>11
<1>5. CASE ~(ws # NoSocket /\ state'[ws] = "open")
  <2>1. wire' = wire
    BY <1>5 DEF SendRaw
  <2>2. PageFollowsSocket'
    <3> SUFFICES ASSUME ws # NoSocket
                 PROVE  \A i \in DOMAIN wire[ws] : wire[ws][i].seq < seq + 1
      <4>1. ws # NoSocket => made'[ws'] = my' /\ state'[ws'] # "unborn"
        BY PageSocket
      <4>2. ws' = ws /\ wire' = wire /\ seq' = seq + 1
        BY <1>1, <2>1
      <4> QED
        BY <4>1, <4>2, Zenon DEF PageFollowsSocket
    <3>1. wire[ws] \in Seq(Packets)
      BY <1>3, PageSocket
    <3>2. \A i \in DOMAIN wire[ws] : wire[ws][i].seq \in Nat /\ wire[ws][i].seq < seq
      BY <3>1, NumbersAreNaturals, CounterAhead
    <3> QED
      BY <1>1, <3>2
  <2> QED
    BY <1>1, <2>1, <2>2 DEF CInv, WireOK, TypeOK, PacketsCarryTheirConnection, SequenceIncreases
<1> QED
  BY <1>4, <1>5

-----------------------------------------------------------------------------

\* What no action can do to a wire: only sendRaw writes there.
LEMMA WireUnchangedKeeps ==
  ASSUME CInv, UNCHANGED wire,
         \A t \in Sockets : made'[t] = made[t] \/ wire[t] = <<>>
  PROVE  WireOK' /\ PacketsCarryTheirConnection' /\ SequenceIncreases'
<1>1. WireOK' /\ SequenceIncreases'
  BY DEF CInv, WireOK, SequenceIncreases
<1>2. ASSUME NEW t \in Sockets, NEW i \in DOMAIN wire[t]
      PROVE  made'[t] = made[t]
  BY <1>2
<1> QED
  BY <1>1, <1>2, Zenon DEF CInv, PacketsCarryTheirConnection

\* connect() stores the names and makes the socket that the page is then bound to, so the two
\* agree; what other sockets carried is left alone.
LEMMA ConnectKeeps ==
  ASSUME CInv, NEW s \in Sockets, Connect(s)
  PROVE  CInv'
<1>1. PICK n \in Names : my' = n /\ made' = [made EXCEPT ![s] = n]
  BY Zenon DEF Connect
<1>2. /\ state[s] = "unborn" /\ state' = [state EXCEPT ![s] = "connecting"]
      /\ ws' = s /\ seq' = 0 /\ connected = FALSE /\ connected' = FALSE /\ late' = FALSE
      /\ onlineUsers' = {} /\ dmTarget' = NoUser /\ UNCHANGED <<userList, wire>>
  BY Zenon DEF Connect, CInv, TypeOK
<1>3. /\ state \in [Sockets -> States] /\ made \in [Sockets -> Names \cup {NoName}]
      /\ userList \subseteq Users
      /\ \A t \in Sockets : state[t] \in {"unborn", "connecting"} => wire[t] = <<>>
  BY Zenon DEF CInv, TypeOK
<1>4. wire[s] = <<>>
  BY <1>2, <1>3
<1>5. /\ state' \in [Sockets -> States] /\ made' \in [Sockets -> Names \cup {NoName}]
      /\ state'[s] = "connecting" /\ made'[s] = n
      /\ \A t \in Sockets : t # s => state'[t] = state[t] /\ made'[t] = made[t]
  BY <1>1, <1>2, <1>3 DEF States
<1>6. \A t \in Sockets : state'[t] \in {"unborn", "connecting"} => wire'[t] = <<>>
  BY <1>2, <1>3, <1>4, <1>5
<1>7. TypeOK'
  <2>1. connected' \in BOOLEAN /\ late' \in BOOLEAN
    BY <1>2, Zenon
  <2>2. ws' \in Sockets /\ seq' \in Nat /\ my' \in Names /\ onlineUsers' \subseteq Users
    BY <1>1, <1>2
  <2> QED
    BY <1>2, <1>3, <1>5, <1>6, <2>1, <2>2, Zenon DEF TypeOK
<1>8. WireOK' /\ PacketsCarryTheirConnection' /\ SequenceIncreases'
  BY <1>2, <1>4, <1>5, WireUnchangedKeeps
<1>9. PageShowsItsSocket'
  <2>1. state'[ws'] = "connecting" /\ "connecting" \notin {"open", "closing"}
    BY <1>2, <1>5
  <2> QED
    BY <1>2, <2>1, Zenon DEF PageShowsItsSocket
<1>10. PageFollowsSocket'
  <2>1. made'[ws'] = my' /\ state'[ws'] # "unborn" /\ wire'[ws'] = <<>>
    BY <1>1, <1>2, <1>4, <1>5
  <2>2. \A i \in DOMAIN wire'[ws'] : FALSE
    BY <2>1
  <2> QED
    BY <2>1, <2>2, Zenon DEF PageFollowsSocket
<1> QED
  BY <1>7, <1>8, <1>9, <1>10, Zenon DEF CInv

\* Whatever resets the page leaves it without a socket.
LEMMA ResetUIKeeps ==
  ASSUME CInv, ResetUI, UNCHANGED <<made, wire>>, late' \in BOOLEAN,
         state' \in [Sockets -> States],
         \A t \in Sockets :
           state'[t] \in {"unborn", "connecting"} => state[t] \in {"unborn", "connecting"}
  PROVE  CInv'
<1>1. /\ ws' = NoSocket /\ connected' = FALSE /\ dmTarget' = NoUser
      /\ onlineUsers' = {} /\ userList' = {} /\ UNCHANGED <<seq, my>>
  BY Zenon DEF ResetUI
<1>2. PageShowsItsSocket' /\ PageFollowsSocket'
  BY <1>1, Zenon DEF PageShowsItsSocket, PageFollowsSocket
<1>3. WireOK' /\ PacketsCarryTheirConnection' /\ SequenceIncreases'
  BY WireUnchangedKeeps
<1>4. TypeOK'
  <2>1. connected' \in BOOLEAN
    BY <1>1, Zenon
  <2>2. ws' \in Sockets \cup {NoSocket} /\ dmTarget' \in Users \cup {NoUser}
        /\ onlineUsers' \subseteq Users /\ userList' \subseteq Users
    BY <1>1
  <2>3. \A t \in Sockets : state'[t] \in {"unborn", "connecting"} => wire'[t] = <<>>
    BY Zenon DEF CInv, TypeOK
  <2>4. seq' \in Nat /\ my' \in Names \cup {NoName} /\ made' \in [Sockets -> Names \cup {NoName}]
    BY <1>1, Zenon DEF CInv, TypeOK
  <2> QED
    BY <2>1, <2>2, <2>3, <2>4, Zenon DEF TypeOK
<1> QED
  BY <1>2, <1>3, <1>4, Zenon DEF CInv

\* disconnect() only asks the page's socket to close.
LEMMA DisconnectKeeps ==
  ASSUME CInv, Disconnect
  PROVE  CInv'
<1>1. state \in [Sockets -> States] /\ late \in BOOLEAN
  BY Zenon DEF CInv, TypeOK
<1>2. state' \in [Sockets -> States]
  BY <1>1 DEF Disconnect, States
<1>3. \A t \in Sockets :
        state'[t] \in {"unborn", "connecting"} => state[t] \in {"unborn", "connecting"}
  BY DEF Disconnect
<1>4. ResetUI /\ UNCHANGED <<made, wire, late>>
  BY DEF Disconnect
<1> QED
  BY <1>1, <1>2, <1>3, <1>4, ResetUIKeeps

\* Whichever socket closes, the page is reset and has no socket any more.
LEMMA ClosedKeeps ==
  ASSUME CInv, NEW s \in Sockets, Closed(s)
  PROVE  CInv'
<1>1. state \in [Sockets -> States] /\ late \in BOOLEAN
  BY Zenon DEF CInv, TypeOK
<1>2. state' \in [Sockets -> States]
  BY <1>1 DEF Closed, States
<1>3. \A t \in Sockets :
        state'[t] \in {"unborn", "connecting"} => state[t] \in {"unborn", "connecting"}
  BY <1>1 DEF Closed
<1>4. late' \in BOOLEAN
  BY <1>1, Zenon DEF Closed
<1>5. ResetUI /\ UNCHANGED <<made, wire>>
  BY DEF Closed
<1> QED
  BY <1>2, <1>3, <1>4, <1>5, ResetUIKeeps

\* Nothing but what is shown or selected, or an open socket that closes.
LEMMA QuietKeeps ==
  ASSUME CInv, UNCHANGED <<ws, connected, seq, my, made, wire, late>>,
         dmTarget' \in Users \cup {NoUser}, onlineUsers' \subseteq Users, userList' \subseteq Users,
         state' \in [Sockets -> States],
         \A t \in Sockets : state'[t] = state[t] \/ (state[t] = "open" /\ state'[t] = "closing")
  PROVE  CInv'
<1>1. \A t \in Sockets :
        /\ state'[t] \in {"unborn", "connecting"} => state[t] \in {"unborn", "connecting"}
        /\ state'[t] = "unborn" <=> state[t] = "unborn"
        /\ state'[t] \in {"open", "closing"} <=> state[t] \in {"open", "closing"}
  OBVIOUS
<1>2. WireOK' /\ PacketsCarryTheirConnection' /\ SequenceIncreases'
  BY WireUnchangedKeeps
<1>3. PageShowsItsSocket'
  <2>1. ws # NoSocket => ws \in Sockets
    BY Zenon DEF CInv, TypeOK
  <2>2. ws # NoSocket => (state'[ws] \in {"open", "closing"} <=> state[ws] \in {"open", "closing"})
    BY <1>1, <2>1
  <2> QED
    BY <2>2, Zenon DEF CInv, PageShowsItsSocket
<1>4. PageFollowsSocket'
  <2>1. ws # NoSocket => ws \in Sockets /\ state'[ws] # "unborn"
    BY <1>1, PageSocket
  <2> QED
    BY <2>1, Zenon DEF CInv, PageFollowsSocket
<1>5. TypeOK'
  <2>1. \A t \in Sockets : state'[t] \in {"unborn", "connecting"} => wire'[t] = <<>>
    BY <1>1, Zenon DEF CInv, TypeOK
  <2> QED
    BY <2>1, Zenon DEF CInv, TypeOK
<1> QED
  BY <1>2, <1>3, <1>4, <1>5, Zenon DEF CInv

\* Selecting a user touches neither sockets nor names.
LEMMA SelectDmTargetKeeps ==
  ASSUME CInv, SelectDmTarget
  PROVE  CInv'
<1>1. /\ state \in [Sockets -> States] /\ userList \subseteq Users /\ onlineUsers \subseteq Users
  BY Zenon DEF CInv, TypeOK
<1>2. /\ dmTarget' \in userList \cup {NoUser} /\ userList' = onlineUsers
      /\ UNCHANGED <<ws, connected, seq, my, onlineUsers, state, made, wire, late>>
  BY Zenon DEF SelectDmTarget
<1> QED
  BY <1>1, <1>2, QuietKeeps

\* A message only changes the list of users.
LEMMA MessageKeeps ==
  ASSUME CInv, NEW s \in Sockets, Message(s)
  PROVE  CInv'
<1>1. /\ state \in [Sockets -> States] /\ onlineUsers \subseteq Users /\ dmTarget \in Users \cup {NoUser}
  BY Zenon DEF CInv, TypeOK
<1>2. /\ \E u \in Users : onlineUsers' = onlineUsers \cup {u}
      /\ userList' = onlineUsers'
      /\ UNCHANGED <<ws, connected, seq, dmTarget, my, state, made, wire, late>>
  BY Zenon DEF Message
<1>3. onlineUsers' \subseteq Users
  BY <1>1, <1>2
<1> QED
  BY <1>1, <1>2, <1>3, QuietKeeps

\* A server that closes a socket changes nothing but the state of that socket.
LEMMA ServerClosesKeeps ==
  ASSUME CInv, NEW s \in Sockets, ServerCloses(s)
  PROVE  CInv'
<1>1. /\ state \in [Sockets -> States] /\ dmTarget \in Users \cup {NoUser}
      /\ onlineUsers \subseteq Users /\ userList \subseteq Users
  BY Zenon DEF CInv, TypeOK
<1>2. /\ state[s] = "open" /\ state' = [state EXCEPT ![s] = "closing"]
      /\ UNCHANGED <<ws, connected, seq, dmTarget, my, onlineUsers, userList, made, wire, late>>
  BY Zenon DEF ServerCloses, page
<1>3. state' \in [Sockets -> States]
  BY <1>1, <1>2 DEF States
<1>4. \A t \in Sockets : state'[t] = state[t] \/ (state[t] = "open" /\ state'[t] = "closing")
  BY <1>1, <1>2
<1> QED
  BY <1>1, <1>2, <1>3, <1>4, QuietKeeps

\* sendMessage() numbers one more packet and sends it over the page's socket.
LEMMA SendMessageKeeps ==
  ASSUME CInv, SendMessage
  PROVE  CInv'
<1>1. UNCHANGED <<ws, connected, dmTarget, my, onlineUsers, userList, state, made, late>>
  BY Zenon DEF SendMessage
<1>2. /\ state \in [Sockets -> States] /\ dmTarget \in Users \cup {NoUser}
      /\ my.user \in Users \cup {NoUser}
  BY DEF CInv, TypeOK, Names, NoName
<1>3. ws # NoSocket => state'[ws] # "unborn"
  BY <1>1, PageSocket
<1>4. /\ seq' \in Nat /\ WireOK' /\ PageFollowsSocket'
      /\ PacketsCarryTheirConnection' /\ SequenceIncreases'
      /\ \A t \in Sockets : state'[t] \in {"unborn", "connecting"} /\ state[t] \in {"unborn", "connecting"}
            => wire'[t] = <<>>
  <2>1. CASE dmTarget # NoUser
    <3>1. SendRaw("unicast", dmTarget)
      BY <2>1, Zenon DEF SendMessage
    <3>2. "unicast" # "broadcast"
      OBVIOUS
    <3> QED
      BY <1>1, <1>2, <1>3, <3>1, <3>2, SendRawKeeps
  <2>2. CASE dmTarget = NoUser
    <3>1. SendRaw("broadcast", my.user)
      BY <2>2, Zenon DEF SendMessage
    <3> QED
      BY <1>1, <1>2, <1>3, <3>1, SendRawKeeps
  <2> QED
    BY <2>1, <2>2
<1>5. PageShowsItsSocket'
  BY <1>1, Zenon DEF CInv, PageShowsItsSocket
<1>6. TypeOK'
  BY <1>1, <1>4, Zenon DEF CInv, TypeOK
<1> QED
  BY <1>4, <1>5, <1>6, Zenon DEF CInv

\* The open event announces the user over the page's socket, whichever socket opened.
LEMMA OpenedKeeps ==
  ASSUME CInv, NEW s \in Sockets, Opened(s)
  PROVE  CInv'
<1>1. /\ state[s] = "connecting" /\ state' = [state EXCEPT ![s] = "open"]
      /\ connected' = TRUE /\ late' = (late \/ s # ws)
      /\ SendRaw("broadcast", my.user)
      /\ userList' \in {onlineUsers, userList}
      /\ UNCHANGED <<ws, dmTarget, my, onlineUsers, made>>
  BY DEF Opened
<1>2. /\ state \in [Sockets -> States] /\ my.user \in Users \cup {NoUser}
  BY DEF CInv, TypeOK, Names, NoName
<1>3. /\ state' \in [Sockets -> States] /\ state'[s] = "open"
      /\ \A t \in Sockets : t # s => state'[t] = state[t]
  BY <1>1, <1>2 DEF States
<1>4. /\ \A t \in Sockets : state'[t] # "unborn" \/ state[t] = "unborn"
      /\ \A t \in Sockets : state'[t] \in {"unborn", "connecting"} => state[t] \in {"unborn", "connecting"}
  BY <1>1, <1>3
<1>5. ws # NoSocket => ws \in Sockets /\ state'[ws] # "unborn"
  BY <1>4, PageSocket
<1>6. /\ seq' \in Nat /\ WireOK' /\ PageFollowsSocket'
      /\ PacketsCarryTheirConnection' /\ SequenceIncreases'
      /\ \A t \in Sockets : state'[t] \in {"unborn", "connecting"} /\ state[t] \in {"unborn", "connecting"}
            => wire'[t] = <<>>
  BY <1>1, <1>2, <1>3, <1>4, <1>5, SendRawKeeps
<1>7. PageShowsItsSocket'
  <2> SUFFICES ASSUME ~late'
               PROVE  connected' <=> ws' # NoSocket /\ state'[ws'] \in {"open", "closing"}
    BY Zenon DEF PageShowsItsSocket
  <2>1. s = ws /\ ws' = s
    BY <1>1, Zenon
  <2>2. s # NoSocket /\ state'[s] \in {"open", "closing"}
    BY <1>3, PageAssumption
  <2> QED
    BY <1>1, <2>1, <2>2, Zenon
<1>8. TypeOK'
  <2>1. connected' \in BOOLEAN /\ late' \in BOOLEAN
    BY <1>1, Zenon DEF CInv, TypeOK
  <2>2. onlineUsers \subseteq Users /\ userList' \subseteq Users
    BY <1>1 DEF CInv, TypeOK
  <2>3. \A t \in Sockets : state'[t] \in {"unborn", "connecting"} => wire'[t] = <<>>
    BY <1>4, <1>6, Zenon
  <2>4. /\ ws' \in Sockets \cup {NoSocket} /\ dmTarget' \in Users \cup {NoUser}
        /\ my' \in Names \cup {NoName} /\ onlineUsers' \subseteq Users
        /\ made' \in [Sockets -> Names \cup {NoName}]
    BY <1>1, Zenon DEF CInv, TypeOK
  <2> QED
    BY <1>3, <1>6, <2>1, <2>2, <2>3, <2>4, Zenon DEF TypeOK
<1> QED
  BY <1>6, <1>7, <1>8, Zenon DEF CInv

-----------------------------------------------------------------------------

\* Every step keeps the invariant.
LEMMA NextCInv == CInv /\ [Next]_vars => CInv'
<1> SUFFICES ASSUME CInv, [Next]_vars PROVE CInv'
  OBVIOUS
<1>1. CASE Disconnect
  BY <1>1, DisconnectKeeps
<1>2. CASE SelectDmTarget
  BY <1>2, SelectDmTargetKeeps
<1>3. CASE SendMessage
  BY <1>3, SendMessageKeeps
<1>4. CASE \E s \in Sockets : Connect(s)
  BY <1>4, ConnectKeeps
<1>5. CASE \E s \in Sockets : Opened(s)
  BY <1>5, OpenedKeeps
<1>6. CASE \E s \in Sockets : Message(s)
  BY <1>6, MessageKeeps
<1>7. CASE \E s \in Sockets : ServerCloses(s)
  BY <1>7, ServerClosesKeeps
<1>8. CASE \E s \in Sockets : Closed(s)
  BY <1>8, ClosedKeeps
<1>9. CASE UNCHANGED vars
  <2>1. UNCHANGED <<ws, connected, seq, dmTarget, my, onlineUsers, userList, state, made, wire, late>>
    BY <1>9, Zenon DEF vars, page
  <2> QED
    BY <2>1, Zenon DEF CInv, TypeOK, WireOK, PageShowsItsSocket, PageFollowsSocket,
                       PacketsCarryTheirConnection, SequenceIncreases
<1> QED
  BY <1>1, <1>2, <1>3, <1>4, <1>5, <1>6, <1>7, <1>8, <1>9, Zenon DEF Next

\* The page (chat.html) shows the state of its own socket as long as no event
\* of an earlier one came; and whatever sockets are left over, open late and
\* close late, a packet goes out over the connection that it names, and the
\* numbers of a connection increase.
THEOREM ChatClientSafety ==
  Spec => [](TypeOK /\ PageShowsItsSocket /\ PacketsCarryTheirConnection /\ SequenceIncreases)
<1>1. CInv => TypeOK /\ PageShowsItsSocket /\ PacketsCarryTheirConnection /\ SequenceIncreases
  BY DEF CInv
<1> QED
  BY InitCInv, NextCInv, <1>1, PTL DEF Spec
=============================================================================
