--------------------------- MODULE RealtimeGatewayProofs ---------------------------
(***************************************************************************)
(* Proofs about RealtimeRooms, for every set of nodes, sessions, chat      *)
(* rooms and calls, and about RealtimeChallenge, for every set of          *)
(* challenges, frames and keys, every time to live and every clock.        *)
(***************************************************************************)
EXTENDS RealtimeRooms, RealtimeChallenge, TLAPS

-----------------------------------------------------------------------------
(* RealtimeRooms: a session's rooms, while calls, connections and messages *)
(* about it are under way.                                                 *)

About(m, s, r) == m.session = s /\ m.room = r

\* the last message about the room that is in the queue q of a node
LastAbout(q, i, s, r) ==
  /\ i \in DOMAIN q /\ About(q[i], s, r)
  /\ \A j \in DOMAIN q : j > i => ~About(q[j], s, r)

NoneAbout(q, s, r) == \A j \in DOMAIN q : ~About(q[j], s, r)

\* a call has written the room, and its message has yet to be published
Rewriting(s, r) == \E c \in CallsFor(s) : c.pc # "store" /\ c.message.room = r

\* joins and leaves are of chat rooms
ChatRoomsOnly ==
  /\ \A c \in roomCalls : c.message.room # UserRoom
  /\ \A n \in Nodes : \A i \in DOMAIN control[n] : control[n][i].room # UserRoom

\* a session without a record has no rooms, and nobody is busy with it
Unused(s) ==
  /\ storedRooms[s] = {} /\ CallsFor(s) = {}
  /\ \A n \in Nodes : /\ s \notin present[n] /\ connecting[n][s].pc = "idle"
                      /\ \A r \in Rooms : NoneAbout(control[n], s, r)

UncreatedIsUnused == \A s \in Sessions \ created : Unused(s)

\* A session that was not overlapped has one call at a time and none with a
\* connection; a call that wrote the room left it as it was asked to.
OneCallOf(s) ==
  /\ \A c, d \in CallsFor(s) : c = d
  /\ CallsFor(s) # {} => \A n \in Nodes : connecting[n][s].pc = "idle"
  /\ \A c \in CallsFor(s) :
       c.pc # "store" => (c.message.action = "join" <=> c.message.room \in storedRooms[s])

\* what a connection carries from its read to its write is what is stored, its own
\* room apart, which it adds
CarriesStored(s, n) ==
  LET pc    == connecting[n][s].pc
      rooms == connecting[n][s].rooms IN
  /\ pc = "mark" => storedRooms[s] \subseteq {UserRoom}
  /\ pc \in {"restore", "replace", "index"} =>
       rooms \cup {UserRoom} = storedRooms[s] \cup {UserRoom}
  /\ pc \in {"replace", "index"} => UserRoom \in rooms
  /\ pc = "index" \/ (pc = "idle" /\ s \in present[n]) => UserRoom \in storedRooms[s]

\* the last message on its way to a node says what is stored
SaysStored(s, n, r) ==
  <<n, s>> \notin strayed /\ ~Rewriting(s, r) => \A i \in DOMAIN control[n] :
    LastAbout(control[n], i, s, r) => (control[n][i].action = "join" <=> r \in storedRooms[s])

\* a room no message is on its way about is indexed as it is stored
IndexedStored(s, n, r) ==
  /\ s \in present[n] /\ connecting[n][s].pc = "idle"
  /\ NoneAbout(control[n], s, r) /\ ~Rewriting(s, r) /\ <<n, s>> \notin strayed
  => (r \in roomsOf[n][s] <=> r \in storedRooms[s])

RoomsKept(s) ==
  /\ OneCallOf(s)
  /\ \A n \in Nodes : CarriesStored(s, n)
  /\ \A n \in Nodes, r \in Rooms : SaysStored(s, n, r) /\ IndexedStored(s, n, r)

RoomsInv ==
  /\ RoomsTypeOK /\ IndexAgrees /\ ChatRoomsOnly /\ UncreatedIsUnused
  /\ \A s \in Sessions \ overlapped : RoomsKept(s)

-----------------------------------------------------------------------------
(* Lemmas about a node's queue, its index and the calls.                   *)

\* A message goes to the end of a queue.
QueueGrows(q, p, m, s, r) ==
  /\ p \in Seq(Control)
  /\ ~About(m, s, r) => NoneAbout(p, s, r) = NoneAbout(q, s, r)
  /\ ~About(m, s, r) => \A i \in DOMAIN p : LastAbout(p, i, s, r) =>
       i \in DOMAIN q /\ LastAbout(q, i, s, r) /\ p[i] = q[i]
  /\ About(m, s, r) => ~NoneAbout(p, s, r)
  /\ About(m, s, r) => \A i \in DOMAIN p : LastAbout(p, i, s, r) => p[i] = m

LEMMA Appended ==
  ASSUME NEW q \in Seq(Control), NEW m \in Control, NEW s, NEW r, NEW p, p = Append(q, m)
  PROVE  QueueGrows(q, p, m, s, r)
  <1>1. /\ p \in Seq(Control) /\ Len(q) \in Nat
        /\ DOMAIN p = 1..(Len(q) + 1) /\ DOMAIN q = 1..Len(q)
        /\ \A i \in 1..Len(q) : p[i] = q[i]
        /\ p[Len(q) + 1] = m
    OBVIOUS
  <1>2. PICK l \in Nat : l = Len(q)
    BY <1>1
  <1>3. /\ DOMAIN p = 1..(l + 1) /\ DOMAIN q = 1..l /\ p[l + 1] = m
        /\ \A i \in 1..l : p[i] = q[i]
    BY <1>1, <1>2
  <1>4. \A i \in 1..(l + 1) : i \in 1..l \/ i = l + 1
    OBVIOUS
  <1>5. l + 1 \in 1..(l + 1) /\ \A i \in 1..l : i \in 1..(l + 1) /\ l + 1 > i
    OBVIOUS
  <1>6. CASE About(m, s, r)
    BY <1>1, <1>3, <1>4, <1>5, <1>6 DEF NoneAbout, LastAbout, QueueGrows
  <1>7. CASE ~About(m, s, r)
    <2>1. NoneAbout(p, s, r) <=> NoneAbout(q, s, r)
      BY <1>3, <1>4, <1>5, <1>7 DEF NoneAbout
    <2>2. ASSUME NEW i \in DOMAIN p, LastAbout(p, i, s, r)
          PROVE  i \in DOMAIN q /\ LastAbout(q, i, s, r) /\ p[i] = q[i]
      <3>1. i \in 1..l
        BY <1>3, <1>4, <1>7, <2>2 DEF LastAbout
      <3> QED BY <1>3, <1>5, <2>2, <3>1 DEF LastAbout
    <2>3. NoneAbout(p, s, r) \in BOOLEAN /\ NoneAbout(q, s, r) \in BOOLEAN
      BY DEF NoneAbout
    <2> QED BY <1>1, <1>7, <2>1, <2>2, <2>3 DEF QueueGrows
  <1> QED BY <1>6, <1>7

\* The first message of a queue is taken from it.
QueueShrinks(q, p, m, s, r) ==
  /\ p \in Seq(Control) /\ m \in Control /\ 1 \in DOMAIN q /\ q[1] = m
  /\ \A i \in DOMAIN p : LastAbout(p, i, s, r) =>
       \E k \in DOMAIN q : LastAbout(q, k, s, r) /\ q[k] = p[i]
  /\ NoneAbout(q, s, r) => NoneAbout(p, s, r)
  /\ NoneAbout(p, s, r) /\ About(m, s, r) => LastAbout(q, 1, s, r)
  /\ NoneAbout(p, s, r) /\ ~About(m, s, r) => NoneAbout(q, s, r)
  /\ About(m, s, r) => ~NoneAbout(q, s, r)

LEMMA Taken ==
  ASSUME NEW q \in Seq(Control), q # <<>>, NEW s, NEW r, NEW p, p = Tail(q),
         NEW m, m = Head(q)
  PROVE  QueueShrinks(q, p, m, s, r)
  <1>1. /\ p \in Seq(Control) /\ m \in Control /\ Len(q) \in Nat \ {0}
        /\ DOMAIN p = 1..(Len(q) - 1) /\ DOMAIN q = 1..Len(q)
        /\ q[1] = m
        /\ \A i \in 1..(Len(q) - 1) : p[i] = q[i + 1]
    OBVIOUS
  <1>2. PICK l \in Nat : l + 1 = Len(q) /\ l = Len(q) - 1
    <2>1. PICK k \in Nat \ {0} : k = Len(q)
      BY <1>1
    <2>2. k - 1 \in Nat /\ (k - 1) + 1 = k
      OBVIOUS
    <2> QED BY <2>1, <2>2
  <1>3. /\ DOMAIN p = 1..l /\ DOMAIN q = 1..(l + 1) /\ q[1] = m
        /\ \A i \in 1..l : p[i] = q[i + 1]
    <2>1. PICK top, upper : top = Len(q) /\ upper = Len(q) - 1
      OBVIOUS
    <2>2. top = l + 1 /\ upper = l
      BY <1>2, <2>1
    <2>3. /\ DOMAIN p = 1..upper /\ DOMAIN q = 1..top
          /\ \A i \in 1..upper : p[i] = q[i + 1]
      BY <1>1, <2>1
    <2> QED BY <1>1, <2>2, <2>3
  <1>4. /\ 1 \in 1..(l + 1) /\ \A i \in 1..l : i + 1 \in 1..(l + 1)
        /\ \A k \in 1..(l + 1) : k = 1 \/ (k - 1 \in 1..l /\ (k - 1) + 1 = k)
    OBVIOUS
  <1>5. ASSUME NEW i \in DOMAIN p, LastAbout(p, i, s, r)
        PROVE  \E k \in DOMAIN q : LastAbout(q, k, s, r) /\ q[k] = p[i]
    <2>1. i \in 1..l /\ q[i + 1] = p[i] /\ About(q[i + 1], s, r)
      BY <1>3, <1>5 DEF LastAbout
    <2>2. ASSUME NEW j \in 1..(l + 1), j > i + 1 PROVE ~About(q[j], s, r)
      <3>1. j - 1 \in 1..l /\ j - 1 > i /\ (j - 1) + 1 = j
        BY <2>1, <2>2
      <3>2. q[j] = p[j - 1]
        BY <1>3, <3>1
      <3> QED BY <1>3, <1>5, <3>1, <3>2 DEF LastAbout
    <2> QED BY <1>3, <1>4, <2>1, <2>2 DEF LastAbout
  <1>6. NoneAbout(q, s, r) => NoneAbout(p, s, r)
    BY <1>3, <1>4 DEF NoneAbout
  <1>7. ASSUME NoneAbout(p, s, r), NEW k \in DOMAIN q, k # 1
        PROVE  ~About(q[k], s, r)
    <2>1. k - 1 \in 1..l /\ (k - 1) + 1 = k
      BY <1>3, <1>4, <1>7
    <2>2. q[k] = p[k - 1]
      BY <1>3, <2>1
    <2> QED BY <1>3, <1>7, <2>1, <2>2 DEF NoneAbout
  <1>8. NoneAbout(p, s, r) /\ About(m, s, r) => LastAbout(q, 1, s, r)
    BY <1>3, <1>4, <1>7 DEF LastAbout
  <1>9. NoneAbout(p, s, r) /\ ~About(m, s, r) => NoneAbout(q, s, r)
    BY <1>3, <1>7 DEF NoneAbout
  <1>10. About(m, s, r) => ~NoneAbout(q, s, r)
    BY <1>3, <1>4 DEF NoneAbout
  <1> QED BY <1>1, <1>3, <1>4, <1>5, <1>6, <1>8, <1>9, <1>10 DEF QueueShrinks

\* What the operators of the index do: session s of node n gets the rooms new in one
\* Map, and is in those of the other; the rest stays.
IndexedAs(n, s, new) ==
  /\ roomsOf' \in [Nodes -> [Sessions -> SUBSET Rooms]]
  /\ sessionsIn' \in [Nodes -> [Rooms -> SUBSET Sessions]]
  /\ roomsOf'[n][s] = new
  /\ \A r \in Rooms : s \in sessionsIn'[n][r] <=> r \in new
  /\ \A k \in Nodes, u \in Sessions : ~(k = n /\ u = s) =>
       /\ roomsOf'[k][u] = roomsOf[k][u]
       /\ \A r \in Rooms : u \in sessionsIn'[k][r] <=> u \in sessionsIn[k][r]

LEMMA IndexMoves ==
  ASSUME RoomsTypeOK, NEW n \in Nodes, NEW s \in Sessions, NEW new \in SUBSET Rooms,
         NEW in, Indexed(n, [roomsOf[n] EXCEPT ![s] = new], in),
         in \in [Rooms -> SUBSET Sessions],
         \A r \in Rooms : s \in in[r] <=> r \in new,
         \A r \in Rooms, u \in Sessions : u # s => (u \in in[r] <=> u \in sessionsIn[n][r])
  PROVE  IndexedAs(n, s, new)
  <1>1. /\ roomsOf \in [Nodes -> [Sessions -> SUBSET Rooms]]
        /\ sessionsIn \in [Nodes -> [Rooms -> SUBSET Sessions]]
    BY DEF RoomsTypeOK
  <1>2. PICK of : of = [roomsOf[n] EXCEPT ![s] = new]
    OBVIOUS
  <1>3. /\ of \in [Sessions -> SUBSET Rooms] /\ of[s] = new
        /\ \A u \in Sessions : u # s => of[u] = roomsOf[n][u]
    BY <1>1, <1>2
  <1>4. roomsOf' = [roomsOf EXCEPT ![n] = of] /\ sessionsIn' = [sessionsIn EXCEPT ![n] = in]
    BY <1>2 DEF Indexed
  <1>5. /\ roomsOf' \in [Nodes -> [Sessions -> SUBSET Rooms]] /\ roomsOf'[n] = of
        /\ \A k \in Nodes : k # n => roomsOf'[k] = roomsOf[k]
    BY <1>1, <1>3, <1>4
  <1>6. /\ sessionsIn' \in [Nodes -> [Rooms -> SUBSET Sessions]] /\ sessionsIn'[n] = in
        /\ \A k \in Nodes : k # n => sessionsIn'[k] = sessionsIn[k]
    BY <1>1, <1>4
  <1> QED BY <1>3, <1>5, <1>6 DEF IndexedAs

LEMMA AddMoves ==
  ASSUME RoomsTypeOK, IndexAgrees, NEW n \in Nodes, NEW s \in Sessions, NEW r \in Rooms,
         AddLocal(n, s, r)
  PROVE  IndexedAs(n, s, IF s \in present[n] THEN roomsOf[n][s] \cup {r} ELSE roomsOf[n][s])
  <1>1. /\ roomsOf \in [Nodes -> [Sessions -> SUBSET Rooms]]
        /\ sessionsIn \in [Nodes -> [Rooms -> SUBSET Sessions]]
        /\ sessionsIn[n] \in [Rooms -> SUBSET Sessions]
    BY DEF RoomsTypeOK
  <1>a. \A x \in Rooms : x \in roomsOf[n][s] <=> s \in sessionsIn[n][x]
    BY DEF IndexAgrees
  <1>2. CASE s \in present[n]
    <2>1. PICK new \in SUBSET Rooms : new = roomsOf[n][s] \cup {r}
      BY <1>1
    <2>2. PICK in : in = [sessionsIn[n] EXCEPT ![r] = sessionsIn[n][r] \cup {s}]
      OBVIOUS
    <2>3. Indexed(n, [roomsOf[n] EXCEPT ![s] = new], in)
      BY <1>2, <2>1, <2>2 DEF AddLocal
    <2>4. /\ in \in [Rooms -> SUBSET Sessions]
          /\ in[r] = sessionsIn[n][r] \cup {s}
          /\ \A x \in Rooms : x # r => in[x] = sessionsIn[n][x]
      BY <1>1, <2>2
    <2>5. \A x \in Rooms : s \in in[x] <=> x \in new
      BY <1>a, <2>1, <2>4
    <2>6. \A x \in Rooms, u \in Sessions : u # s => (u \in in[x] <=> u \in sessionsIn[n][x])
      BY <2>4
    <2>7. IndexedAs(n, s, new)
      BY <2>3, <2>4, <2>5, <2>6, IndexMoves
    <2> QED BY <1>2, <2>1, <2>7
  <1>3. CASE s \notin present[n]
    <2>1. roomsOf' = roomsOf /\ sessionsIn' = sessionsIn
      BY <1>3 DEF AddLocal
    <2> QED BY <1>1, <1>a, <1>3, <2>1 DEF IndexedAs
  <1> QED BY <1>2, <1>3

LEMMA RemoveMoves ==
  ASSUME RoomsTypeOK, IndexAgrees, NEW n \in Nodes, NEW s \in Sessions, NEW r \in Rooms,
         RemoveLocal(n, s, r)
  PROVE  IndexedAs(n, s, roomsOf[n][s] \ {r})
  <1>1. /\ roomsOf \in [Nodes -> [Sessions -> SUBSET Rooms]]
        /\ sessionsIn[n] \in [Rooms -> SUBSET Sessions]
    BY DEF RoomsTypeOK
  <1>a. \A x \in Rooms : x \in roomsOf[n][s] <=> s \in sessionsIn[n][x]
    BY DEF IndexAgrees
  <1>2. PICK new \in SUBSET Rooms : new = roomsOf[n][s] \ {r}
    BY <1>1
  <1>3. PICK in : in = [sessionsIn[n] EXCEPT ![r] = sessionsIn[n][r] \ {s}]
    OBVIOUS
  <1>4. Indexed(n, [roomsOf[n] EXCEPT ![s] = new], in)
    BY <1>2, <1>3 DEF RemoveLocal
  <1>5. /\ in \in [Rooms -> SUBSET Sessions]
        /\ in[r] = sessionsIn[n][r] \ {s}
        /\ \A x \in Rooms : x # r => in[x] = sessionsIn[n][x]
    BY <1>1, <1>3
  <1>6. \A x \in Rooms : s \in in[x] <=> x \in new
    BY <1>a, <1>2, <1>5
  <1>7. \A x \in Rooms, u \in Sessions : u # s => (u \in in[x] <=> u \in sessionsIn[n][x])
    BY <1>5
  <1> QED BY <1>2, <1>4, <1>5, <1>6, <1>7, IndexMoves

LEMMA SyncMoves ==
  ASSUME RoomsTypeOK, NEW n \in Nodes, NEW s \in Sessions, NEW rooms \in SUBSET Rooms,
         SyncLocal(n, s, rooms)
  PROVE  IndexedAs(n, s, IF s \in present[n] THEN rooms ELSE {})
  <1>1. PICK new \in SUBSET Rooms : new = IF s \in present[n] THEN rooms ELSE {}
    OBVIOUS
  <1>2. sessionsIn[n] \in [Rooms -> SUBSET Sessions]
    BY DEF RoomsTypeOK
  <1>3. PICK in : in = [r \in Rooms |-> IF r \in new THEN sessionsIn[n][r] \cup {s}
                                                       ELSE sessionsIn[n][r] \ {s}]
    OBVIOUS
  <1>4. Indexed(n, [roomsOf[n] EXCEPT ![s] = new], in)
    BY <1>1, <1>3 DEF SyncLocal
  <1>5. /\ in \in [Rooms -> SUBSET Sessions]
        /\ \A r \in Rooms : s \in in[r] <=> r \in new
        /\ \A r \in Rooms, u \in Sessions : u # s => (u \in in[r] <=> u \in sessionsIn[n][r])
    BY <1>2, <1>3
  <1>6. IndexedAs(n, s, new)
    BY <1>4, <1>5, IndexMoves
  <1> QED BY <1>1, <1>6

LEMMA ClearMoves ==
  ASSUME RoomsTypeOK, NEW n \in Nodes, NEW s \in Sessions, ClearLocal(n, s)
  PROVE  IndexedAs(n, s, {})
  <1>1. PICK new \in SUBSET Rooms : new = {}
    OBVIOUS
  <1>2. sessionsIn[n] \in [Rooms -> SUBSET Sessions]
    BY DEF RoomsTypeOK
  <1>3. PICK in : in = [r \in Rooms |-> sessionsIn[n][r] \ {s}]
    OBVIOUS
  <1>4. Indexed(n, [roomsOf[n] EXCEPT ![s] = new], in)
    BY <1>1, <1>3 DEF ClearLocal
  <1>5. /\ in \in [Rooms -> SUBSET Sessions]
        /\ \A r \in Rooms : s \in in[r] <=> r \in new
        /\ \A r \in Rooms, u \in Sessions : u # s => (u \in in[r] <=> u \in sessionsIn[n][r])
    BY <1>1, <1>2, <1>3
  <1>6. IndexedAs(n, s, new)
    BY <1>4, <1>5, IndexMoves
  <1> QED BY <1>1, <1>6

LEMMA RoomsCellMoves ==
  ASSUME NEW A, NEW B, NEW T, NEW f \in [A -> [B -> T]], NEW a \in A, NEW b \in B,
         NEW x \in T, NEW g, g = [f EXCEPT ![a] = [f[a] EXCEPT ![b] = x]]
  PROVE  /\ g \in [A -> [B -> T]]
         /\ g[a][b] = x
         /\ \A d \in A, j \in B : ~(d = a /\ j = b) => g[d][j] = f[d][j]
  <1>1. PICK row : row = [f[a] EXCEPT ![b] = x]
    OBVIOUS
  <1>2. row \in [B -> T] /\ row[b] = x /\ \A j \in B \ {b} : row[j] = f[a][j]
    BY <1>1
  <1>3. g = [f EXCEPT ![a] = row]
    BY <1>1
  <1> QED BY <1>2, <1>3

ConnectPcs == {"idle", "mark", "read", "restore", "replace", "index"}

LEMMA ConnectMoves ==
  ASSUME RoomsTypeOK, NEW n \in Nodes, NEW s \in Sessions, NEW pc \in ConnectPcs,
         NEW rooms \in SUBSET Rooms, ConnectGoesTo(n, s, pc, rooms)
  PROVE  /\ connecting' \in [Nodes -> [Sessions -> [pc: ConnectPcs, rooms: SUBSET Rooms]]]
         /\ connecting'[n][s].pc = pc /\ connecting'[n][s].rooms = rooms
         /\ \A k \in Nodes, u \in Sessions : ~(k = n /\ u = s) =>
              connecting'[k][u] = connecting[k][u]
  <1>0. PICK x : x = [pc |-> pc, rooms |-> rooms]
    OBVIOUS
  <1>1. PICK T : T = [pc: ConnectPcs, rooms: SUBSET Rooms]
    OBVIOUS
  <1>2. x \in T /\ x.pc = pc /\ x.rooms = rooms
    <2>1. x \in [pc: ConnectPcs, rooms: SUBSET Rooms] /\ x.pc = pc /\ x.rooms = rooms
      BY <1>0
    <2> QED BY <1>1, <2>1
  <1>3. connecting \in [Nodes -> [Sessions -> T]]
    BY <1>1 DEF RoomsTypeOK, ConnectPcs
  <1>4. connecting' = [connecting EXCEPT ![n] = [connecting[n] EXCEPT ![s] = x]]
    BY <1>0 DEF ConnectGoesTo
  <1>5. /\ connecting' \in [Nodes -> [Sessions -> T]]
        /\ connecting'[n][s] = x
        /\ \A k \in Nodes, u \in Sessions : ~(k = n /\ u = s) =>
             connecting'[k][u] = connecting[k][u]
    <2>1. PICK f, g : f = connecting /\ g = connecting'
      OBVIOUS
    <2>2. f \in [Nodes -> [Sessions -> T]] /\ g = [f EXCEPT ![n] = [f[n] EXCEPT ![s] = x]]
      BY <1>3, <1>4, <2>1
    <2>3. /\ g \in [Nodes -> [Sessions -> T]]
          /\ g[n][s] = x
          /\ \A k \in Nodes, u \in Sessions : ~(k = n /\ u = s) => g[k][u] = f[k][u]
      BY <1>2, <2>2, RoomsCellMoves
    <2> QED BY <2>1, <2>3
  <1> QED BY <1>1, <1>2, <1>5

\* A call becomes one of the same message.
LEMMA CallMoves ==
  ASSUME RoomsTypeOK, NEW c \in roomCalls, NEW pc \in {"store", "index", "publish"},
         CallGoesTo(c, pc)
  PROVE  \E d \in Call : /\ d.message = c.message /\ d.pc = pc
                         /\ roomCalls' = (roomCalls \ {c}) \cup {d}
  <1>1. c \in [node: Nodes, message: Control, pc: {"store", "index", "publish"}]
    BY DEF RoomsTypeOK, Call
  <1>2. PICK d : d = [c EXCEPT !.pc = pc]
    OBVIOUS
  <1>3. /\ d \in [node: Nodes, message: Control, pc: {"store", "index", "publish"}]
        /\ d.message = c.message /\ d.pc = pc
    BY <1>1, <1>2
  <1>4. roomCalls' = (roomCalls \ {c}) \cup {d}
    BY <1>2 DEF CallGoesTo
  <1> QED BY <1>3, <1>4 DEF Call

-----------------------------------------------------------------------------
(* What becomes of a session the step is not about.                        *)

\* the last message of a queue was the last one of it before
QueueKept(q, p, s, r) ==
  \A i \in DOMAIN p : LastAbout(p, i, s, r) =>
    \E k \in DOMAIN q : LastAbout(q, k, s, r) /\ q[k] = p[i]

\* the step leaves the session as it was, or takes it from a node
Leaves(s) ==
  /\ storedRooms'[s] = storedRooms[s]
  /\ CallsFor(s)' = CallsFor(s)
  /\ \A n \in Nodes :
       /\ s \in present'[n] => /\ s \in present[n] /\ roomsOf'[n][s] = roomsOf[n][s]
                               /\ \A r \in Rooms : NoneAbout(control'[n], s, r)
                                                     => NoneAbout(control[n], s, r)
       /\ \/ connecting'[n][s] = connecting[n][s]
          \/ connecting'[n][s].pc = "idle" /\ s \notin present'[n]
       /\ \A r \in Rooms : /\ QueueKept(control[n], control'[n], s, r)
                           /\ NoneAbout(control[n], s, r) => NoneAbout(control'[n], s, r)
       /\ <<n, s>> \in strayed => <<n, s>> \in strayed'

LEMMA LeavesUnused ==
  ASSUME NEW s, Leaves(s), Unused(s)
  PROVE  Unused(s)'
  BY DEF Leaves, Unused

LEMMA LeavesKept ==
  ASSUME NEW s, Leaves(s), RoomsKept(s)
  PROVE  RoomsKept(s)'
  <1>1. storedRooms'[s] = storedRooms[s] /\ CallsFor(s)' = CallsFor(s)
    BY DEF Leaves
  <1>2. \A r : Rewriting(s, r)' <=> Rewriting(s, r)
    BY <1>1 DEF Rewriting
  <1>3. OneCallOf(s)'
    <2>1. \A n \in Nodes : connecting[n][s].pc = "idle" => connecting'[n][s].pc = "idle"
      BY DEF Leaves
    <2> QED BY <1>1, <2>1 DEF RoomsKept, OneCallOf
  <1>4. ASSUME NEW n \in Nodes PROVE CarriesStored(s, n)'
    <2>1. CarriesStored(s, n)
      BY DEF RoomsKept
    <2>2. CASE connecting'[n][s] = connecting[n][s]
      <3>1. s \in present'[n] => s \in present[n]
        BY DEF Leaves
      <3> QED BY <1>1, <2>1, <2>2, <3>1 DEF CarriesStored
    <2>3. CASE connecting'[n][s].pc = "idle" /\ s \notin present'[n]
      BY <2>3 DEF CarriesStored
    <2> QED BY <2>2, <2>3 DEF Leaves
  <1>5. ASSUME NEW n \in Nodes, NEW r \in Rooms PROVE SaysStored(s, n, r)'
    <2>1. SaysStored(s, n, r)
      BY DEF RoomsKept
    <2>2. /\ QueueKept(control[n], control'[n], s, r)
          /\ <<n, s>> \in strayed => <<n, s>> \in strayed'
      BY DEF Leaves
    <2> QED BY <1>1, <1>2, <2>1, <2>2 DEF SaysStored, QueueKept
  <1>6. ASSUME NEW n \in Nodes, NEW r \in Rooms PROVE IndexedStored(s, n, r)'
    <2>1. IndexedStored(s, n, r)
      BY DEF RoomsKept
    <2>2. CASE s \in present'[n]
      <3>1. /\ s \in present[n] /\ roomsOf'[n][s] = roomsOf[n][s]
            /\ NoneAbout(control'[n], s, r) => NoneAbout(control[n], s, r)
        BY <2>2 DEF Leaves
      <3>2. /\ connecting'[n][s] = connecting[n][s]
            /\ <<n, s>> \in strayed => <<n, s>> \in strayed'
        BY <2>2 DEF Leaves
      <3> QED BY <1>1, <1>2, <2>1, <3>1, <3>2 DEF IndexedStored
    <2>3. CASE s \notin present'[n]
      BY <2>3 DEF IndexedStored
    <2> QED BY <2>2, <2>3
  <1> QED BY <1>3, <1>4, <1>5, <1>6 DEF RoomsKept

\* A step about the sessions of S keeps the invariant when it does for these.
LEMMA OthersKept ==
  ASSUME RoomsInv, NEW S, overlapped \subseteq overlapped', created \subseteq created',
         \A s \in Sessions \ S : Leaves(s),
         \A s \in Sessions \cap S : /\ s \in created' \/ Unused(s)'
                                    /\ s \in overlapped' \/ RoomsKept(s)'
  PROVE  UncreatedIsUnused' /\ \A s \in Sessions \ overlapped' : RoomsKept(s)'
  <1>1. ASSUME NEW s \in Sessions \ created' PROVE Unused(s)'
    <2>1. CASE s \in S
      BY <1>1, <2>1
    <2>2. CASE s \notin S
      <3>1. Leaves(s) /\ Unused(s)
        BY <1>1, <2>2 DEF RoomsInv, UncreatedIsUnused
      <3> QED BY <3>1, LeavesUnused
    <2> QED BY <2>1, <2>2
  <1>2. ASSUME NEW s \in Sessions \ overlapped' PROVE RoomsKept(s)'
    <2>1. CASE s \in S
      BY <1>2, <2>1
    <2>2. CASE s \notin S
      <3>1. Leaves(s) /\ RoomsKept(s)
        BY <1>2, <2>2 DEF RoomsInv
      <3> QED BY <3>1, LeavesKept
    <2> QED BY <2>1, <2>2
  <1> QED BY <1>1, <1>2 DEF UncreatedIsUnused

\* The Maps agree after a session's rooms on a node were replaced.
LEMMA AgreesAfter ==
  ASSUME IndexAgrees, NEW n \in Nodes, NEW s \in Sessions, NEW new, IndexedAs(n, s, new),
         new = {} \/ s \in present'[n],
         \A k \in Nodes, u \in Sessions : ~(k = n /\ u = s) /\ u \in present[k] => u \in present'[k]
  PROVE  IndexAgrees'
  <1> SUFFICES ASSUME NEW k \in Nodes, NEW u \in Sessions, NEW r \in Rooms
               PROVE  /\ r \in roomsOf'[k][u] <=> u \in sessionsIn'[k][r]
                      /\ r \in roomsOf'[k][u] => u \in present'[k]
    BY DEF IndexAgrees
  <1>1. CASE k = n /\ u = s
    BY <1>1 DEF IndexedAs
  <1>2. CASE ~(k = n /\ u = s)
    BY <1>2 DEF IndexedAs, IndexAgrees
  <1> QED BY <1>1, <1>2

LEMMA AgreesStill ==
  ASSUME IndexAgrees, UNCHANGED <<roomsOf, sessionsIn>>,
         \A k \in Nodes : present[k] \subseteq present'[k]
  PROVE  IndexAgrees'
  BY DEF IndexAgrees

-----------------------------------------------------------------------------
(* The steps of a connection.                                              *)

\* What each of them leaves to the sessions of others.
LEMMA ConnectLeaves ==
  ASSUME NEW n \in Nodes, NEW s \in Sessions, UNCHANGED <<roomCalls, control>>,
         \A u \in Sessions \ {s} : storedRooms'[u] = storedRooms[u],
         \A k \in Nodes, u \in Sessions : ~(k = n /\ u = s) =>
           /\ connecting'[k][u] = connecting[k][u] /\ roomsOf'[k][u] = roomsOf[k][u]
           /\ u \in present'[k] <=> u \in present[k]
           /\ <<k, u>> \in strayed' <=> <<k, u>> \in strayed
  PROVE  \A u \in Sessions \ {s} : Leaves(u)
  BY DEF Leaves, CallsFor, QueueKept

\* While a connection of a session is under way no call is, unless they have met.
LEMMA ConnectIsAlone ==
  ASSUME RoomsInv, NEW n \in Nodes, NEW s \in Sessions, connecting[n][s].pc # "idle"
  PROVE  /\ s \in created
         /\ s \notin overlapped => CallsFor(s) = {}
  BY DEF RoomsInv, UncreatedIsUnused, Unused, RoomsKept, OneCallOf

\* A session without calls is as stored when its connections, queues and Maps are.
LEMMA KeptWithoutCalls ==
  ASSUME NEW s, CallsFor(s)' = {}, \A n \in Nodes : CarriesStored(s, n)',
         \A n \in Nodes, r \in Rooms : SaysStored(s, n, r)' /\ IndexedStored(s, n, r)'
  PROVE  RoomsKept(s)'
  BY DEF RoomsKept, OneCallOf

\* The end of a step of a connection that writes no room to the store: a node carries
\* and indexes what is stored.
LEMMA ConnectKeeps ==
  ASSUME RoomsInv, NEW n \in Nodes, NEW s \in Sessions,
         UNCHANGED <<roomCalls, control, storedRooms, created>>,
         s \in created, overlapped \subseteq overlapped',
         s \notin overlapped' => CallsFor(s) = {},
         \A k \in Nodes, u \in Sessions : ~(k = n /\ u = s) =>
           /\ connecting'[k][u] = connecting[k][u] /\ roomsOf'[k][u] = roomsOf[k][u]
           /\ u \in present'[k] <=> u \in present[k]
           /\ <<k, u>> \in strayed' <=> <<k, u>> \in strayed,
         <<n, s>> \notin strayed' => <<n, s>> \notin strayed \/ NoneOnItsWay(n, s),
         s \notin overlapped' =>
           CarriesStored(s, n)' /\ \A r \in Rooms : IndexedStored(s, n, r)'
  PROVE  UncreatedIsUnused' /\ \A u \in Sessions \ overlapped' : RoomsKept(u)'
  <1>1. \A u \in Sessions \ {s} : Leaves(u)
    BY ConnectLeaves
  <1>2. ASSUME s \notin overlapped' PROVE RoomsKept(s)'
    <2>1. RoomsKept(s) /\ CallsFor(s) = {}
      BY <1>2 DEF RoomsInv
    <2>2. CallsFor(s)' = {}
      BY <2>1 DEF CallsFor
    <2>3. ASSUME NEW k \in Nodes PROVE CarriesStored(s, k)'
      <3>1. CASE k = n
        BY <1>2, <3>1
      <3>2. CASE k # n
        <4>1. CarriesStored(s, k)
          BY <2>1 DEF RoomsKept
        <4>2. connecting'[k][s] = connecting[k][s] /\ (s \in present'[k] <=> s \in present[k])
          BY <3>2
        <4> QED BY <4>1, <4>2 DEF CarriesStored
      <3> QED BY <3>1, <3>2
    <2>4. \A r : ~Rewriting(s, r) /\ ~Rewriting(s, r)'
      BY <2>1, <2>2 DEF Rewriting
    <2>5. ASSUME NEW k \in Nodes, NEW r \in Rooms PROVE SaysStored(s, k, r)'
      <3>1. SaysStored(s, k, r)
        BY <2>1 DEF RoomsKept
      <3>2. CASE <<k, s>> \notin strayed
        BY <2>4, <3>1, <3>2 DEF SaysStored
      <3>3. CASE <<k, s>> \in strayed /\ <<k, s>> \notin strayed'
        <4>1. k = n /\ NoneOnItsWay(k, s)
          BY <3>3
        <4>2. \A i \in DOMAIN control[k] : ~LastAbout(control[k], i, s, r)
          BY <4>1 DEF NoneOnItsWay, LastAbout, About
        <4> QED BY <4>2 DEF SaysStored
      <3>4. CASE <<k, s>> \in strayed'
        BY <3>4 DEF SaysStored
      <3> QED BY <3>2, <3>3, <3>4
    <2>6. ASSUME NEW k \in Nodes, NEW r \in Rooms PROVE IndexedStored(s, k, r)'
      <3>1. CASE k = n
        BY <1>2, <3>1
      <3>2. CASE k # n
        <4>1. IndexedStored(s, k, r)
          BY <2>1 DEF RoomsKept
        <4>2. /\ connecting'[k][s] = connecting[k][s] /\ (s \in present'[k] <=> s \in present[k])
              /\ roomsOf'[k][s] = roomsOf[k][s] /\ (<<k, s>> \in strayed' <=> <<k, s>> \in strayed)
          BY <3>2
        <4> QED BY <2>4, <4>1, <4>2 DEF IndexedStored
      <3> QED BY <3>1, <3>2
    <2> QED BY <2>2, <2>3, <2>5, <2>6, KeptWithoutCalls
  <1>3. PICK S : S = {s}
    OBVIOUS
  <1>4. /\ created \subseteq created' /\ \A u \in Sessions \ S : Leaves(u)
        /\ \A u \in Sessions \cap S : u \in created' /\ (u \in overlapped' \/ RoomsKept(u)')
    BY <1>1, <1>2, <1>3
  <1> QED BY <1>4, OthersKept

\* A node has a socket of the session.
LEMMA PresentMoves ==
  ASSUME RoomsTypeOK, NEW n \in Nodes, NEW s \in Sessions,
         present' = [present EXCEPT ![n] = @ \cup {s}]
  PROVE  /\ present' \in [Nodes -> SUBSET Sessions] /\ s \in present'[n]
         /\ \A k \in Nodes : present[k] \subseteq present'[k]
         /\ \A k \in Nodes, u \in Sessions : ~(k = n /\ u = s) => (u \in present'[k] <=> u \in present[k])
  BY DEF RoomsTypeOK

LEMMA UserRoomIsRoom == UserRoom \in Rooms
  BY DEF Rooms

LEMMA CreatedKeeps ==
  ASSUME RoomsInv, NEW n \in Nodes, NEW s \in Sessions, SessionCreated(n, s)
  PROVE  RoomsInv'
  <1>1. /\ s \notin created /\ created' = created \cup {s} /\ ConnectGoesTo(n, s, "mark", {})
        /\ UNCHANGED <<present, storedRooms, roomsOf, sessionsIn, roomCalls, control, overlapped, raced, strayed,
                       callCount, losses>>
    BY DEF SessionCreated
  <1>2. PICK none \in SUBSET Rooms, mark \in ConnectPcs : none = {} /\ mark = "mark"
    BY DEF ConnectPcs
  <1>3. /\ connecting' \in [Nodes -> [Sessions -> [pc: ConnectPcs, rooms: SUBSET Rooms]]]
        /\ connecting'[n][s].pc = "mark"
        /\ \A k \in Nodes, u \in Sessions : ~(k = n /\ u = s) =>
             connecting'[k][u] = connecting[k][u]
    BY <1>1, <1>2, ConnectMoves DEF RoomsInv
  <1>4. RoomsTypeOK'
    BY <1>1, <1>3 DEF RoomsInv, RoomsTypeOK, ConnectPcs
  <1>5. IndexAgrees' /\ ChatRoomsOnly'
    BY <1>1 DEF RoomsInv, IndexAgrees, ChatRoomsOnly
  <1>6. Unused(s)
    BY <1>1 DEF RoomsInv, UncreatedIsUnused
  <1>7. RoomsKept(s)'
    <2>1. CallsFor(s)' = {}
      BY <1>1, <1>6 DEF Unused, CallsFor
    <2>2. ASSUME NEW k \in Nodes PROVE CarriesStored(s, k)'
      <3>1. storedRooms'[s] = {} /\ s \notin present'[k]
        BY <1>1, <1>6 DEF Unused
      <3>2. connecting'[k][s].pc = "mark" \/ connecting'[k][s].pc = "idle"
        BY <1>3, <1>6 DEF Unused
      <3> QED BY <3>1, <3>2 DEF CarriesStored
    <2>3. ASSUME NEW k \in Nodes, NEW r \in Rooms
          PROVE  SaysStored(s, k, r)' /\ IndexedStored(s, k, r)'
      <3>1. NoneAbout(control'[k], s, r) /\ s \notin present'[k]
        BY <1>1, <1>6 DEF Unused
      <3> QED BY <3>1 DEF SaysStored, IndexedStored, NoneAbout, LastAbout
    <2> QED BY <2>1, <2>2, <2>3, KeptWithoutCalls
  <1>8. \A u \in Sessions \ {s} : Leaves(u)
    BY <1>1, <1>3, ConnectLeaves
  <1>9. UncreatedIsUnused' /\ \A u \in Sessions \ overlapped' : RoomsKept(u)'
    BY <1>1, <1>7, <1>8, OthersKept
  <1> QED BY <1>4, <1>5, <1>9 DEF RoomsInv

LEMMA MarkedKeeps ==
  ASSUME RoomsInv, NEW n \in Nodes, NEW s \in Sessions, NewSessionMarked(n, s)
  PROVE  RoomsInv'
  <1>1. /\ connecting[n][s].pc = "mark" /\ present' = [present EXCEPT ![n] = @ \cup {s}]
        /\ ConnectGoesTo(n, s, "replace", {UserRoom})
        /\ UNCHANGED <<created, storedRooms, roomsOf, sessionsIn, roomCalls, control, overlapped, raced, strayed,
                       callCount, losses>>
    BY DEF NewSessionMarked
  <1>2. PICK own \in SUBSET Rooms, replace \in ConnectPcs : own = {UserRoom} /\ replace = "replace"
    BY UserRoomIsRoom DEF ConnectPcs
  <1>3. /\ connecting' \in [Nodes -> [Sessions -> [pc: ConnectPcs, rooms: SUBSET Rooms]]]
        /\ connecting'[n][s].pc = "replace" /\ connecting'[n][s].rooms = {UserRoom}
        /\ \A k \in Nodes, u \in Sessions : ~(k = n /\ u = s) =>
             connecting'[k][u] = connecting[k][u]
    BY <1>1, <1>2, ConnectMoves DEF RoomsInv
  <1>4. /\ present' \in [Nodes -> SUBSET Sessions]
        /\ \A k \in Nodes : present[k] \subseteq present'[k]
        /\ \A k \in Nodes, u \in Sessions : ~(k = n /\ u = s) => (u \in present'[k] <=> u \in present[k])
    BY <1>1, PresentMoves DEF RoomsInv
  <1>5. RoomsTypeOK'
    BY <1>1, <1>3, <1>4 DEF RoomsInv, RoomsTypeOK, ConnectPcs
  <1>6. IndexAgrees' /\ ChatRoomsOnly'
    BY <1>1, <1>4, AgreesStill DEF RoomsInv, ChatRoomsOnly
  <1>7. s \in created /\ (s \notin overlapped => CallsFor(s) = {})
    BY <1>1, ConnectIsAlone
  <1>8. s \notin overlapped' => CarriesStored(s, n)' /\ \A r \in Rooms : IndexedStored(s, n, r)'
    <2> SUFFICES ASSUME s \notin overlapped
                 PROVE  CarriesStored(s, n)' /\ \A r \in Rooms : IndexedStored(s, n, r)'
      BY <1>1
    <2>1. CarriesStored(s, n)
      BY DEF RoomsInv, RoomsKept
    <2>2. storedRooms'[s] \subseteq {UserRoom}
      BY <1>1, <2>1 DEF CarriesStored
    <2> QED BY <1>3, <2>2 DEF CarriesStored, IndexedStored
  <1>9. UncreatedIsUnused' /\ \A u \in Sessions \ overlapped' : RoomsKept(u)'
    <2>1. \A k \in Nodes, u \in Sessions : ~(k = n /\ u = s) =>
            /\ connecting'[k][u] = connecting[k][u] /\ roomsOf'[k][u] = roomsOf[k][u]
            /\ u \in present'[k] <=> u \in present[k]
            /\ <<k, u>> \in strayed' <=> <<k, u>> \in strayed
      BY <1>1, <1>3, <1>4
    <2>2. <<n, s>> \notin strayed' => <<n, s>> \notin strayed \/ NoneOnItsWay(n, s)
      BY <1>1
    <2> QED BY <1>1, <1>3, <1>4, <1>7, <1>8, <2>1, <2>2, ConnectKeeps
  <1> QED BY <1>5, <1>6, <1>9 DEF RoomsInv

LEMMA RestoredKeeps ==
  ASSUME RoomsInv, NEW n \in Nodes, NEW s \in Sessions, SessionRestored(n, s)
  PROVE  RoomsInv'
  <1>1. /\ s \in created /\ present' = [present EXCEPT ![n] = @ \cup {s}]
        /\ ConnectGoesTo(n, s, "read", {}) /\ overlapped' = ConnectMeets(s)
        /\ UNCHANGED <<created, storedRooms, roomsOf, sessionsIn, roomCalls, control, raced, strayed, callCount, losses>>
    BY DEF SessionRestored
  <1>2. PICK none \in SUBSET Rooms, read \in ConnectPcs : none = {} /\ read = "read"
    BY DEF ConnectPcs
  <1>3. /\ connecting' \in [Nodes -> [Sessions -> [pc: ConnectPcs, rooms: SUBSET Rooms]]]
        /\ connecting'[n][s].pc = "read"
        /\ \A k \in Nodes, u \in Sessions : ~(k = n /\ u = s) =>
             connecting'[k][u] = connecting[k][u]
    BY <1>1, <1>2, ConnectMoves DEF RoomsInv
  <1>4. /\ present' \in [Nodes -> SUBSET Sessions]
        /\ \A k \in Nodes : present[k] \subseteq present'[k]
        /\ \A k \in Nodes, u \in Sessions : ~(k = n /\ u = s) => (u \in present'[k] <=> u \in present[k])
    BY <1>1, PresentMoves DEF RoomsInv
  <1>5. /\ overlapped \subseteq overlapped' /\ overlapped' \subseteq overlapped \cup {s}
        /\ s \notin overlapped' => CallsFor(s) = {}
    BY <1>1 DEF ConnectMeets
  <1>6. RoomsTypeOK'
    BY <1>1, <1>3, <1>4, <1>5 DEF RoomsInv, RoomsTypeOK, ConnectPcs
  <1>7. IndexAgrees' /\ ChatRoomsOnly'
    BY <1>1, <1>4, AgreesStill DEF RoomsInv, ChatRoomsOnly
  <1>8. CarriesStored(s, n)' /\ \A r \in Rooms : IndexedStored(s, n, r)'
    BY <1>3 DEF CarriesStored, IndexedStored
  <1>9. UncreatedIsUnused' /\ \A u \in Sessions \ overlapped' : RoomsKept(u)'
    <2>1. \A k \in Nodes, u \in Sessions : ~(k = n /\ u = s) =>
            /\ connecting'[k][u] = connecting[k][u] /\ roomsOf'[k][u] = roomsOf[k][u]
            /\ u \in present'[k] <=> u \in present[k]
            /\ <<k, u>> \in strayed' <=> <<k, u>> \in strayed
      BY <1>1, <1>3, <1>4
    <2>2. <<n, s>> \notin strayed' => <<n, s>> \notin strayed \/ NoneOnItsWay(n, s)
      BY <1>1
    <2> QED BY <1>1, <1>3, <1>4, <1>5, <1>8, <2>1, <2>2, ConnectKeeps
  <1> QED BY <1>6, <1>7, <1>9 DEF RoomsInv

LEMMA ReadKeeps ==
  ASSUME RoomsInv, NEW n \in Nodes, NEW s \in Sessions, RoomsRead(n, s)
  PROVE  RoomsInv'
  <1>1. /\ connecting[n][s].pc = "read" /\ ConnectGoesTo(n, s, "restore", storedRooms[s])
        /\ UNCHANGED <<present, created, storedRooms, roomsOf, sessionsIn, roomCalls, control,
                       overlapped, raced, strayed, callCount, losses>>
    BY DEF RoomsRead
  <1>2. PICK rooms \in SUBSET Rooms, restore \in ConnectPcs :
          rooms = storedRooms[s] /\ restore = "restore"
    BY DEF ConnectPcs, RoomsInv, RoomsTypeOK
  <1>3. /\ connecting' \in [Nodes -> [Sessions -> [pc: ConnectPcs, rooms: SUBSET Rooms]]]
        /\ connecting'[n][s].pc = "restore" /\ connecting'[n][s].rooms = storedRooms[s]
        /\ \A k \in Nodes, u \in Sessions : ~(k = n /\ u = s) =>
             connecting'[k][u] = connecting[k][u]
    BY <1>1, <1>2, ConnectMoves DEF RoomsInv
  <1>4. RoomsTypeOK'
    BY <1>1, <1>3 DEF RoomsInv, RoomsTypeOK, ConnectPcs
  <1>5. IndexAgrees' /\ ChatRoomsOnly'
    BY <1>1 DEF RoomsInv, IndexAgrees, ChatRoomsOnly
  <1>6. s \in created /\ (s \notin overlapped => CallsFor(s) = {})
    BY <1>1, ConnectIsAlone
  <1>7. CarriesStored(s, n)' /\ \A r \in Rooms : IndexedStored(s, n, r)'
    BY <1>1, <1>3 DEF CarriesStored, IndexedStored
  <1>8. UncreatedIsUnused' /\ \A u \in Sessions \ overlapped' : RoomsKept(u)'
    <2>1. \A k \in Nodes, u \in Sessions : ~(k = n /\ u = s) =>
            /\ connecting'[k][u] = connecting[k][u] /\ roomsOf'[k][u] = roomsOf[k][u]
            /\ u \in present'[k] <=> u \in present[k]
            /\ <<k, u>> \in strayed' <=> <<k, u>> \in strayed
      BY <1>1, <1>3
    <2>2. <<n, s>> \notin strayed' => <<n, s>> \notin strayed \/ NoneOnItsWay(n, s)
      BY <1>1
    <2> QED BY <1>1, <1>3, <1>6, <1>7, <2>1, <2>2, ConnectKeeps
  <1> QED BY <1>4, <1>5, <1>8 DEF RoomsInv

\* The two steps that index what a connection carries.
LEMMA SyncedKeeps ==
  ASSUME RoomsInv, NEW n \in Nodes, NEW s \in Sessions, RoomsRestored(n, s) \/ RoomsIndexed(n, s)
  PROVE  RoomsInv'
  <1>1. PICK pc, rooms : pc = connecting[n][s].pc /\ rooms = connecting[n][s].rooms
    OBVIOUS
  <1>2. /\ SyncLocal(n, s, rooms)
        /\ UNCHANGED <<present, created, storedRooms, roomCalls, control, overlapped, raced, callCount, losses>>
        /\ pc \in {"restore", "index"}
        /\ strayed' \subseteq strayed /\ strayed \ {<<n, s>>} \subseteq strayed'
        /\ <<n, s>> \notin strayed' => <<n, s>> \notin strayed \/ NoneOnItsWay(n, s)
    BY <1>1 DEF RoomsRestored, RoomsIndexed
  <1>3. rooms \in SUBSET Rooms
    BY <1>1 DEF RoomsInv, RoomsTypeOK
  <1>4. PICK new : new = IF s \in present[n] THEN rooms ELSE {}
    OBVIOUS
  <1>5. IndexedAs(n, s, new)
    BY <1>2, <1>3, <1>4, SyncMoves DEF RoomsInv
  <1>6. IndexAgrees' /\ ChatRoomsOnly'
    <2>1. new = {} \/ s \in present'[n]
      BY <1>2, <1>4
    <2>2. IndexAgrees'
      BY <1>2, <1>5, <2>1, AgreesAfter DEF RoomsInv
    <2> QED BY <1>2, <2>2 DEF RoomsInv, ChatRoomsOnly
  <1>7. s \in created /\ (s \notin overlapped => CallsFor(s) = {})
    BY <1>1, <1>2, ConnectIsAlone
  <1>8. s \notin overlapped => CarriesStored(s, n)
    BY DEF RoomsInv, RoomsKept
  <1>9. PICK next \in ConnectPcs, carried \in SUBSET Rooms :
          /\ ConnectGoesTo(n, s, next, carried)
          /\ \/ pc = "restore" /\ next = "replace" /\ carried = rooms \cup {UserRoom}
             \/ pc = "index" /\ next = "idle" /\ carried = {}
    <2>1. CASE RoomsRestored(n, s)
      <3>1. PICK carried \in SUBSET Rooms : carried = rooms \cup {UserRoom}
        BY <1>3, UserRoomIsRoom
      <3>2. pc = "restore" /\ ConnectGoesTo(n, s, "replace", carried)
        BY <1>1, <2>1, <3>1 DEF RoomsRestored, RoomsOfSession
      <3> QED BY <3>1, <3>2 DEF ConnectPcs
    <2>2. CASE RoomsIndexed(n, s)
      <3>1. PICK carried \in SUBSET Rooms : carried = {}
        OBVIOUS
      <3>2. pc = "index" /\ ConnectGoesTo(n, s, "idle", carried)
        BY <1>1, <2>2, <3>1 DEF RoomsIndexed
      <3> QED BY <3>1, <3>2 DEF ConnectPcs
    <2> QED BY <2>1, <2>2
  <1>10. /\ connecting' \in [Nodes -> [Sessions -> [pc: ConnectPcs, rooms: SUBSET Rooms]]]
         /\ connecting'[n][s].pc = next /\ connecting'[n][s].rooms = carried
         /\ \A k \in Nodes, u \in Sessions : ~(k = n /\ u = s) =>
              connecting'[k][u] = connecting[k][u]
    BY <1>9, ConnectMoves DEF RoomsInv
  <1>11. RoomsTypeOK'
    BY <1>2, <1>5, <1>10 DEF RoomsInv, RoomsTypeOK, ConnectPcs, IndexedAs
  <1>12. ASSUME s \notin overlapped, pc = "restore"
         PROVE  CarriesStored(s, n)' /\ \A r \in Rooms : IndexedStored(s, n, r)'
    <2>1. next = "replace" /\ carried = rooms \cup {UserRoom}
      BY <1>9, <1>12
    <2>2. rooms \cup {UserRoom} = storedRooms[s] \cup {UserRoom}
      BY <1>1, <1>8, <1>12 DEF CarriesStored
    <2>3. carried \cup {UserRoom} = storedRooms'[s] \cup {UserRoom} /\ UserRoom \in carried
      BY <1>2, <2>1, <2>2
    <2> QED BY <1>10, <2>1, <2>3 DEF CarriesStored, IndexedStored
  <1>13. ASSUME s \notin overlapped, pc = "index"
         PROVE  CarriesStored(s, n)' /\ \A r \in Rooms : IndexedStored(s, n, r)'
    <2>1. next = "idle"
      BY <1>9, <1>13
    <2>2. /\ rooms \cup {UserRoom} = storedRooms[s] \cup {UserRoom}
          /\ UserRoom \in rooms /\ UserRoom \in storedRooms[s]
      BY <1>1, <1>8, <1>13 DEF CarriesStored
    <2>3. rooms = storedRooms'[s] /\ UserRoom \in storedRooms'[s]
      BY <1>2, <2>2
    <2>4. s \in present'[n] => roomsOf'[n][s] = storedRooms'[s]
      BY <1>2, <1>4, <1>5, <2>3 DEF IndexedAs
    <2> QED BY <1>10, <2>1, <2>3, <2>4 DEF CarriesStored, IndexedStored
  <1>14. s \notin overlapped' => CarriesStored(s, n)' /\ \A r \in Rooms : IndexedStored(s, n, r)'
    BY <1>2, <1>12, <1>13
  <1>15. UncreatedIsUnused' /\ \A u \in Sessions \ overlapped' : RoomsKept(u)'
    <2>1. \A k \in Nodes, u \in Sessions : ~(k = n /\ u = s) =>
            /\ connecting'[k][u] = connecting[k][u] /\ roomsOf'[k][u] = roomsOf[k][u]
            /\ u \in present'[k] <=> u \in present[k]
      BY <1>2, <1>5, <1>10 DEF IndexedAs
    <2>2. ASSUME NEW k \in Nodes, NEW u \in Sessions, ~(k = n /\ u = s)
          PROVE  <<k, u>> \in strayed' <=> <<k, u>> \in strayed
      <3>1. <<k, u>> # <<n, s>>
        BY <2>2
      <3> QED BY <1>2, <3>1
    <2> QED BY <1>2, <1>7, <1>14, <2>1, <2>2, ConnectKeeps
  <1> QED BY <1>6, <1>11, <1>15 DEF RoomsInv

\* The connection writes what it read, which is what is stored, and its own room.
LEMMA ReplacedKeeps ==
  ASSUME RoomsInv, NEW n \in Nodes, NEW s \in Sessions, RoomsReplaced(n, s)
  PROVE  RoomsInv'
  <1>1. PICK rooms : rooms = connecting[n][s].rooms
    OBVIOUS
  <1>2. /\ connecting[n][s].pc = "replace"
        /\ storedRooms' = [storedRooms EXCEPT ![s] = rooms]
        /\ ConnectGoesTo(n, s, "index", rooms)
        /\ UNCHANGED <<present, created, roomsOf, sessionsIn, roomCalls, control, overlapped, raced, strayed,
                       callCount, losses>>
    BY <1>1 DEF RoomsReplaced
  <1>3. rooms \in SUBSET Rooms
    BY <1>1 DEF RoomsInv, RoomsTypeOK
  <1>4. PICK index \in ConnectPcs : index = "index"
    BY DEF ConnectPcs
  <1>5. /\ connecting' \in [Nodes -> [Sessions -> [pc: ConnectPcs, rooms: SUBSET Rooms]]]
        /\ connecting'[n][s].pc = "index" /\ connecting'[n][s].rooms = rooms
        /\ \A k \in Nodes, u \in Sessions : ~(k = n /\ u = s) =>
             connecting'[k][u] = connecting[k][u]
    BY <1>2, <1>3, <1>4, ConnectMoves DEF RoomsInv
  <1>6. /\ storedRooms' \in [Sessions -> SUBSET Rooms] /\ storedRooms'[s] = rooms
        /\ \A u \in Sessions : u # s => storedRooms'[u] = storedRooms[u]
    BY <1>2, <1>3 DEF RoomsInv, RoomsTypeOK
  <1>7. RoomsTypeOK'
    BY <1>2, <1>5, <1>6 DEF RoomsInv, RoomsTypeOK, ConnectPcs
  <1>8. IndexAgrees' /\ ChatRoomsOnly'
    BY <1>2 DEF RoomsInv, IndexAgrees, ChatRoomsOnly
  <1>9. s \in created /\ (s \notin overlapped => CallsFor(s) = {})
    BY <1>2, ConnectIsAlone
  <1>10. s \notin overlapped => rooms = storedRooms[s] \cup {UserRoom}
    <2>1. s \notin overlapped => CarriesStored(s, n)
      BY DEF RoomsInv, RoomsKept
    <2>2. s \notin overlapped => /\ rooms \cup {UserRoom} = storedRooms[s] \cup {UserRoom}
                                 /\ UserRoom \in rooms
      BY <1>1, <1>2, <2>1 DEF CarriesStored
    <2> QED BY <1>6, <2>2
  <1>11. ASSUME s \notin overlapped PROVE RoomsKept(s)'
    <2>1. RoomsKept(s) /\ CallsFor(s) = {}
      BY <1>9, <1>11 DEF RoomsInv
    <2>2. CallsFor(s)' = {}
      BY <1>2, <2>1 DEF CallsFor
    <2>3. /\ storedRooms'[s] = storedRooms[s] \cup {UserRoom} /\ rooms = storedRooms'[s]
          /\ UserRoom \in storedRooms'[s]
      BY <1>6, <1>10, <1>11
    <2>4. ASSUME NEW k \in Nodes PROVE CarriesStored(s, k)'
      <3>1. CASE k = n
        BY <1>5, <2>3, <3>1 DEF CarriesStored
      <3>2. CASE k # n
        <4>1. CarriesStored(s, k) /\ connecting'[k][s] = connecting[k][s]
          BY <1>5, <2>1, <3>2 DEF RoomsKept
        <4>2. storedRooms'[s] \cup {UserRoom} = storedRooms[s] \cup {UserRoom}
          BY <2>3
        <4> QED BY <2>3, <4>1, <4>2 DEF CarriesStored
      <3> QED BY <3>1, <3>2
    <2>5. \A r : ~Rewriting(s, r) /\ ~Rewriting(s, r)'
      BY <2>1, <2>2 DEF Rewriting
    <2>6. ASSUME NEW k \in Nodes, NEW r \in Rooms PROVE SaysStored(s, k, r)'
      <3>1. SaysStored(s, k, r) /\ control' = control
        BY <1>2, <2>1 DEF RoomsKept
      <3>2. CASE r = UserRoom
        <4>1. \A i \in DOMAIN control[k] : ~LastAbout(control[k], i, s, r)
          BY <3>2 DEF RoomsInv, ChatRoomsOnly, LastAbout, About
        <4> QED BY <3>1, <4>1 DEF SaysStored
      <3>3. CASE r # UserRoom
        <4>1. r \in storedRooms'[s] <=> r \in storedRooms[s]
          BY <2>3, <3>3
        <4> QED BY <1>2, <2>5, <3>1, <4>1 DEF SaysStored
      <3> QED BY <3>2, <3>3
    <2>7. ASSUME NEW k \in Nodes, NEW r \in Rooms PROVE IndexedStored(s, k, r)'
      <3>1. CASE k = n
        BY <1>5, <3>1 DEF IndexedStored
      <3>2. CASE k # n
        <4>1. IndexedStored(s, k, r) /\ CarriesStored(s, k) /\ connecting'[k][s] = connecting[k][s]
          BY <1>5, <2>1, <3>2 DEF RoomsKept
        <4>2. CASE s \in present[k] /\ connecting[k][s].pc = "idle"
          <5>1. storedRooms'[s] = storedRooms[s]
            BY <2>3, <4>1, <4>2 DEF CarriesStored
          <5> QED BY <1>2, <2>5, <4>1, <5>1 DEF IndexedStored
        <4>3. CASE ~(s \in present[k] /\ connecting[k][s].pc = "idle")
          BY <1>2, <4>1, <4>3 DEF IndexedStored
        <4> QED BY <4>2, <4>3
      <3> QED BY <3>1, <3>2
    <2> QED BY <2>2, <2>4, <2>6, <2>7, KeptWithoutCalls
  <1>12. UncreatedIsUnused' /\ \A u \in Sessions \ overlapped' : RoomsKept(u)'
    <2>1. \A u \in Sessions \ {s} : Leaves(u)
      BY <1>2, <1>5, <1>6, ConnectLeaves
    <2>2. PICK S : S = {s}
      OBVIOUS
    <2>3. /\ created \subseteq created' /\ overlapped \subseteq overlapped'
          /\ \A u \in Sessions \ S : Leaves(u)
          /\ \A u \in Sessions \cap S : u \in created' /\ (u \in overlapped' \/ RoomsKept(u)')
      BY <1>2, <1>9, <1>11, <2>1, <2>2
    <2> QED BY <2>3, OthersKept
  <1> QED BY <1>7, <1>8, <1>12 DEF RoomsInv

LEMMA SocketGoneKeeps ==
  ASSUME RoomsInv, NEW n \in Nodes, NEW s \in Sessions, LastSocketGone(n, s)
  PROVE  RoomsInv'
  <1>1. /\ present' = [present EXCEPT ![n] = @ \ {s}] /\ ClearLocal(n, s)
        /\ UNCHANGED <<created, storedRooms, connecting, roomCalls, control, overlapped, raced, strayed,
                       callCount, losses>>
    BY DEF LastSocketGone
  <1>2. PICK new : new = {}
    OBVIOUS
  <1>3. IndexedAs(n, s, new)
    BY <1>1, <1>2, ClearMoves DEF RoomsInv
  <1>4. /\ present' \in [Nodes -> SUBSET Sessions] /\ s \notin present'[n]
        /\ \A k \in Nodes, u \in Sessions : ~(k = n /\ u = s) => (u \in present'[k] <=> u \in present[k])
    BY <1>1 DEF RoomsInv, RoomsTypeOK
  <1>5. RoomsTypeOK'
    BY <1>1, <1>3, <1>4 DEF RoomsInv, RoomsTypeOK, IndexedAs
  <1>6. IndexAgrees' /\ ChatRoomsOnly'
    <2>1. IndexAgrees'
      BY <1>2, <1>3, <1>4, AgreesAfter DEF RoomsInv
    <2> QED BY <1>1, <2>1 DEF RoomsInv, ChatRoomsOnly
  <1>7. ASSUME NEW u \in Sessions PROVE Leaves(u)
    <2>1. \A k \in Nodes : u \in present'[k] => u \in present[k] /\ roomsOf'[k][u] = roomsOf[k][u]
      BY <1>3, <1>4 DEF IndexedAs
    <2> QED BY <1>1, <2>1 DEF Leaves, CallsFor, QueueKept
  <1>8. UncreatedIsUnused' /\ \A u \in Sessions \ overlapped' : RoomsKept(u)'
    <2>1. PICK S : S = {}
      OBVIOUS
    <2> QED BY <1>1, <1>7, <2>1, OthersKept
  <1> QED BY <1>5, <1>6, <1>8 DEF RoomsInv

-----------------------------------------------------------------------------
(* The steps of a call.                                                    *)

LEMMA CallKeeps ==
  ASSUME RoomsInv, NEW n \in Nodes, NEW m \in Control, RoomCall(n, m)
  PROVE  RoomsInv'
  <1>1. PICK c : c = [node |-> n, message |-> m, pc |-> "store"]
    OBVIOUS
  <1>2. c \in Call /\ c.message = m /\ c.pc = "store"
    BY <1>1 DEF Call
  <1>3. PICK s \in Sessions : s = m.session
    BY DEF Control
  <1>4. /\ callCount < MaxRoomCalls /\ s \in created /\ m.room \in ChatRooms
        /\ callCount' = callCount + 1 /\ roomCalls' = roomCalls \cup {c}
        /\ UNCHANGED <<present, created, storedRooms, roomsOf, sessionsIn, connecting, control, raced, strayed, losses>>
    BY <1>1, <1>3 DEF RoomCall
  <1>5. overlapped' = IF Connecting(s) \/ CallsFor(s) # {} THEN overlapped \cup {s} ELSE overlapped
    BY <1>3 DEF RoomCall
  <1>6. RoomsTypeOK'
    <2>1. callCount' \in 0..MaxRoomCalls
      BY <1>4, RoomBoundsAssumption DEF RoomsInv, RoomsTypeOK
    <2> QED BY <1>2, <1>4, <1>5, <2>1 DEF RoomsInv, RoomsTypeOK
  <1>7. IndexAgrees' /\ ChatRoomsOnly'
    BY <1>2, <1>4, RoomsAssumption DEF RoomsInv, IndexAgrees, ChatRoomsOnly
  <1>8. /\ CallsFor(s)' = CallsFor(s) \cup {c}
        /\ \A u \in Sessions \ {s} : CallsFor(u)' = CallsFor(u)
    BY <1>2, <1>3, <1>4 DEF CallsFor
  <1>9. ASSUME s \notin overlapped' PROVE RoomsKept(s)'
    <2>1. /\ s \notin overlapped /\ CallsFor(s) = {}
          /\ \A k \in Nodes : connecting[k][s].pc = "idle"
      BY <1>5, <1>9 DEF Connecting
    <2>2. RoomsKept(s) /\ CallsFor(s)' = {c}
      BY <1>8, <2>1 DEF RoomsInv
    <2>3. OneCallOf(s)'
      BY <1>2, <1>4, <2>1, <2>2 DEF OneCallOf
    <2>4. \A r : ~Rewriting(s, r) /\ ~Rewriting(s, r)'
      BY <1>2, <2>1, <2>2 DEF Rewriting
    <2>5. ASSUME NEW k \in Nodes PROVE CarriesStored(s, k)'
      BY <1>4, <2>2 DEF RoomsKept, CarriesStored
    <2>6. ASSUME NEW k \in Nodes, NEW r \in Rooms
          PROVE  SaysStored(s, k, r)' /\ IndexedStored(s, k, r)'
      <3>1. SaysStored(s, k, r) /\ IndexedStored(s, k, r)
        BY <2>2 DEF RoomsKept
      <3> QED BY <1>4, <2>4, <3>1 DEF SaysStored, IndexedStored
    <2> QED BY <2>3, <2>5, <2>6 DEF RoomsKept
  <1>10. UncreatedIsUnused' /\ \A u \in Sessions \ overlapped' : RoomsKept(u)'
    <2>1. \A u \in Sessions \ {s} : Leaves(u)
      BY <1>4, <1>8 DEF Leaves, QueueKept
    <2>2. PICK S : S = {s}
      OBVIOUS
    <2>3. /\ created \subseteq created' /\ overlapped \subseteq overlapped'
          /\ \A u \in Sessions \ S : Leaves(u)
          /\ \A u \in Sessions \cap S : u \in created' /\ (u \in overlapped' \/ RoomsKept(u)')
      BY <1>4, <1>5, <1>9, <2>1, <2>2
    <2> QED BY <2>3, OthersKept
  <1> QED BY <1>6, <1>7, <1>10 DEF RoomsInv

\* What a call under way is, and what there is besides it.
LEMMA CallIsKnown ==
  ASSUME RoomsInv, NEW c \in roomCalls
  PROVE  /\ c.message \in Control /\ c.node \in Nodes /\ c.message.room # UserRoom
         /\ c.message.session \in Sessions /\ c.message.room \in Rooms
         /\ c.message.action \in {"join", "leave"}
         /\ c.message.session \in created
         /\ c.message.session \notin overlapped =>
              /\ CallsFor(c.message.session) = {c} /\ RoomsKept(c.message.session)
              /\ \A n \in Nodes : connecting[n][c.message.session].pc = "idle"
  <1>1. /\ c.message \in Control /\ c.node \in Nodes /\ c.message.room # UserRoom
        /\ c.message.session \in Sessions /\ c.message.room \in Rooms
        /\ c.message.action \in {"join", "leave"}
    BY DEF RoomsInv, RoomsTypeOK, Call, Control, ChatRoomsOnly
  <1>2. PICK s \in Sessions : s = c.message.session
    BY <1>1
  <1>3. c \in CallsFor(s)
    BY <1>2 DEF CallsFor
  <1>4. s \in created
    BY <1>3 DEF RoomsInv, UncreatedIsUnused, Unused
  <1>5. ASSUME s \notin overlapped
        PROVE  /\ CallsFor(s) = {c} /\ RoomsKept(s)
               /\ \A n \in Nodes : connecting[n][s].pc = "idle"
    <2>1. RoomsKept(s)
      BY <1>5 DEF RoomsInv
    <2> QED BY <1>3, <2>1 DEF RoomsKept, OneCallOf
  <1> QED BY <1>1, <1>2, <1>4, <1>5

\* The set in the store gains or loses the room.
LEMMA StoredKeeps ==
  ASSUME RoomsInv, NEW c, CallStored(c)
  PROVE  /\ RoomsInv'
         /\ \A u \in Sessions : \A r \in storedRooms[u] \ storedRooms'[u] :
              \E d \in CallsFor(u) : d.message.action = "leave" /\ d.message.room = r
  <1>1. /\ c \in roomCalls /\ c.pc = "store" /\ CallGoesTo(c, "index")
        /\ UNCHANGED <<present, created, roomsOf, sessionsIn, connecting, control, overlapped, strayed,
                       callCount, losses>>
    BY DEF CallStored
  <1>2. PICK m, s, r0 : m = c.message /\ s = m.session /\ r0 = m.room
    OBVIOUS
  <1>3. /\ m \in Control /\ s \in Sessions /\ r0 \in Rooms /\ r0 # UserRoom /\ s \in created
        /\ m.action \in {"join", "leave"}
        /\ s \notin overlapped => /\ CallsFor(s) = {c} /\ RoomsKept(s)
                                  /\ \A n \in Nodes : connecting[n][s].pc = "idle"
    BY <1>1, <1>2, CallIsKnown
  <1>4. PICK new \in SUBSET Rooms :
          new = IF m.action = "join" THEN storedRooms[s] \cup {r0} ELSE storedRooms[s] \ {r0}
    BY <1>3 DEF RoomsInv, RoomsTypeOK
  <1>5. storedRooms' = [storedRooms EXCEPT ![s] = new]
    BY <1>2, <1>4 DEF CallStored
  <1>6. /\ storedRooms' \in [Sessions -> SUBSET Rooms] /\ storedRooms'[s] = new
        /\ \A u \in Sessions : u # s => storedRooms'[u] = storedRooms[u]
    BY <1>3, <1>4, <1>5 DEF RoomsInv, RoomsTypeOK
  <1>7. PICK d \in Call : d.message = m /\ d.pc = "index" /\ roomCalls' = (roomCalls \ {c}) \cup {d}
    BY <1>1, <1>2, CallMoves DEF RoomsInv
  <1>8. RoomsTypeOK'
    <2>1. raced' \subseteq Sessions
      BY <1>2, <1>3 DEF CallStored, RoomsInv, RoomsTypeOK
    <2> QED BY <1>1, <1>6, <1>7, <2>1 DEF RoomsInv, RoomsTypeOK
  <1>9. IndexAgrees' /\ ChatRoomsOnly'
    BY <1>1, <1>2, <1>3, <1>7 DEF RoomsInv, IndexAgrees, ChatRoomsOnly
  <1>10. /\ CallsFor(s)' = (CallsFor(s) \ {c}) \cup {d}
         /\ \A u \in Sessions \ {s} : CallsFor(u)' = CallsFor(u)
    BY <1>2, <1>7 DEF CallsFor
  <1>11. ASSUME s \notin overlapped PROVE RoomsKept(s)'
    <2>1. /\ CallsFor(s) = {c} /\ CallsFor(s)' = {d} /\ RoomsKept(s)
          /\ \A n \in Nodes : connecting[n][s].pc = "idle"
      BY <1>3, <1>10, <1>11
    <2>2. m.action = "join" <=> r0 \in storedRooms'[s]
      BY <1>3, <1>4, <1>6
    <2>3. OneCallOf(s)'
      BY <1>1, <1>2, <1>7, <2>1, <2>2 DEF OneCallOf
    <2>4. UserRoom \in storedRooms[s] => UserRoom \in storedRooms'[s]
      BY <1>3, <1>4, <1>6
    <2>5. ASSUME NEW k \in Nodes PROVE CarriesStored(s, k)'
      <3>1. CarriesStored(s, k) /\ connecting'[k][s].pc = "idle" /\ connecting[k][s].pc = "idle"
        BY <1>1, <2>1 DEF RoomsKept
      <3> QED BY <1>1, <2>4, <3>1 DEF CarriesStored
    <2>6. /\ \A r : ~Rewriting(s, r)
          /\ Rewriting(s, r0)'
      BY <1>1, <1>2, <1>7, <2>1 DEF Rewriting
    <2>7. ASSUME NEW k \in Nodes, NEW r \in Rooms
          PROVE  SaysStored(s, k, r)' /\ IndexedStored(s, k, r)'
      <3>1. CASE r = r0
        BY <2>6, <3>1 DEF SaysStored, IndexedStored
      <3>2. CASE r # r0
        <4>1. SaysStored(s, k, r) /\ IndexedStored(s, k, r)
          BY <2>1 DEF RoomsKept
        <4>2. r \in storedRooms'[s] <=> r \in storedRooms[s]
          BY <1>4, <1>6, <3>2
        <4> QED BY <1>1, <2>6, <4>1, <4>2 DEF SaysStored, IndexedStored
      <3> QED BY <3>1, <3>2
    <2> QED BY <2>3, <2>5, <2>7 DEF RoomsKept
  <1>12. UncreatedIsUnused' /\ \A u \in Sessions \ overlapped' : RoomsKept(u)'
    <2>1. \A u \in Sessions \ {s} : Leaves(u)
      BY <1>1, <1>6, <1>10 DEF Leaves, QueueKept
    <2>2. PICK S : S = {s}
      OBVIOUS
    <2>3. /\ created \subseteq created' /\ overlapped \subseteq overlapped'
          /\ \A u \in Sessions \ S : Leaves(u)
          /\ \A u \in Sessions \cap S : u \in created' /\ (u \in overlapped' \/ RoomsKept(u)')
      BY <1>1, <1>3, <1>11, <2>1, <2>2
    <2> QED BY <2>3, OthersKept
  <1>13. ASSUME NEW u \in Sessions, NEW r \in storedRooms[u] \ storedRooms'[u]
         PROVE  \E x \in CallsFor(u) : x.message.action = "leave" /\ x.message.room = r
    <2>1. u = s /\ r = r0 /\ m.action = "leave"
      BY <1>3, <1>4, <1>6, <1>13
    <2>2. c \in CallsFor(u)
      BY <1>1, <1>2, <2>1 DEF CallsFor
    <2> QED BY <1>2, <2>1, <2>2
  <1> QED BY <1>8, <1>9, <1>12, <1>13 DEF RoomsInv

\* What a message does to the index of a node.
LEMMA MembershipKeeps ==
  ASSUME RoomsTypeOK, IndexAgrees, NEW n \in Nodes, NEW m \in Control, MembershipMoves(n, m)
  PROVE  \E new \in SUBSET Rooms :
           /\ IndexedAs(n, m.session, new)
           /\ new = {} \/ m.session \in present[n]
           /\ \A r \in Rooms : r # m.room => (r \in new <=> r \in roomsOf[n][m.session])
           /\ m.session \in present[n] => (m.room \in new <=> m.action = "join")
  <1>1. PICK s, r0 : s = m.session /\ r0 = m.room
    OBVIOUS
  <1>2. s \in Sessions /\ r0 \in Rooms /\ m.action \in {"join", "leave"}
    BY <1>1 DEF Control
  <1>3. PICK old \in SUBSET Rooms : old = roomsOf[n][s]
    BY <1>2 DEF RoomsTypeOK
  <1>4. old = {} \/ s \in present[n]
    BY <1>2, <1>3 DEF IndexAgrees
  <1>5. CASE m.action = "join"
    <2>1. AddLocal(n, s, r0)
      BY <1>1, <1>5 DEF MembershipMoves
    <2>2. PICK new : new = IF s \in present[n] THEN old \cup {r0} ELSE old
      OBVIOUS
    <2>3. IndexedAs(n, s, new)
      BY <1>2, <1>3, <2>1, <2>2, AddMoves
    <2> QED BY <1>1, <1>2, <1>3, <1>4, <1>5, <2>2, <2>3
  <1>6. CASE m.action = "leave"
    <2>1. RemoveLocal(n, s, r0)
      BY <1>1, <1>6 DEF MembershipMoves
    <2>2. PICK new : new = old \ {r0}
      OBVIOUS
    <2>3. IndexedAs(n, s, new)
      BY <1>2, <1>3, <2>1, <2>2, RemoveMoves
    <2> QED BY <1>1, <1>2, <1>3, <1>4, <1>6, <2>2, <2>3
  <1> QED BY <1>2, <1>5, <1>6

LEMMA CallIndexedKeeps ==
  ASSUME RoomsInv, NEW c, CallIndexed(c)
  PROVE  RoomsInv'
  <1>1. /\ c \in roomCalls /\ c.pc = "index" /\ CallGoesTo(c, "publish")
        /\ MembershipMoves(c.node, c.message)
        /\ UNCHANGED <<present, created, storedRooms, connecting, control, overlapped, raced, strayed,
                       callCount, losses>>
    BY DEF CallIndexed
  <1>2. PICK n, m, s, r0 : n = c.node /\ m = c.message /\ s = m.session /\ r0 = m.room
    OBVIOUS
  <1>3. /\ n \in Nodes /\ m \in Control /\ s \in Sessions /\ r0 \in Rooms /\ r0 # UserRoom
        /\ s \in created
        /\ s \notin overlapped => CallsFor(s) = {c} /\ RoomsKept(s)
    BY <1>1, <1>2, CallIsKnown
  <1>4. PICK new \in SUBSET Rooms :
          /\ IndexedAs(n, s, new)
          /\ new = {} \/ s \in present[n]
          /\ \A r \in Rooms : r # r0 => (r \in new <=> r \in roomsOf[n][s])
    <2>1. MembershipMoves(n, m)
      BY <1>1, <1>2
    <2> QED BY <1>2, <1>3, <2>1, MembershipKeeps DEF RoomsInv
  <1>5. PICK d \in Call : d.message = m /\ d.pc = "publish" /\ roomCalls' = (roomCalls \ {c}) \cup {d}
    BY <1>1, <1>2, CallMoves DEF RoomsInv
  <1>6. RoomsTypeOK'
    BY <1>1, <1>4, <1>5 DEF RoomsInv, RoomsTypeOK, IndexedAs
  <1>7. IndexAgrees' /\ ChatRoomsOnly'
    <2>1. IndexAgrees'
      BY <1>1, <1>3, <1>4, AgreesAfter DEF RoomsInv
    <2> QED BY <1>1, <1>2, <1>3, <1>5, <2>1 DEF RoomsInv, ChatRoomsOnly
  <1>8. /\ CallsFor(s)' = (CallsFor(s) \ {c}) \cup {d}
        /\ \A u \in Sessions \ {s} : CallsFor(u)' = CallsFor(u)
    BY <1>2, <1>5 DEF CallsFor
  <1>9. ASSUME s \notin overlapped PROVE RoomsKept(s)'
    <2>1. CallsFor(s) = {c} /\ CallsFor(s)' = {d} /\ RoomsKept(s)
      BY <1>3, <1>8, <1>9
    <2>2. OneCallOf(s)'
      BY <1>1, <1>2, <1>5, <2>1 DEF RoomsKept, OneCallOf
    <2>3. ASSUME NEW k \in Nodes PROVE CarriesStored(s, k)'
      BY <1>1, <2>1 DEF RoomsKept, CarriesStored
    <2>4. \A r : (Rewriting(s, r) <=> r = r0) /\ (Rewriting(s, r)' <=> r = r0)
      BY <1>1, <1>2, <1>5, <2>1 DEF Rewriting
    <2>5. ASSUME NEW k \in Nodes, NEW r \in Rooms
          PROVE  SaysStored(s, k, r)' /\ IndexedStored(s, k, r)'
      <3>1. CASE r = r0
        BY <2>4, <3>1 DEF SaysStored, IndexedStored
      <3>2. CASE r # r0
        <4>1. SaysStored(s, k, r) /\ IndexedStored(s, k, r)
          BY <2>1 DEF RoomsKept
        <4>2. r \in roomsOf'[k][s] <=> r \in roomsOf[k][s]
          BY <1>3, <1>4, <3>2 DEF IndexedAs
        <4> QED BY <1>1, <2>4, <3>2, <4>1, <4>2 DEF SaysStored, IndexedStored
      <3> QED BY <3>1, <3>2
    <2> QED BY <2>2, <2>3, <2>5 DEF RoomsKept
  <1>10. UncreatedIsUnused' /\ \A u \in Sessions \ overlapped' : RoomsKept(u)'
    <2>1. \A u \in Sessions \ {s} : Leaves(u)
      BY <1>1, <1>4, <1>8 DEF Leaves, QueueKept, IndexedAs
    <2>2. PICK S : S = {s}
      OBVIOUS
    <2>3. /\ created \subseteq created' /\ overlapped \subseteq overlapped'
          /\ \A u \in Sessions \ S : Leaves(u)
          /\ \A u \in Sessions \cap S : u \in created' /\ (u \in overlapped' \/ RoomsKept(u)')
      BY <1>1, <1>3, <1>9, <2>1, <2>2
    <2> QED BY <2>3, OthersKept
  <1> QED BY <1>6, <1>7, <1>10 DEF RoomsInv

\* The message goes to the queue of every node: from here on it is the last one that
\* says what is stored.
LEMMA PublishedKeeps ==
  ASSUME RoomsInv, NEW c, CallPublished(c)
  PROVE  RoomsInv'
  <1>1. /\ c \in roomCalls /\ c.pc = "publish" /\ roomCalls' = roomCalls \ {c}
        /\ UNCHANGED <<present, created, storedRooms, roomsOf, sessionsIn, connecting, overlapped, raced, strayed,
                       callCount, losses>>
    BY DEF CallPublished
  <1>2. PICK m, s, r0 : m = c.message /\ s = m.session /\ r0 = m.room
    OBVIOUS
  <1>3. /\ m \in Control /\ s \in Sessions /\ r0 \in Rooms /\ r0 # UserRoom /\ s \in created
        /\ s \notin overlapped => /\ CallsFor(s) = {c} /\ RoomsKept(s)
                                  /\ \A n \in Nodes : connecting[n][s].pc = "idle"
    BY <1>1, <1>2, CallIsKnown
  <1>4. control' = [n \in Nodes |-> Append(control[n], m)]
    BY <1>2 DEF CallPublished, Subscribers
  <1>5. \A n \in Nodes : control[n] \in Seq(Control) /\ control'[n] = Append(control[n], m)
    BY <1>4 DEF RoomsInv, RoomsTypeOK
  <1>6. ASSUME NEW n \in Nodes, NEW u, NEW r
        PROVE  /\ control'[n] \in Seq(Control)
               /\ ~About(m, u, r) => NoneAbout(control'[n], u, r) = NoneAbout(control[n], u, r)
               /\ ~About(m, u, r) => \A i \in DOMAIN control'[n] : LastAbout(control'[n], i, u, r) =>
                    /\ i \in DOMAIN control[n] /\ LastAbout(control[n], i, u, r)
                    /\ control'[n][i] = control[n][i]
               /\ About(m, u, r) => ~NoneAbout(control'[n], u, r)
               /\ About(m, u, r) => \A i \in DOMAIN control'[n] :
                    LastAbout(control'[n], i, u, r) => control'[n][i] = m
    <2>1. PICK q, p : q = control[n] /\ p = control'[n]
      OBVIOUS
    <2>2. q \in Seq(Control) /\ p = Append(q, m)
      BY <1>5, <2>1
    <2>3. QueueGrows(q, p, m, u, r)
      BY <1>3, <2>2, Appended
    <2> QED BY <2>1, <2>3 DEF QueueGrows
  <1>7. RoomsTypeOK'
    <2>1. control' \in [Nodes -> Seq(Control)]
      BY <1>4, <1>6
    <2> QED BY <1>1, <2>1 DEF RoomsInv, RoomsTypeOK
  <1>8. IndexAgrees' /\ ChatRoomsOnly'
    <2>1. ASSUME NEW n \in Nodes, NEW i \in DOMAIN control'[n]
          PROVE  control'[n][i].room # UserRoom
      <3>1. \/ i \in DOMAIN control[n] /\ control'[n][i] = control[n][i]
            \/ control'[n][i] = m
        BY <1>5, <1>3
      <3> QED BY <1>2, <1>3, <3>1 DEF RoomsInv, ChatRoomsOnly
    <2> QED BY <1>1, <2>1 DEF RoomsInv, IndexAgrees, ChatRoomsOnly
  <1>9. /\ CallsFor(s)' = CallsFor(s) \ {c}
        /\ \A u \in Sessions \ {s} : CallsFor(u)' = CallsFor(u)
    BY <1>1, <1>2 DEF CallsFor
  <1>10. ASSUME s \notin overlapped PROVE RoomsKept(s)'
    <2>1. /\ CallsFor(s) = {c} /\ CallsFor(s)' = {} /\ RoomsKept(s)
          /\ \A n \in Nodes : connecting[n][s].pc = "idle"
      BY <1>3, <1>9, <1>10
    <2>2. ASSUME NEW k \in Nodes PROVE CarriesStored(s, k)'
      BY <1>1, <2>1 DEF RoomsKept, CarriesStored
    <2>3. \A r : (Rewriting(s, r) <=> r = r0) /\ ~Rewriting(s, r)'
      BY <1>1, <1>2, <2>1 DEF Rewriting
    <2>4. m.action = "join" <=> r0 \in storedRooms[s]
      BY <1>1, <1>2, <2>1 DEF RoomsKept, OneCallOf
    <2>5. ASSUME NEW k \in Nodes, NEW r \in Rooms
          PROVE  SaysStored(s, k, r)' /\ IndexedStored(s, k, r)'
      <3>1. CASE r = r0
        <4>1. About(m, s, r)
          BY <1>2, <3>1 DEF About
        <4>2. /\ ~NoneAbout(control'[k], s, r)
              /\ \A i \in DOMAIN control'[k] : LastAbout(control'[k], i, s, r) => control'[k][i] = m
          BY <1>6, <4>1
        <4> QED BY <1>1, <2>4, <3>1, <4>2 DEF SaysStored, IndexedStored
      <3>2. CASE r # r0
        <4>1. ~About(m, s, r)
          BY <1>2, <3>2 DEF About
        <4>2. /\ NoneAbout(control'[k], s, r) = NoneAbout(control[k], s, r)
              /\ \A i \in DOMAIN control'[k] : LastAbout(control'[k], i, s, r) =>
                   /\ i \in DOMAIN control[k] /\ LastAbout(control[k], i, s, r)
                   /\ control'[k][i] = control[k][i]
          BY <1>6, <4>1
        <4>3. SaysStored(s, k, r) /\ IndexedStored(s, k, r)
          BY <2>1 DEF RoomsKept
        <4> QED BY <1>1, <2>3, <3>2, <4>2, <4>3 DEF SaysStored, IndexedStored
      <3> QED BY <3>1, <3>2
    <2> QED BY <2>1, <2>2, <2>5, KeptWithoutCalls
  <1>11. ASSUME NEW u \in Sessions \ {s} PROVE Leaves(u)
    <2>1. \A r : ~About(m, u, r)
      BY <1>2, <1>11 DEF About
    <2>2. ASSUME NEW k \in Nodes, NEW r \in Rooms
          PROVE  /\ QueueKept(control[k], control'[k], u, r)
                 /\ NoneAbout(control'[k], u, r) <=> NoneAbout(control[k], u, r)
      BY <1>6, <2>1 DEF QueueKept
    <2> QED BY <1>1, <1>9, <2>2 DEF Leaves
  <1>12. UncreatedIsUnused' /\ \A u \in Sessions \ overlapped' : RoomsKept(u)'
    <2>1. PICK S : S = {s}
      OBVIOUS
    <2>2. /\ created \subseteq created' /\ overlapped \subseteq overlapped'
          /\ \A u \in Sessions \ S : Leaves(u)
          /\ \A u \in Sessions \cap S : u \in created' /\ (u \in overlapped' \/ RoomsKept(u)')
      BY <1>1, <1>3, <1>10, <1>11, <2>1
    <2> QED BY <2>2, OthersKept
  <1> QED BY <1>7, <1>8, <1>12 DEF RoomsInv

-----------------------------------------------------------------------------
(* The steps of a node.                                                    *)

\* What is left of a node's queue when its first message is taken.
LEMMA QueueTaken ==
  ASSUME RoomsInv, NEW n \in Nodes, control[n] # <<>>,
         control' = [control EXCEPT ![n] = Tail(@)]
  PROVE  /\ control' \in [Nodes -> Seq(Control)] /\ Head(control[n]) \in Control
         /\ Head(control[n]).session \in created
         /\ Head(control[n]).session \in Sessions /\ Head(control[n]).room \in Rooms
         /\ Head(control[n]).action \in {"join", "leave"}
         /\ ChatRoomsOnly /\ \A k \in Nodes : \A i \in DOMAIN control'[k] : control'[k][i].room # UserRoom
         /\ 1 \in DOMAIN control[n] /\ control[n][1] = Head(control[n])
         /\ \A k \in Nodes : k # n => control'[k] = control[k]
         /\ \A k \in Nodes : \A s, r :
              /\ QueueKept(control[k], control'[k], s, r)
              /\ NoneAbout(control[k], s, r) => NoneAbout(control'[k], s, r)
         /\ \A s, r :
              /\ NoneAbout(control'[n], s, r) /\ About(Head(control[n]), s, r)
                   => LastAbout(control[n], 1, s, r)
              /\ NoneAbout(control'[n], s, r) /\ ~About(Head(control[n]), s, r)
                   => NoneAbout(control[n], s, r)
  <1>1. PICK q, p, m : q = control[n] /\ p = Tail(q) /\ m = Head(q)
    OBVIOUS
  <1>2. control \in [Nodes -> Seq(Control)]
    BY DEF RoomsInv, RoomsTypeOK
  <1>3. q \in Seq(Control) /\ q # <<>>
    BY <1>1, <1>2
  <1>4. \A s, r : QueueShrinks(q, p, m, s, r)
    BY <1>1, <1>3, Taken
  <1>5. p \in Seq(Control) /\ m \in Control /\ 1 \in DOMAIN q /\ q[1] = m
    BY <1>4 DEF QueueShrinks
  <1>6. /\ control' \in [Nodes -> Seq(Control)] /\ control'[n] = p
        /\ \A k \in Nodes : k # n => control'[k] = control[k]
    BY <1>1, <1>2, <1>5
  <1>7. m.session \in Sessions /\ m.room \in Rooms /\ m.action \in {"join", "leave"}
    BY <1>5 DEF Control
  <1>8. m.session \in created
    <2>1. About(m, m.session, m.room)
      BY DEF About
    <2>2. ~NoneAbout(control[n], m.session, m.room)
      BY <1>1, <1>4, <2>1 DEF QueueShrinks
    <2> QED BY <1>7, <2>2 DEF RoomsInv, UncreatedIsUnused, Unused
  <1>9. ASSUME NEW k \in Nodes, NEW i \in DOMAIN control'[k] PROVE control'[k][i].room # UserRoom
    <2>1. CASE k # n
      BY <1>6, <2>1 DEF RoomsInv, ChatRoomsOnly
    <2>2. CASE k = n
      <3>1. i \in DOMAIN p /\ control'[k][i] = p[i]
        BY <1>6, <2>2
      <3>2. i + 1 \in DOMAIN q /\ p[i] = q[i + 1]
        BY <1>1, <1>3, <3>1
      <3> QED BY <1>1, <3>1, <3>2 DEF RoomsInv, ChatRoomsOnly
    <2> QED BY <2>1, <2>2
  <1>10. ASSUME NEW k \in Nodes, NEW s, NEW r
         PROVE  /\ QueueKept(control[k], control'[k], s, r)
                /\ NoneAbout(control[k], s, r) => NoneAbout(control'[k], s, r)
    <2>1. CASE k = n
      BY <1>1, <1>4, <1>6, <2>1 DEF QueueKept, QueueShrinks
    <2>2. CASE k # n
      BY <1>6, <2>2 DEF QueueKept
    <2> QED BY <2>1, <2>2
  <1>11. ASSUME NEW s, NEW r
         PROVE  /\ NoneAbout(control'[n], s, r) /\ About(m, s, r) => LastAbout(control[n], 1, s, r)
                /\ NoneAbout(control'[n], s, r) /\ ~About(m, s, r) => NoneAbout(control[n], s, r)
    BY <1>1, <1>4, <1>6 DEF QueueShrinks
  <1>12. m = Head(control[n]) /\ q = control[n]
    BY <1>1
  <1> QED BY <1>5, <1>6, <1>7, <1>8, <1>9, <1>10, <1>11, <1>12 DEF RoomsInv

LEMMA HandledKeeps ==
  ASSUME RoomsInv, NEW n \in Nodes, ControlHandled(n)
  PROVE  RoomsInv'
  <1>1. /\ control[n] # <<>> /\ control' = [control EXCEPT ![n] = Tail(@)]
        /\ UNCHANGED <<present, created, storedRooms, connecting, roomCalls, overlapped, raced, strayed,
                       callCount, losses>>
    BY DEF ControlHandled
  <1>2. PICK m, s, r0 : m = Head(control[n]) /\ s = m.session /\ r0 = m.room
    OBVIOUS
  <1>3. /\ control' \in [Nodes -> Seq(Control)] /\ m \in Control
        /\ s \in created /\ s \in Sessions /\ r0 \in Rooms /\ m.action \in {"join", "leave"}
        /\ ChatRoomsOnly /\ \A k \in Nodes : \A i \in DOMAIN control'[k] : control'[k][i].room # UserRoom
        /\ 1 \in DOMAIN control[n] /\ control[n][1] = m
        /\ \A k \in Nodes : k # n => control'[k] = control[k]
        /\ \A k \in Nodes : \A u, r :
             /\ QueueKept(control[k], control'[k], u, r)
             /\ NoneAbout(control[k], u, r) => NoneAbout(control'[k], u, r)
        /\ \A u, r :
             /\ NoneAbout(control'[n], u, r) /\ About(m, u, r) => LastAbout(control[n], 1, u, r)
             /\ NoneAbout(control'[n], u, r) /\ ~About(m, u, r) => NoneAbout(control[n], u, r)
    BY <1>1, <1>2, QueueTaken
  <1>4. PICK new \in SUBSET Rooms :
          /\ IndexedAs(n, s, new)
          /\ new = {} \/ s \in present[n]
          /\ s \in present[n] => /\ \A r \in Rooms : r # r0 => (r \in new <=> r \in roomsOf[n][s])
                                 /\ r0 \in new <=> m.action = "join"
    <2>1. CASE s \in present[n]
      <3>1. MembershipMoves(n, m)
        BY <1>1, <1>2, <2>1 DEF ControlHandled
      <3>2. PICK new \in SUBSET Rooms :
              /\ IndexedAs(n, s, new)
              /\ new = {} \/ s \in present[n]
              /\ \A r \in Rooms : r # r0 => (r \in new <=> r \in roomsOf[n][s])
              /\ s \in present[n] => (r0 \in new <=> m.action = "join")
        BY <1>2, <1>3, <3>1, MembershipKeeps DEF RoomsInv
      <3> QED BY <3>2
    <2>2. CASE s \notin present[n]
      <3>1. roomsOf' = roomsOf /\ sessionsIn' = sessionsIn
        BY <1>2, <2>2 DEF ControlHandled
      <3>2. roomsOf[n][s] = {} /\ \A r \in Rooms : s \notin sessionsIn[n][r]
        BY <1>3, <2>2 DEF RoomsInv, IndexAgrees, RoomsTypeOK
      <3>3. PICK none \in SUBSET Rooms : none = {}
        OBVIOUS
      <3>4. IndexedAs(n, s, none)
        BY <3>1, <3>2, <3>3 DEF IndexedAs, RoomsInv, RoomsTypeOK
      <3> QED BY <2>2, <3>3, <3>4
    <2> QED BY <2>1, <2>2
  <1>5. RoomsTypeOK'
    BY <1>1, <1>3, <1>4 DEF RoomsInv, RoomsTypeOK, IndexedAs
  <1>6. IndexAgrees' /\ ChatRoomsOnly'
    <2>1. IndexAgrees'
      BY <1>1, <1>3, <1>4, AgreesAfter DEF RoomsInv
    <2> QED BY <1>1, <1>3, <2>1 DEF ChatRoomsOnly
  <1>7. \A u : CallsFor(u)' = CallsFor(u)
    BY <1>1 DEF CallsFor
  <1>8. ASSUME s \notin overlapped PROVE RoomsKept(s)'
    <2>1. RoomsKept(s)
      BY <1>3, <1>8 DEF RoomsInv
    <2>2. OneCallOf(s)'
      BY <1>1, <1>7, <2>1 DEF RoomsKept, OneCallOf
    <2>3. ASSUME NEW k \in Nodes PROVE CarriesStored(s, k)'
      BY <1>1, <2>1 DEF RoomsKept, CarriesStored
    <2>4. \A r : Rewriting(s, r)' <=> Rewriting(s, r)
      BY <1>7 DEF Rewriting
    <2>5. ASSUME NEW k \in Nodes, NEW r \in Rooms PROVE SaysStored(s, k, r)'
      <3>1. SaysStored(s, k, r) /\ QueueKept(control[k], control'[k], s, r)
        BY <1>3, <2>1 DEF RoomsKept
      <3> QED BY <1>1, <2>4, <3>1 DEF SaysStored, QueueKept
    <2>6. ASSUME NEW k \in Nodes, NEW r \in Rooms PROVE IndexedStored(s, k, r)'
      <3>1. SaysStored(s, k, r) /\ IndexedStored(s, k, r)
        BY <2>1 DEF RoomsKept
      <3>2. CASE k # n
        <4>1. roomsOf'[k][s] = roomsOf[k][s] /\ control'[k] = control[k]
          BY <1>3, <1>4, <3>2 DEF IndexedAs
        <4> QED BY <1>1, <2>4, <3>1, <4>1 DEF IndexedStored
      <3>3. CASE k = n /\ r = r0
        <4>1. About(m, s, r)
          BY <1>2, <3>3 DEF About
        <4>2. NoneAbout(control'[n], s, r) => LastAbout(control[n], 1, s, r)
          BY <1>3, <4>1
        <4>3. NoneAbout(control'[n], s, r) /\ ~Rewriting(s, r) /\ <<n, s>> \notin strayed =>
                (m.action = "join" <=> r \in storedRooms[s])
          BY <1>3, <3>1, <3>3, <4>2 DEF SaysStored
        <4>4. s \in present[n] => (r \in roomsOf'[n][s] <=> m.action = "join")
          BY <1>4, <3>3 DEF IndexedAs
        <4> QED BY <1>1, <2>4, <3>3, <4>3, <4>4 DEF IndexedStored
      <3>4. CASE k = n /\ r # r0
        <4>1. ~About(m, s, r)
          BY <1>2, <3>4 DEF About
        <4>2. NoneAbout(control'[n], s, r) => NoneAbout(control[n], s, r)
          BY <1>3, <4>1
        <4>3. s \in present[n] => (r \in roomsOf'[n][s] <=> r \in roomsOf[n][s])
          BY <1>4, <3>4 DEF IndexedAs
        <4> QED BY <1>1, <2>4, <3>1, <3>4, <4>2, <4>3 DEF IndexedStored
      <3> QED BY <3>2, <3>3, <3>4
    <2> QED BY <2>2, <2>3, <2>5, <2>6 DEF RoomsKept
  <1>9. ASSUME NEW u \in Sessions \ {s} PROVE Leaves(u)
    <2>1. ASSUME NEW k \in Nodes
          PROVE  /\ roomsOf'[k][u] = roomsOf[k][u]
                 /\ \A r \in Rooms : NoneAbout(control'[k], u, r) => NoneAbout(control[k], u, r)
      <3>1. \A r : ~About(m, u, r)
        BY <1>2, <1>9 DEF About
      <3> QED BY <1>3, <1>4, <1>9, <3>1 DEF IndexedAs
    <2> QED BY <1>1, <1>3, <1>7, <2>1 DEF Leaves
  <1>10. UncreatedIsUnused' /\ \A u \in Sessions \ overlapped' : RoomsKept(u)'
    <2>1. PICK S : S = {s}
      OBVIOUS
    <2>2. /\ created \subseteq created' /\ overlapped \subseteq overlapped'
          /\ \A u \in Sessions \ S : Leaves(u)
          /\ \A u \in Sessions \cap S : u \in created' /\ (u \in overlapped' \/ RoomsKept(u)')
      BY <1>1, <1>3, <1>8, <1>9, <2>1
    <2> QED BY <2>2, OthersKept
  <1> QED BY <1>5, <1>6, <1>10 DEF RoomsInv

LEMMA LostKeeps ==
  ASSUME RoomsInv, NEW n \in Nodes, ControlLost(n)
  PROVE  RoomsInv'
  <1>1. /\ control[n] # <<>> /\ control' = [control EXCEPT ![n] = Tail(@)]
        /\ losses < MaxLosses /\ losses' = losses + 1
        /\ UNCHANGED <<present, created, storedRooms, roomsOf, sessionsIn, connecting, roomCalls,
                       overlapped, raced, callCount>>
    BY DEF ControlLost
  <1>2. PICK m, s : m = Head(control[n]) /\ s = m.session
    OBVIOUS
  <1>3. strayed' = strayed \cup {<<n, s>>}
    BY <1>2 DEF ControlLost
  <1>4. /\ control' \in [Nodes -> Seq(Control)]
        /\ s \in created /\ s \in Sessions
        /\ ChatRoomsOnly /\ \A k \in Nodes : \A i \in DOMAIN control'[k] : control'[k][i].room # UserRoom
        /\ \A k \in Nodes : k # n => control'[k] = control[k]
        /\ \A k \in Nodes : \A u, r :
             /\ QueueKept(control[k], control'[k], u, r)
             /\ NoneAbout(control[k], u, r) => NoneAbout(control'[k], u, r)
        /\ \A u, r :
             NoneAbout(control'[n], u, r) /\ ~About(m, u, r) => NoneAbout(control[n], u, r)
    BY <1>1, <1>2, QueueTaken
  <1>5. RoomsTypeOK'
    <2>1. losses' \in 0..MaxLosses
      BY <1>1, RoomBoundsAssumption DEF RoomsInv, RoomsTypeOK
    <2> QED BY <1>1, <1>3, <1>4, <2>1 DEF RoomsInv, RoomsTypeOK
  <1>6. IndexAgrees' /\ ChatRoomsOnly'
    BY <1>1, <1>4 DEF RoomsInv, IndexAgrees, ChatRoomsOnly
  <1>7. ASSUME NEW u \in Sessions \ {s} PROVE Leaves(u)
    <2>1. ASSUME NEW k \in Nodes
          PROVE  \A r \in Rooms : NoneAbout(control'[k], u, r) => NoneAbout(control[k], u, r)
      <3>1. \A r : ~About(m, u, r)
        BY <1>2, <1>7 DEF About
      <3> QED BY <1>4, <3>1
    <2> QED BY <1>1, <1>3, <1>4, <2>1 DEF Leaves, CallsFor
  <1>8. ASSUME s \notin overlapped PROVE RoomsKept(s)'
    <2>1. RoomsKept(s)
      BY <1>4, <1>8 DEF RoomsInv
    <2>2. CallsFor(s)' = CallsFor(s)
      BY <1>1 DEF CallsFor
    <2>3. OneCallOf(s)'
      BY <1>1, <2>1, <2>2 DEF RoomsKept, OneCallOf
    <2>4. ASSUME NEW k \in Nodes PROVE CarriesStored(s, k)'
      BY <1>1, <2>1 DEF RoomsKept, CarriesStored
    <2>5. ASSUME NEW k \in Nodes, NEW r \in Rooms
          PROVE  SaysStored(s, k, r)' /\ IndexedStored(s, k, r)'
      <3>1. CASE k = n
        BY <1>3, <3>1 DEF SaysStored, IndexedStored
      <3>2. CASE k # n
        <4>1. SaysStored(s, k, r) /\ IndexedStored(s, k, r) /\ control'[k] = control[k]
          BY <1>4, <2>1, <3>2 DEF RoomsKept
        <4>2. Rewriting(s, r)' <=> Rewriting(s, r)
          BY <2>2 DEF Rewriting
        <4>3. <<k, s>> \in strayed => <<k, s>> \in strayed'
          BY <1>3
        <4> QED BY <1>1, <4>1, <4>2, <4>3 DEF SaysStored, IndexedStored
      <3> QED BY <3>1, <3>2
    <2> QED BY <2>3, <2>4, <2>5 DEF RoomsKept
  <1>9. UncreatedIsUnused' /\ \A u \in Sessions \ overlapped' : RoomsKept(u)'
    <2>1. PICK S : S = {s}
      OBVIOUS
    <2>2. /\ created \subseteq created' /\ overlapped \subseteq overlapped'
          /\ \A u \in Sessions \ S : Leaves(u)
          /\ \A u \in Sessions \cap S : u \in created' /\ (u \in overlapped' \/ RoomsKept(u)')
      BY <1>1, <1>4, <1>7, <1>8, <2>1
    <2> QED BY <2>2, OthersKept
  <1> QED BY <1>5, <1>6, <1>9 DEF RoomsInv

\* A node that dies takes its sockets, its queue and its handlers with it.
LEMMA StopKeeps ==
  ASSUME RoomsInv, NEW n \in Nodes, NodeStops(n)
  PROVE  RoomsInv'
  <1>1. PICK cut : cut = {c \in roomCalls : c.node = n}
    OBVIOUS
  <1>2. PICK met : met = {c.message.session : c \in cut}
    OBVIOUS
  <1>3. /\ losses < MaxLosses /\ losses' = losses + 1
        /\ present' = [present EXCEPT ![n] = {}]
        /\ roomsOf' = [roomsOf EXCEPT ![n] = [s \in Sessions |-> {}]]
        /\ sessionsIn' = [sessionsIn EXCEPT ![n] = [r \in Rooms |-> {}]]
        /\ control' = [control EXCEPT ![n] = <<>>]
        /\ roomCalls' = roomCalls \ cut /\ strayed' = strayed \cup (Nodes \X met)
        /\ UNCHANGED <<created, storedRooms, overlapped, raced, callCount>>
    BY <1>1, <1>2 DEF NodeStops, Indexed
  <1>4. /\ connecting' \in [Nodes -> [Sessions -> [pc: ConnectPcs, rooms: SUBSET Rooms]]]
        /\ \A s \in Sessions : connecting'[n][s].pc = "idle"
        /\ \A k \in Nodes : k # n => connecting'[k] = connecting[k]
    <2>1. PICK T : T = [pc: ConnectPcs, rooms: SUBSET Rooms]
      OBVIOUS
    <2>2. PICK idle \in T : idle = Idle /\ idle.pc = "idle"
      <3>1. Idle \in [pc: ConnectPcs, rooms: SUBSET Rooms] /\ Idle.pc = "idle"
        BY DEF Idle, ConnectPcs
      <3> QED BY <2>1, <3>1
    <2>3. connecting \in [Nodes -> [Sessions -> T]]
      BY <2>1 DEF RoomsInv, RoomsTypeOK, ConnectPcs
    <2>4. connecting' = [connecting EXCEPT ![n] = [s \in Sessions |-> idle]]
      BY <2>2 DEF NodeStops
    <2>5. /\ connecting' \in [Nodes -> [Sessions -> T]]
          /\ \A s \in Sessions : connecting'[n][s] = idle
          /\ \A k \in Nodes : k # n => connecting'[k] = connecting[k]
      BY <2>2, <2>3, <2>4
    <2> QED BY <2>1, <2>2, <2>5
  <1>5. /\ present' \in [Nodes -> SUBSET Sessions] /\ present'[n] = {}
        /\ \A k \in Nodes : k # n => present'[k] = present[k]
    BY <1>3 DEF RoomsInv, RoomsTypeOK
  <1>6. /\ roomsOf' \in [Nodes -> [Sessions -> SUBSET Rooms]]
        /\ \A s \in Sessions : roomsOf'[n][s] = {}
        /\ \A k \in Nodes : k # n => roomsOf'[k] = roomsOf[k]
    <2>1. PICK none : none = [s \in Sessions |-> {}]
      OBVIOUS
    <2>2. none \in [Sessions -> SUBSET Rooms] /\ \A s \in Sessions : none[s] = {}
      BY <2>1
    <2>3. roomsOf' = [roomsOf EXCEPT ![n] = none] /\ roomsOf \in [Nodes -> [Sessions -> SUBSET Rooms]]
      BY <1>3, <2>1 DEF RoomsInv, RoomsTypeOK
    <2> QED BY <2>2, <2>3
  <1>7. /\ sessionsIn' \in [Nodes -> [Rooms -> SUBSET Sessions]]
        /\ \A r \in Rooms : sessionsIn'[n][r] = {}
        /\ \A k \in Nodes : k # n => sessionsIn'[k] = sessionsIn[k]
    <2>1. PICK none : none = [r \in Rooms |-> {}]
      OBVIOUS
    <2>2. none \in [Rooms -> SUBSET Sessions] /\ \A r \in Rooms : none[r] = {}
      BY <2>1
    <2>3. /\ sessionsIn' = [sessionsIn EXCEPT ![n] = none]
          /\ sessionsIn \in [Nodes -> [Rooms -> SUBSET Sessions]]
      BY <1>3, <2>1 DEF RoomsInv, RoomsTypeOK
    <2> QED BY <2>2, <2>3
  <1>8. /\ control' \in [Nodes -> Seq(Control)] /\ control'[n] = <<>> /\ DOMAIN control'[n] = {}
        /\ \A k \in Nodes : k # n => control'[k] = control[k]
    <2>1. <<>> \in Seq(Control)
      OBVIOUS
    <2>2. PICK none : none = <<>>
      OBVIOUS
    <2>3. none \in Seq(Control) /\ Len(none) = 0
      BY <2>1, <2>2
    <2>4. DOMAIN none = {}
      BY <2>3
    <2>5. control' = [control EXCEPT ![n] = none] /\ control \in [Nodes -> Seq(Control)]
      BY <1>3, <2>2 DEF RoomsInv, RoomsTypeOK
    <2> QED BY <2>2, <2>3, <2>4, <2>5
  <1>9. met \subseteq Sessions /\ met \subseteq created
    <2> SUFFICES ASSUME NEW c \in cut PROVE c.message.session \in Sessions /\ c.message.session \in created
      BY <1>2
    <2>1. c \in roomCalls
      BY <1>1
    <2> QED BY <2>1, CallIsKnown
  <1>10. RoomsTypeOK'
    <2>1. losses' \in 0..MaxLosses
      BY <1>3, RoomBoundsAssumption DEF RoomsInv, RoomsTypeOK
    <2>2. roomCalls' \subseteq Call /\ strayed' \subseteq Nodes \X Sessions
      BY <1>3, <1>9 DEF RoomsInv, RoomsTypeOK
    <2> QED BY <1>3, <1>4, <1>5, <1>6, <1>7, <1>8, <2>1, <2>2 DEF RoomsInv, RoomsTypeOK, ConnectPcs
  <1>11. IndexAgrees'
    <2> SUFFICES ASSUME NEW k \in Nodes, NEW u \in Sessions, NEW r \in Rooms
                 PROVE  /\ r \in roomsOf'[k][u] <=> u \in sessionsIn'[k][r]
                        /\ r \in roomsOf'[k][u] => u \in present'[k]
      BY DEF IndexAgrees
    <2>1. CASE k = n
      BY <1>6, <1>7, <2>1
    <2>2. CASE k # n
      BY <1>5, <1>6, <1>7, <2>2 DEF RoomsInv, IndexAgrees
    <2> QED BY <2>1, <2>2
  <1>12. ChatRoomsOnly'
    BY <1>3, <1>8 DEF RoomsInv, ChatRoomsOnly
  <1>13. ASSUME NEW u \in Sessions \ met PROVE Leaves(u)
    <2>1. CallsFor(u)' = CallsFor(u)
      BY <1>2, <1>3, <1>13 DEF CallsFor
    <2>2. ASSUME NEW k \in Nodes
          PROVE  /\ u \in present'[k] => /\ u \in present[k] /\ roomsOf'[k][u] = roomsOf[k][u]
                                         /\ \A r \in Rooms : NoneAbout(control'[k], u, r)
                                                               => NoneAbout(control[k], u, r)
                 /\ \/ connecting'[k][u] = connecting[k][u]
                    \/ connecting'[k][u].pc = "idle" /\ u \notin present'[k]
                 /\ \A r \in Rooms : /\ QueueKept(control[k], control'[k], u, r)
                                     /\ NoneAbout(control[k], u, r) => NoneAbout(control'[k], u, r)
      <3>1. CASE k = n
        <4>1. u \notin present'[k] /\ connecting'[k][u].pc = "idle" /\ DOMAIN control'[k] = {}
          BY <1>4, <1>5, <1>8, <3>1
        <4> QED BY <4>1 DEF QueueKept, NoneAbout
      <3>2. CASE k # n
        BY <1>4, <1>5, <1>6, <1>8, <3>2 DEF QueueKept
      <3> QED BY <3>1, <3>2
    <2> QED BY <1>3, <2>1, <2>2 DEF Leaves
  <1>14. ASSUME NEW s \in met, s \notin overlapped PROVE RoomsKept(s)'
    <2>1. RoomsKept(s) /\ s \in Sessions
      BY <1>9, <1>14 DEF RoomsInv
    <2>2. CallsFor(s)' \subseteq CallsFor(s)
      BY <1>3 DEF CallsFor
    <2>3. OneCallOf(s)'
      <3>1. \A k \in Nodes : connecting[k][s].pc = "idle" => connecting'[k][s].pc = "idle"
        BY <1>4, <2>1
      <3> QED BY <1>3, <2>1, <2>2, <3>1 DEF RoomsKept, OneCallOf
    <2>4. ASSUME NEW k \in Nodes PROVE CarriesStored(s, k)'
      <3>1. CASE k = n
        <4>1. s \notin present'[k] /\ connecting'[k][s].pc = "idle"
          BY <1>4, <1>5, <2>1, <3>1
        <4> QED BY <4>1 DEF CarriesStored
      <3>2. CASE k # n
        BY <1>3, <1>4, <1>5, <2>1, <3>2 DEF RoomsKept, CarriesStored
      <3> QED BY <3>1, <3>2
    <2>5. ASSUME NEW k \in Nodes, NEW r \in Rooms
          PROVE  SaysStored(s, k, r)' /\ IndexedStored(s, k, r)'
      <3>1. <<k, s>> \in strayed'
        BY <1>3, <1>14
      <3> QED BY <3>1 DEF SaysStored, IndexedStored
    <2> QED BY <2>3, <2>4, <2>5 DEF RoomsKept
  <1>15. UncreatedIsUnused' /\ \A u \in Sessions \ overlapped' : RoomsKept(u)'
    <2>1. /\ created \subseteq created' /\ overlapped \subseteq overlapped'
          /\ \A u \in Sessions \cap met : u \in created' /\ (u \in overlapped' \/ RoomsKept(u)')
      BY <1>3, <1>9, <1>14
    <2> QED BY <1>13, <2>1, OthersKept
  <1> QED BY <1>10, <1>11, <1>12, <1>15 DEF RoomsInv

LEMMA RoomsStays == ASSUME RoomsInv, UNCHANGED roomVars PROVE RoomsInv'
  <1>1. UNCHANGED <<present, created, storedRooms, roomsOf, sessionsIn, connecting, roomCalls,
                    control, overlapped, raced, strayed, callCount, losses>>
    BY DEF roomVars
  <1>2. RoomsTypeOK' /\ IndexAgrees' /\ ChatRoomsOnly'
    BY <1>1 DEF RoomsInv, RoomsTypeOK, IndexAgrees, ChatRoomsOnly
  <1>3. ASSUME NEW u \in Sessions PROVE Leaves(u)
    BY <1>1 DEF Leaves, CallsFor, QueueKept
  <1>4. UncreatedIsUnused' /\ \A u \in Sessions \ overlapped' : RoomsKept(u)'
    <2>1. PICK S : S = {}
      OBVIOUS
    <2> QED BY <1>1, <1>3, <2>1, OthersKept
  <1> QED BY <1>2, <1>4 DEF RoomsInv

LEMMA RoomsStep == ASSUME RoomsInv, [RoomsNext]_roomVars PROVE RoomsInv'
  <1>1. ASSUME NEW n \in Nodes, NEW s \in Sessions, ConnectStep(n, s) \/ LastSocketGone(n, s)
        PROVE  RoomsInv'
    BY <1>1, CreatedKeeps, MarkedKeeps, RestoredKeeps, ReadKeeps, SyncedKeeps, ReplacedKeeps,
       SocketGoneKeeps DEF ConnectStep
  <1>2. ASSUME NEW n \in Nodes, NEW m \in Control, RoomCall(n, m) PROVE RoomsInv'
    BY <1>2, CallKeeps
  <1>3. ASSUME NEW c \in roomCalls, CallStored(c) \/ CallIndexed(c) \/ CallPublished(c)
        PROVE  RoomsInv'
    BY <1>3, StoredKeeps, CallIndexedKeeps, PublishedKeeps
  <1>4. ASSUME NEW n \in Nodes, ControlHandled(n) \/ ControlLost(n) \/ NodeStops(n)
        PROVE  RoomsInv'
    BY <1>4, HandledKeeps, LostKeeps, StopKeeps
  <1>5. CASE UNCHANGED roomVars
    BY <1>5, RoomsStays
  <1> QED BY <1>1, <1>2, <1>3, <1>4, <1>5 DEF RoomsNext

LEMMA RoomsBegin == RoomsInit => RoomsInv
  <1> SUFFICES ASSUME RoomsInit PROVE RoomsInv
    OBVIOUS
  <1>1. /\ created = {} /\ roomCalls = {} /\ overlapped = {} /\ callCount = 0 /\ losses = 0
        /\ raced = {} /\ strayed = {}
        /\ \A n \in Nodes : present[n] = {} /\ control[n] = <<>> /\ DOMAIN control[n] = {}
        /\ \A n \in Nodes, s \in Sessions : roomsOf[n][s] = {} /\ connecting[n][s].pc = "idle"
        /\ \A n \in Nodes, r \in Rooms : sessionsIn[n][r] = {}
        /\ \A s \in Sessions : storedRooms[s] = {}
    BY DEF RoomsInit, Idle
  <1>2. RoomsTypeOK
    <2>1. PICK idle : idle = Idle
      OBVIOUS
    <2>2. idle \in [pc: ConnectPcs, rooms: SUBSET Rooms]
      BY <2>1 DEF Idle, ConnectPcs
    <2>3. connecting = [n \in Nodes |-> [s \in Sessions |-> idle]]
      BY <2>1 DEF RoomsInit
    <2>4. connecting \in [Nodes -> [Sessions -> [pc: ConnectPcs, rooms: SUBSET Rooms]]]
      BY <2>2, <2>3
    <2>5. <<>> \in Seq(Control)
      OBVIOUS
    <2>6. control \in [Nodes -> Seq(Control)]
      BY <2>5 DEF RoomsInit
    <2>7. present \in [Nodes -> SUBSET Sessions] /\ storedRooms \in [Sessions -> SUBSET Rooms]
      BY DEF RoomsInit
    <2>8. /\ roomsOf \in [Nodes -> [Sessions -> SUBSET Rooms]]
          /\ sessionsIn \in [Nodes -> [Rooms -> SUBSET Sessions]]
      BY DEF RoomsInit
    <2>9. callCount \in 0..MaxRoomCalls /\ losses \in 0..MaxLosses
      BY <1>1, RoomBoundsAssumption
    <2> QED BY <1>1, <2>4, <2>6, <2>7, <2>8, <2>9 DEF RoomsTypeOK, ConnectPcs
  <1>3. IndexAgrees /\ ChatRoomsOnly
    BY <1>1 DEF IndexAgrees, ChatRoomsOnly
  <1>4. UncreatedIsUnused
    BY <1>1 DEF UncreatedIsUnused, Unused, CallsFor, NoneAbout
  <1>5. \A s \in Sessions : RoomsKept(s)
    BY <1>1 DEF RoomsKept, OneCallOf, CallsFor, CarriesStored, SaysStored, IndexedStored
  <1> QED BY <1>2, <1>3, <1>4, <1>5 DEF RoomsInv

LEMMA RoomsHold == RoomsSpec => []RoomsInv
  <1>1. RoomsInit => RoomsInv
    BY RoomsBegin
  <1>2. RoomsInv /\ [RoomsNext]_roomVars => RoomsInv'
    BY RoomsStep
  <1> QED BY <1>1, <1>2, PTL DEF RoomsSpec

\* The two Maps of a node agree, and name only sessions it has a socket of, for any
\* number of nodes, sessions, rooms, calls and losses.
THEOREM RoomIndexAgrees == RoomsSpec => []IndexAgrees
  <1>1. RoomsInv => IndexAgrees
    BY DEF RoomsInv
  <1> QED BY <1>1, RoomsHold, PTL

\* Once all about a session has been handled, every node that has a socket of it indexes
\* the rooms that are stored, if its calls met neither each other nor a connection and the
\* node has missed no message about it since a connection last indexed the rooms there.
THEOREM RoomIndexIsStored == RoomsSpec => []IndexIsStored
  <1>1. RoomsInv => IndexIsStored
    <2> SUFFICES ASSUME RoomsInv, NEW n \in Nodes, NEW s \in Sessions, Quiet(s),
                        s \notin overlapped, <<n, s>> \notin strayed, s \in present[n]
                 PROVE  roomsOf[n][s] = storedRooms[s]
      BY DEF IndexIsStored
    <2>1. roomsOf[n][s] \subseteq Rooms /\ storedRooms[s] \subseteq Rooms
      BY DEF RoomsInv, RoomsTypeOK
    <2>2. /\ connecting[n][s].pc = "idle" /\ CallsFor(s) = {}
          /\ \A r : NoneAbout(control[n], s, r) /\ ~Rewriting(s, r)
      BY DEF Quiet, Connecting, NoneOnItsWay, NoneAbout, About, Rewriting
    <2>3. \A r \in Rooms : IndexedStored(s, n, r)
      BY DEF RoomsInv, RoomsKept
    <2>4. \A r \in Rooms : r \in roomsOf[n][s] <=> r \in storedRooms[s]
      BY <2>2, <2>3 DEF IndexedStored
    <2> QED BY <2>1, <2>4
  <1> QED BY <1>1, RoomsHold, PTL

\* What a connection carries is what is stored, for a session that was not raced:
\* whatever its calls have met besides.
HeldRooms(s, n) ==
  LET pc    == connecting[n][s].pc
      rooms == connecting[n][s].rooms IN
  /\ pc = "mark" => storedRooms[s] \subseteq {UserRoom}
  /\ pc \in {"restore", "replace"} => rooms \cup {UserRoom} = storedRooms[s] \cup {UserRoom}
  /\ pc = "replace" => UserRoom \in rooms

HeldInv == \A s \in Sessions \ raced, n \in Nodes : HeldRooms(s, n)

\* A step of one connection that leaves the store alone.
LEMMA HeldAside ==
  ASSUME HeldInv, UNCHANGED <<storedRooms, raced>>, NEW n \in Nodes, NEW s \in Sessions,
         \A k \in Nodes, u \in Sessions : ~(k = n /\ u = s) => connecting'[k][u] = connecting[k][u],
         s \notin raced => HeldRooms(s, n)'
  PROVE  HeldInv'
  BY DEF HeldInv, HeldRooms

LEMMA ConnectHolds ==
  ASSUME RoomsInv, HeldInv, NEW n \in Nodes, NEW s \in Sessions,
         \/ SessionCreated(n, s) \/ NewSessionMarked(n, s) \/ SessionRestored(n, s)
         \/ RoomsRead(n, s) \/ RoomsRestored(n, s) \/ RoomsIndexed(n, s)
  PROVE  HeldInv'
  <1>1. UNCHANGED <<storedRooms, raced>>
    BY DEF SessionCreated, NewSessionMarked, SessionRestored, RoomsRead, RoomsRestored, RoomsIndexed
  <1>2. s \notin raced => HeldRooms(s, n)
    BY DEF HeldInv
  <1>3. PICK old, stored : old = connecting[n][s] /\ stored = storedRooms[s]
    OBVIOUS
  <1>4. old.rooms \in SUBSET Rooms /\ stored \in SUBSET Rooms
    BY <1>3 DEF RoomsInv, RoomsTypeOK
  <1>5. PICK pc \in ConnectPcs, rooms \in SUBSET Rooms :
          /\ ConnectGoesTo(n, s, pc, rooms)
          /\ \/ pc = "mark" /\ stored = {}
             \/ old.pc = "mark" /\ pc = "replace" /\ rooms = {UserRoom}
             \/ pc \in {"read", "idle"}
             \/ pc = "restore" /\ rooms = stored
             \/ old.pc = "restore" /\ pc = "replace" /\ rooms = old.rooms \cup {UserRoom}
    <2>1. CASE SessionCreated(n, s)
      <3>1. s \notin created /\ ConnectGoesTo(n, s, "mark", {})
        BY <2>1 DEF SessionCreated
      <3>2. stored = {}
        BY <1>3, <3>1 DEF RoomsInv, UncreatedIsUnused, Unused
      <3> QED BY <3>1, <3>2 DEF ConnectPcs
    <2>2. CASE NewSessionMarked(n, s)
      <3>1. old.pc = "mark" /\ ConnectGoesTo(n, s, "replace", {UserRoom})
        BY <1>3, <2>2 DEF NewSessionMarked
      <3> QED BY <3>1, UserRoomIsRoom DEF ConnectPcs
    <2>3. CASE SessionRestored(n, s)
      <3>1. ConnectGoesTo(n, s, "read", {})
        BY <2>3 DEF SessionRestored
      <3> QED BY <3>1 DEF ConnectPcs
    <2>4. CASE RoomsRead(n, s)
      <3>1. ConnectGoesTo(n, s, "restore", stored)
        BY <1>3, <2>4 DEF RoomsRead
      <3> QED BY <1>4, <3>1 DEF ConnectPcs
    <2>5. CASE RoomsRestored(n, s)
      <3>1. old.pc = "restore" /\ ConnectGoesTo(n, s, "replace", old.rooms \cup {UserRoom})
        BY <1>3, <2>5 DEF RoomsRestored, RoomsOfSession
      <3>2. old.rooms \cup {UserRoom} \in SUBSET Rooms
        BY <1>4, UserRoomIsRoom
      <3> QED BY <3>1, <3>2 DEF ConnectPcs
    <2>6. CASE RoomsIndexed(n, s)
      <3>1. ConnectGoesTo(n, s, "idle", {})
        BY <2>6 DEF RoomsIndexed
      <3> QED BY <3>1 DEF ConnectPcs
    <2> QED BY <2>1, <2>2, <2>3, <2>4, <2>5, <2>6
  <1>6. /\ connecting'[n][s].pc = pc /\ connecting'[n][s].rooms = rooms
        /\ \A k \in Nodes, u \in Sessions : ~(k = n /\ u = s) => connecting'[k][u] = connecting[k][u]
    BY <1>5, ConnectMoves DEF RoomsInv
  <1>7. ASSUME s \notin raced PROVE HeldRooms(s, n)'
    <2>1. /\ old.pc = "mark" => stored \subseteq {UserRoom}
          /\ old.pc = "restore" => old.rooms \cup {UserRoom} = stored \cup {UserRoom}
      BY <1>2, <1>3, <1>7 DEF HeldRooms
    <2>2. /\ pc = "mark" => stored \subseteq {UserRoom}
          /\ pc \in {"restore", "replace"} => rooms \cup {UserRoom} = stored \cup {UserRoom}
          /\ pc = "replace" => UserRoom \in rooms
      BY <1>5, <2>1
    <2>3. storedRooms'[s] = stored
      BY <1>1, <1>3
    <2> QED BY <1>6, <2>2, <2>3 DEF HeldRooms
  <1> QED BY <1>1, <1>6, <1>7, HeldAside

\* A connection of a session that was not raced takes no room from it.
LEMMA ReplacedHolds ==
  ASSUME RoomsInv, HeldInv, NEW n \in Nodes, NEW s \in Sessions, RoomsReplaced(n, s)
  PROVE  /\ HeldInv'
         /\ \A u \in Sessions \ raced : storedRooms[u] \subseteq storedRooms'[u]
  <1>1. PICK rooms : rooms = connecting[n][s].rooms
    OBVIOUS
  <1>2. /\ connecting[n][s].pc = "replace" /\ raced' = raced
        /\ storedRooms' = [storedRooms EXCEPT ![s] = rooms]
        /\ ConnectGoesTo(n, s, "index", rooms)
    BY <1>1 DEF RoomsReplaced
  <1>3. rooms \in SUBSET Rooms
    BY <1>1 DEF RoomsInv, RoomsTypeOK
  <1>4. PICK index \in ConnectPcs : index = "index"
    BY DEF ConnectPcs
  <1>5. /\ connecting'[n][s].pc = "index"
        /\ \A k \in Nodes, u \in Sessions : ~(k = n /\ u = s) => connecting'[k][u] = connecting[k][u]
    BY <1>2, <1>3, <1>4, ConnectMoves DEF RoomsInv
  <1>6. /\ storedRooms'[s] = rooms
        /\ \A u \in Sessions : u # s => storedRooms'[u] = storedRooms[u]
    BY <1>2, <1>3 DEF RoomsInv, RoomsTypeOK
  <1>7. s \notin raced => /\ rooms \cup {UserRoom} = storedRooms[s] \cup {UserRoom}
                          /\ UserRoom \in rooms
    BY <1>1, <1>2 DEF HeldInv, HeldRooms
  <1>8. ASSUME NEW u \in Sessions \ raced', NEW k \in Nodes PROVE HeldRooms(u, k)'
    <2>1. HeldRooms(u, k)
      BY <1>2, <1>8 DEF HeldInv
    <2>2. CASE u # s
      <3>1. connecting'[k][u] = connecting[k][u] /\ storedRooms'[u] = storedRooms[u]
        BY <1>5, <1>6, <2>2
      <3> QED BY <2>1, <3>1 DEF HeldRooms
    <2>3. CASE u = s /\ k = n
      BY <1>5, <2>3 DEF HeldRooms
    <2>4. CASE u = s /\ k # n
      <3>1. connecting'[k][s] = connecting[k][s]
        BY <1>5, <2>4
      <3>2. storedRooms'[s] \cup {UserRoom} = storedRooms[s] \cup {UserRoom}
        BY <1>2, <1>6, <1>7, <1>8, <2>4
      <3>3. storedRooms[s] \subseteq {UserRoom} => storedRooms'[s] \subseteq {UserRoom}
        BY <3>2
      <3> QED BY <2>1, <2>4, <3>1, <3>2, <3>3 DEF HeldRooms
    <2> QED BY <2>2, <2>3, <2>4
  <1>9. ASSUME NEW u \in Sessions \ raced PROVE storedRooms[u] \subseteq storedRooms'[u]
    <2>1. CASE u = s
      <3>1. storedRooms[s] \subseteq rooms
        BY <1>7, <1>9, <2>1
      <3> QED BY <1>6, <2>1, <3>1
    <2>2. CASE u # s
      BY <1>6, <2>2
    <2> QED BY <2>1, <2>2
  <1>10. HeldInv'
    BY <1>8 DEF HeldInv
  <1> QED BY <1>9, <1>10

LEMMA StoredHolds ==
  ASSUME RoomsInv, HeldInv, NEW c, CallStored(c)
  PROVE  HeldInv'
  <1>1. PICK s : s = c.message.session
    OBVIOUS
  <1>2. /\ s \in Sessions /\ connecting' = connecting
        /\ raced' = IF Carrying(s) THEN raced \cup {s} ELSE raced
    BY <1>1, CallIsKnown DEF CallStored
  <1>3. \A u \in Sessions : u # s => storedRooms'[u] = storedRooms[u]
    BY <1>1, <1>2 DEF CallStored, RoomsInv, RoomsTypeOK
  <1>4. ASSUME NEW u \in Sessions \ raced', NEW n \in Nodes PROVE HeldRooms(u, n)'
    <2>1. u \notin raced
      BY <1>2, <1>4
    <2>2. CASE u = s
      <3>1. connecting'[n][u].pc \notin {"mark", "restore", "replace"}
        BY <1>2, <1>4, <2>2 DEF Carrying
      <3> QED BY <3>1 DEF HeldRooms
    <2>3. CASE u # s
      <3>1. HeldRooms(u, n) /\ storedRooms'[u] = storedRooms[u]
        BY <1>3, <2>1, <2>3 DEF HeldInv
      <3> QED BY <1>2, <3>1 DEF HeldRooms
    <2> QED BY <2>2, <2>3
  <1> QED BY <1>4 DEF HeldInv

LEMMA HeldStep == ASSUME RoomsInv, HeldInv, [RoomsNext]_roomVars PROVE HeldInv'
  <1>1. CASE UNCHANGED <<storedRooms, connecting, raced>>
    BY <1>1 DEF HeldInv, HeldRooms
  <1>2. ASSUME NEW n \in Nodes, NEW s \in Sessions, ConnectStep(n, s) \/ LastSocketGone(n, s)
        PROVE  HeldInv'
    <2>1. CASE LastSocketGone(n, s)
      BY <1>1, <2>1 DEF LastSocketGone
    <2>2. CASE RoomsReplaced(n, s)
      BY <2>2, ReplacedHolds
    <2>3. CASE \/ SessionCreated(n, s) \/ NewSessionMarked(n, s) \/ SessionRestored(n, s)
               \/ RoomsRead(n, s) \/ RoomsRestored(n, s) \/ RoomsIndexed(n, s)
      BY <2>3, ConnectHolds
    <2> QED BY <1>2, <2>1, <2>2, <2>3 DEF ConnectStep
  <1>3. ASSUME NEW n \in Nodes, NEW m \in Control, RoomCall(n, m) PROVE HeldInv'
    BY <1>1, <1>3 DEF RoomCall
  <1>4. ASSUME NEW c \in roomCalls, CallStored(c) \/ CallIndexed(c) \/ CallPublished(c)
        PROVE  HeldInv'
    <2>1. CASE CallStored(c)
      BY <2>1, StoredHolds
    <2>2. CASE CallIndexed(c) \/ CallPublished(c)
      BY <1>1, <2>2 DEF CallIndexed, CallPublished
    <2> QED BY <1>4, <2>1, <2>2
  <1>5. ASSUME NEW n \in Nodes, ControlHandled(n) \/ ControlLost(n) \/ NodeStops(n)
        PROVE  HeldInv'
    <2>1. CASE ControlHandled(n) \/ ControlLost(n)
      BY <1>1, <2>1 DEF ControlHandled, ControlLost
    <2>2. CASE NodeStops(n)
      <3>1. PICK idle : idle = Idle
        OBVIOUS
      <3>2. idle.pc = "idle"
        BY <3>1 DEF Idle
      <3>3. PICK none : none = [s \in Sessions |-> idle]
        OBVIOUS
      <3>4. /\ connecting' = [connecting EXCEPT ![n] = none]
            /\ UNCHANGED <<storedRooms, raced>>
        BY <2>2, <3>1, <3>3 DEF NodeStops
      <3>5. \A s \in Sessions : none[s] = idle
        BY <3>3
      <3>6. /\ \A s \in Sessions : connecting'[n][s].pc = "idle"
            /\ \A k \in Nodes \ {n} : connecting'[k] = connecting[k]
        BY <3>2, <3>4, <3>5 DEF RoomsInv, RoomsTypeOK
      <3> QED BY <3>4, <3>6 DEF HeldInv, HeldRooms
    <2> QED BY <1>5, <2>1, <2>2
  <1>6. CASE UNCHANGED roomVars
    BY <1>1, <1>6 DEF roomVars
  <1> QED BY <1>2, <1>3, <1>4, <1>5, <1>6 DEF RoomsNext

\* A room is taken from a session's set in the store by a call to leave it and by nothing
\* else, through any number of connections, deaths of nodes, cut calls and lost messages,
\* unless a call changed the rooms between a connection's read of them and its write.
THEOREM JoinedRoomsStay == RoomsSpec => JoinedStays
  <1>1. RoomsInit => HeldInv
    BY DEF RoomsInit, HeldInv, HeldRooms, Idle
  <1>2. RoomsInv /\ HeldInv /\ [RoomsNext]_roomVars => HeldInv'
    BY HeldStep
  <1>3. RoomsInv /\ HeldInv /\ [RoomsNext]_roomVars =>
          [\A s \in Sessions \ raced : \A r \in storedRooms[s] \ storedRooms'[s] :
             \E c \in CallsFor(s) : c.message.action = "leave" /\ c.message.room = r]_roomVars
    <2> SUFFICES ASSUME RoomsInv, HeldInv, RoomsNext
                 PROVE  \A s \in Sessions \ raced : \A r \in storedRooms[s] \ storedRooms'[s] :
                          \E c \in CallsFor(s) : c.message.action = "leave" /\ c.message.room = r
      OBVIOUS
    <2>1. CASE \E n \in Nodes, u \in Sessions : RoomsReplaced(n, u)
      BY <2>1, ReplacedHolds
    <2>2. CASE \E c \in roomCalls : CallStored(c)
      BY <2>2, StoredKeeps
    <2>3. CASE storedRooms' = storedRooms
      BY <2>3
    <2>4. \/ \E n \in Nodes, u \in Sessions : RoomsReplaced(n, u)
          \/ \E c \in roomCalls : CallStored(c)
          \/ storedRooms' = storedRooms
      BY DEF RoomsNext, ConnectStep, SessionCreated, NewSessionMarked, SessionRestored, RoomsRead,
             RoomsRestored, RoomsIndexed, LastSocketGone, RoomCall, CallIndexed, CallPublished,
             ControlHandled, ControlLost, NodeStops
    <2> QED BY <2>1, <2>2, <2>3, <2>4
  <1>4. RoomsSpec => []HeldInv
    BY <1>1, <1>2, RoomsHold, PTL DEF RoomsSpec
  <1> QED BY <1>3, <1>4, RoomsHold, PTL DEF RoomsSpec, JoinedStays

-----------------------------------------------------------------------------
(* RealtimeChallenge: the inductive invariant.                             *)

Holds(f) == frames[f].pc \in {"verify", "accepted"}

\* A record in Redis is that of a challenge that was answered.
StoredIsAnswered ==
  \A c \in Challenges : records[c] # NoRecord => issued[c].pc = "answered"

\* A frame that holds the record of its challenge has taken it out of Redis, where
\* nothing puts it again, and has passed the checks.
HeldIsTaken ==
  \A f \in Frames : Holds(f) =>
    /\ ChallengeOf(f).pc = "answered"
    /\ records[frames[f].payload.challenge] = NoRecord
    /\ frames[f].payload.key = ChallengeOf(f).key
    /\ frames[f].checked <= ChallengeOf(f).expires

\* No two frames hold the record of one challenge.
HeldByOne ==
  \A f, g \in Frames :
    Holds(f) /\ Holds(g) /\ frames[f].payload.challenge = frames[g].payload.challenge => f = g

\* An accepted frame carries a signature of its key.
AcceptedIsSigned ==
  \A f \in Frames : frames[f].pc = "accepted" => frames[f].payload.signature = frames[f].payload.key

ChallengeInv ==
  ChallengeTypeOK /\ StoredIsAnswered /\ HeldIsTaken /\ HeldByOne /\ AcceptedIsSigned

-----------------------------------------------------------------------------
LEMMA NoRecordIsNat == NoRecord \in Nat /\ NoRecord > LastSecond + ChallengeTtl
BY ClockAssumption DEF NoRecord

LEMMA ChallengeInitInv == ChallengeInit => ChallengeInv
<1> SUFFICES ASSUME ChallengeInit PROVE ChallengeInv OBVIOUS
<1> DEFINE k == CHOOSE k \in Keys : TRUE
           c == CHOOSE c \in Challenges : TRUE
<1>1. k \in Keys /\ c \in Challenges
  BY SomeAssumption
<1>2. /\ now = 0
      /\ issued  = [d \in Challenges |-> [pc |-> "new", key |-> k, expires |-> 0]]
      /\ records = [d \in Challenges |-> NoRecord]
      /\ frames  = [f \in Frames |-> [pc |-> "new", checked |-> 0,
                      payload |-> [challenge |-> c, key |-> k, signature |-> k]]]
      /\ taken   = [d \in Challenges |-> {}]
  BY DEF ChallengeInit
<1> HIDE DEF k, c
<1>3. ChallengeTypeOK
  BY <1>1, <1>2, ClockAssumption, NoRecordIsNat DEF ChallengeTypeOK, Payload
<1>4. StoredIsAnswered /\ HeldIsTaken /\ HeldByOne /\ AcceptedIsSigned
  BY <1>2 DEF StoredIsAnswered, HeldIsTaken, HeldByOne, AcceptedIsSigned, Holds
<1>5. QED BY <1>3, <1>4 DEF ChallengeInv

\* A step that moves one frame leaves the others, and says where the frame stands.
LEMMA RequestedKeepsInv ==
  ASSUME ChallengeInv, NEW c \in Challenges, NEW k \in Keys, ChallengeRequested(c, k)
  PROVE  ChallengeInv'
<1> USE DEF ChallengeInv
<1>1. now + ChallengeTtl \in 0..(LastSecond + ChallengeTtl)
  BY ClockAssumption DEF ChallengeTypeOK
<1>2. ChallengeTypeOK'
  BY <1>1 DEF ChallengeTypeOK, ChallengeRequested
<1>3. \A d \in Challenges : issued[d].pc = "answered" => issued'[d] = issued[d]
  BY DEF ChallengeTypeOK, ChallengeRequested
<1>4. \A f \in Frames : frames[f].payload.challenge \in Challenges
  BY DEF ChallengeTypeOK, Payload
<1>5. StoredIsAnswered' /\ HeldByOne' /\ AcceptedIsSigned'
  BY <1>3 DEF StoredIsAnswered, HeldByOne, AcceptedIsSigned, Holds, ChallengeRequested
<1>6. HeldIsTaken'
  BY <1>3, <1>4 DEF HeldIsTaken, Holds, ChallengeOf, ChallengeRequested
<1>7. QED BY <1>2, <1>5, <1>6

LEMMA AnsweredKeepsInv ==
  ASSUME ChallengeInv, NEW c \in Challenges, ChallengeAnswered(c)
  PROVE  ChallengeInv'
<1> USE DEF ChallengeInv
<1>1. /\ now + ChallengeTtl \in 0..NoRecord
      /\ issued[c].pc = "sign"
      /\ records' = [records EXCEPT ![c] = now + ChallengeTtl]
      /\ issued' = [issued EXCEPT ![c].pc = "answered"]
      /\ UNCHANGED <<now, frames, taken>>
  BY ClockAssumption DEF ChallengeTypeOK, ChallengeAnswered, StoresRecord, NoRecord
<1>2. ChallengeTypeOK'
  BY <1>1 DEF ChallengeTypeOK
<1>3. \A d \in Challenges :
        /\ issued[d].pc = "answered" => issued'[d] = issued[d] /\ records'[d] = records[d]
        /\ d # c => issued'[d] = issued[d] /\ records'[d] = records[d]
        /\ issued'[c].pc = "answered"
  BY <1>1 DEF ChallengeTypeOK
<1>4. \A f \in Frames : frames[f].payload.challenge \in Challenges
  BY DEF ChallengeTypeOK, Payload
<1>5. StoredIsAnswered'
  BY <1>3 DEF StoredIsAnswered, NoRecord
<1>6. HeldByOne' /\ AcceptedIsSigned'
  BY <1>1 DEF HeldByOne, AcceptedIsSigned, Holds
<1>7. HeldIsTaken'
  BY <1>1, <1>3, <1>4 DEF HeldIsTaken, Holds, ChallengeOf, NoRecord
<1>8. QED BY <1>2, <1>5, <1>6, <1>7

LEMMA TickKeepsInv ==
  ASSUME ChallengeInv, Tick
  PROVE  ChallengeInv'
<1> USE DEF ChallengeInv
<1>1. \A c \in Challenges : records'[c] \in {records[c], NoRecord}
  BY DEF Tick
<1>2. now' \in 0..LastSecond
  BY ClockAssumption DEF Tick, ChallengeTypeOK
<1>3. ChallengeTypeOK'
  <2>1. records' \in [Challenges -> 0..NoRecord]
    BY NoRecordIsNat DEF Tick, ChallengeTypeOK
  <2>2. QED BY <1>2, <2>1 DEF Tick, ChallengeTypeOK
<1>4. \A f \in Frames : frames[f].payload.challenge \in Challenges
  BY DEF ChallengeTypeOK, Payload
<1>5. StoredIsAnswered' /\ HeldByOne' /\ AcceptedIsSigned'
  BY <1>1 DEF StoredIsAnswered, HeldByOne, AcceptedIsSigned, Holds, Tick, NoRecord
<1>6. HeldIsTaken'
  BY <1>1, <1>4 DEF HeldIsTaken, Holds, ChallengeOf, Tick, NoRecord
<1>7. QED BY <1>3, <1>5, <1>6

LEMMA ReceivedKeepsInv ==
  ASSUME ChallengeInv, NEW f \in Frames, NEW p \in Payload, ConnectReceived(f, p)
  PROVE  ChallengeInv'
<1> USE DEF ChallengeInv
<1>1. /\ frames' = [frames EXCEPT ![f] = [pc |-> "take", payload |-> p, checked |-> 0]]
      /\ UNCHANGED <<now, issued, records, taken>>
  BY DEF ConnectReceived
<1>2. ChallengeTypeOK'
  BY <1>1, ClockAssumption DEF ChallengeTypeOK
<1>3. \A g \in Frames : frames'[g].pc \in {"verify", "accepted"} => frames'[g] = frames[g]
  BY <1>1 DEF ChallengeTypeOK
<1>4. StoredIsAnswered' /\ AcceptedIsSigned'
  BY <1>1, <1>3 DEF StoredIsAnswered, AcceptedIsSigned, NoRecord
<1>5. HeldByOne'
  BY <1>3 DEF HeldByOne, Holds
<1>6. HeldIsTaken'
  BY <1>1, <1>3 DEF HeldIsTaken, Holds, ChallengeOf, NoRecord
<1>7. QED BY <1>2, <1>4, <1>5, <1>6

\* The frame that takes the record is the first that holds it, for until then the
\* record was there.
LEMMA TakenKeepsInv ==
  ASSUME ChallengeInv, NEW f \in Frames, RecordTaken(f)
  PROVE  ChallengeInv'
<1> USE DEF ChallengeInv
<1> DEFINE c == frames[f].payload.challenge
<1>1. c \in Challenges
  BY DEF ChallengeTypeOK, Payload
<1>2. /\ records[c] # NoRecord
      /\ records' = [records EXCEPT ![c] = NoRecord]
      /\ taken' = [taken EXCEPT ![c] = @ \cup {f}]
      /\ frames' = [frames EXCEPT ![f].checked = now,
                                  ![f].pc = IF PassesChecks(f) THEN "verify" ELSE "refused"]
      /\ UNCHANGED <<now, issued>>
  BY DEF RecordTaken, Removes
<1>3. issued[c].pc = "answered"
  BY <1>1, <1>2 DEF StoredIsAnswered
<1>4. \A g \in Frames : frames[g].payload.challenge = c => ~Holds(g)
  BY <1>2 DEF HeldIsTaken
<1>5. \A g \in Frames : g # f => frames'[g] = frames[g]
  BY <1>2 DEF ChallengeTypeOK
<1>6. /\ frames'[f].payload = frames[f].payload
      /\ frames'[f].checked = now
      /\ frames'[f].pc \in {"verify", "refused"}
      /\ frames'[f].pc = "verify" => PassesChecks(f)
  BY <1>2 DEF ChallengeTypeOK
<1>7. \A d \in Challenges : records'[d] \in {records[d], NoRecord}
  BY <1>2 DEF ChallengeTypeOK
<1>8. records'[c] = NoRecord
  BY <1>1, <1>2 DEF ChallengeTypeOK
<1>9. ChallengeTypeOK'
  <2>1. records' \in [Challenges -> 0..NoRecord]
    <3>1. NoRecord \in 0..NoRecord
      BY NoRecordIsNat
    <3>2. QED BY <1>2, <3>1 DEF ChallengeTypeOK
  <2>2. frames' \in [Frames -> [pc: {"new", "take", "verify", "accepted", "refused"},
                               payload: Payload, checked: 0..LastSecond]]
    BY ZenonT(60), <1>2 DEF ChallengeTypeOK
  <2>3. taken' \in [Challenges -> SUBSET Frames]
    BY <1>2 DEF ChallengeTypeOK
  <2>4. QED BY <1>2, <2>1, <2>2, <2>3 DEF ChallengeTypeOK
<1>10. StoredIsAnswered'
  BY <1>2, <1>7 DEF StoredIsAnswered, NoRecord
<1>11. HeldByOne'
  BY <1>4, <1>5, <1>6 DEF HeldByOne, Holds
<1>12. AcceptedIsSigned'
  BY <1>5, <1>6 DEF AcceptedIsSigned
<1>13. HeldIsTaken'
  <2> SUFFICES ASSUME NEW g \in Frames, Holds(g)'
               PROVE  /\ ChallengeOf(g)'.pc = "answered"
                      /\ records'[frames'[g].payload.challenge] = NoRecord
                      /\ frames'[g].payload.key = ChallengeOf(g)'.key
                      /\ frames'[g].checked <= ChallengeOf(g)'.expires
    BY DEF HeldIsTaken, NoRecord
  <2>1. CASE g = f
    BY <2>1, <1>2, <1>3, <1>6, <1>8 DEF Holds, ChallengeOf, PassesChecks
  <2>2. CASE g # f
    <3>1. frames[g].payload.challenge \in Challenges
      BY DEF ChallengeTypeOK, Payload
    <3>2. Holds(g)
      BY <2>2, <1>5 DEF Holds
    <3>3. QED BY ZenonT(60), <2>2, <3>1, <3>2, <1>2, <1>5, <1>7 DEF HeldIsTaken, ChallengeOf
  <2>3. QED BY <2>1, <2>2
<1>14. QED BY <1>9, <1>10, <1>11, <1>12, <1>13

\* A frame that is refused holds nothing, and one that is verified held it before.
LEMMA SettledKeepsInv ==
  ASSUME ChallengeInv, NEW f \in Frames, RecordMissing(f) \/ Verified(f)
  PROVE  ChallengeInv'
<1> USE DEF ChallengeInv
<1>1. UNCHANGED <<now, issued, records, taken>>
  BY DEF RecordMissing, Verified
<1>2. \A g \in Frames : g # f => frames'[g] = frames[g]
  BY DEF RecordMissing, Verified, ChallengeTypeOK
<1>3. /\ frames'[f].payload = frames[f].payload
      /\ frames'[f].pc \in {"accepted", "refused"}
      /\ frames'[f].pc = "accepted" =>
           /\ frames[f].pc = "verify" /\ frames'[f].checked = frames[f].checked
           /\ frames[f].payload.signature = frames[f].payload.key
  <2>1. CASE RecordMissing(f)
    BY <2>1 DEF RecordMissing, ChallengeTypeOK
  <2>2. CASE Verified(f)
    BY <2>2 DEF Verified, ChallengeTypeOK
  <2>3. QED BY <2>1, <2>2
<1>4. ChallengeTypeOK'
  <2>1. CASE RecordMissing(f)
    BY <2>1 DEF RecordMissing, ChallengeTypeOK
  <2>2. CASE Verified(f)
    BY <2>2 DEF Verified, ChallengeTypeOK
  <2>3. QED BY <2>1, <2>2
<1>5. \A g \in Frames : frames'[g].payload = frames[g].payload /\ (Holds(g)' => Holds(g))
  BY <1>2, <1>3 DEF Holds
<1>6. StoredIsAnswered' /\ HeldByOne' /\ AcceptedIsSigned'
  BY <1>1, <1>2, <1>3, <1>5 DEF StoredIsAnswered, HeldByOne, AcceptedIsSigned, NoRecord
<1>7. HeldIsTaken'
  BY <1>1, <1>2, <1>3, <1>5 DEF HeldIsTaken, ChallengeOf, NoRecord, Holds
<1>8. QED BY <1>4, <1>6, <1>7

LEMMA ChallengeNextInv == ChallengeInv /\ [ChallengeNext]_challengeVars => ChallengeInv'
<1> SUFFICES ASSUME ChallengeInv, [ChallengeNext]_challengeVars PROVE ChallengeInv'
  OBVIOUS
<1>1. CASE Tick
  BY <1>1, TickKeepsInv
<1>2. ASSUME NEW c \in Challenges, ChallengeAnswered(c) PROVE ChallengeInv'
  BY <1>2, AnsweredKeepsInv
<1>3. ASSUME NEW c \in Challenges, NEW k \in Keys, ChallengeRequested(c, k) PROVE ChallengeInv'
  BY <1>3, RequestedKeepsInv
<1>4. ASSUME NEW f \in Frames, RecordTaken(f) PROVE ChallengeInv'
  BY <1>4, TakenKeepsInv
<1>5. ASSUME NEW f \in Frames, RecordMissing(f) \/ Verified(f) PROVE ChallengeInv'
  BY <1>5, SettledKeepsInv
<1>6. ASSUME NEW f \in Frames, NEW p \in Payload, ConnectReceived(f, p) PROVE ChallengeInv'
  BY <1>6, ReceivedKeepsInv
<1>7. CASE UNCHANGED challengeVars
  BY <1>7 DEF challengeVars, ChallengeInv, ChallengeTypeOK, StoredIsAnswered, HeldIsTaken,
              HeldByOne, AcceptedIsSigned, Holds, ChallengeOf, NoRecord
<1>8. QED BY <1>1, <1>2, <1>3, <1>4, <1>5, <1>6, <1>7 DEF ChallengeNext

-----------------------------------------------------------------------------
\* One challenge opens one connection, whatever number of frames race for it: they
\* all go through GETDEL, and nothing stores the record a second time.
THEOREM ChallengeOpensOnce == ChallengeSpec => []OpensOnce
<1>1. ChallengeInv => OpensOnce
  BY DEF ChallengeInv, HeldByOne, OpensOnce, Holds
<1>2. QED BY <1>1, ChallengeInitInv, ChallengeNextInv, PTL DEF ChallengeSpec

\* Whoever is accepted signed with the key the challenge was issued to and was
\* served by the time it was told: the record is read before the signature is
\* verified, and the time is that of the read.
THEOREM ChallengeOpensAsIssued == ChallengeSpec => []OpensAsIssued
<1>1. ChallengeInv => OpensAsIssued
  BY DEF ChallengeInv, HeldIsTaken, AcceptedIsSigned, OpensAsIssued, Holds
<1>2. QED BY <1>1, ChallengeInitInv, ChallengeNextInv, PTL DEF ChallengeSpec

\* The two together: no frame that steals, replays or races for a challenge opens
\* a connection with it but the owner's, and that once.
THEOREM ChallengeOpensOnceAsIssued == ChallengeSpec => []OpensOnceAsIssued
BY ChallengeOpensOnce, ChallengeOpensAsIssued, PTL DEF OpensOnceAsIssued

-----------------------------------------------------------------------------
(* Whom a challenge refuses: RefusedOnlyIfTaken.                           *)

\* A challenge never expires later than the time to live from now.
ExpiryIsNear ==
  \A c \in Challenges : issued[c].pc # "new" => issued[c].expires <= now + ChallengeTtl

\* A client names a challenge it was answered.
NamedIsAnswered ==
  \A f \in Frames : frames[f].pc # "new" => ChallengeOf(f).pc = "answered"

\* A frame that was given a record has been served.
TakersAreServed ==
  \A c \in Challenges : \A f \in taken[c] : frames[f].pc \notin {"new", "take"}

\* Until somebody takes it a record is in Redis for as long as its challenge lasts.
UntakenIsThere ==
  \A c \in Challenges :
    issued[c].pc = "answered" /\ taken[c] = {} /\ now < issued[c].expires
      => records[c] # NoRecord /\ issued[c].expires <= records[c]

RefusalInv ==
  /\ ChallengeInv
  /\ ExpiryIsNear
  /\ NamedIsAnswered
  /\ TakersAreServed
  /\ UntakenIsThere
  /\ RefusedOnlyIfTaken

\* The numbers that are compared.
LEMMA TimesAreNumbers ==
  ASSUME ChallengeTypeOK
  PROVE  /\ now \in Nat /\ now <= LastSecond /\ ChallengeTtl \in Nat /\ NoRecord \in Nat
         /\ LastSecond + ChallengeTtl < NoRecord
         /\ \A c \in Challenges : issued[c].expires \in Nat /\ records[c] \in Nat
         /\ \A f \in Frames : /\ frames[f].checked \in Nat
                              /\ frames[f].payload.challenge \in Challenges
BY ClockAssumption DEF ChallengeTypeOK, NoRecord, Payload

\* A challenge is requested, or answered: what was answered stays as it is.
LEMMA IssueKeepsRefusals ==
  ASSUME RefusalInv, NEW c \in Challenges,
         ChallengeAnswered(c) \/ \E k \in Keys : ChallengeRequested(c, k)
  PROVE  /\ ExpiryIsNear' /\ NamedIsAnswered' /\ TakersAreServed' /\ UntakenIsThere'
         /\ RefusedOnlyIfTaken'
<1> USE DEF RefusalInv, ChallengeInv
<1>0. ChallengeTypeOK
  OBVIOUS
<1>1. /\ issued[c].pc # "answered" /\ UNCHANGED <<now, frames, taken>>
      /\ \A d \in Challenges \ {c} : issued'[d] = issued[d] /\ records'[d] = records[d]
      /\ \/ issued'[c].pc = "sign" /\ issued'[c].expires = now + ChallengeTtl
         \/ /\ issued[c].pc = "sign" /\ issued'[c].pc = "answered"
            /\ issued'[c].expires = issued[c].expires
            /\ records'[c] = now + ChallengeTtl
  <2>1. CASE ChallengeAnswered(c)
    BY <1>0, <2>1 DEF ChallengeAnswered, StoresRecord, ChallengeTypeOK
  <2>2. ASSUME NEW k \in Keys, ChallengeRequested(c, k)
        PROVE  /\ issued[c].pc # "answered" /\ UNCHANGED <<now, frames, taken>>
               /\ \A d \in Challenges \ {c} : issued'[d] = issued[d] /\ records'[d] = records[d]
               /\ issued'[c].pc = "sign" /\ issued'[c].expires = now + ChallengeTtl
    BY <1>0, <2>2 DEF ChallengeRequested, ChallengeTypeOK
  <2>3. QED BY <2>1, <2>2
<1>2. \A d \in Challenges : issued[d].pc = "answered" => issued'[d] = issued[d]
  BY <1>1
<1>3. ExpiryIsNear'
  BY <1>1, TimesAreNumbers DEF ExpiryIsNear
<1>4. NamedIsAnswered' /\ RefusedOnlyIfTaken'
  BY <1>1, <1>2, TimesAreNumbers DEF NamedIsAnswered, RefusedOnlyIfTaken, ChallengeOf
<1>5. TakersAreServed'
  BY <1>1 DEF TakersAreServed
<1>6. UntakenIsThere'
  <2> SUFFICES ASSUME NEW d \in Challenges, issued'[d].pc = "answered", taken[d] = {},
                      now < issued'[d].expires
               PROVE  records'[d] # NoRecord /\ issued'[d].expires <= records'[d]
    BY <1>1 DEF UntakenIsThere, NoRecord
  <2>1. CASE d = c
    <3>1. /\ issued[c].pc = "sign" /\ records'[c] = now + ChallengeTtl
          /\ issued'[c].expires = issued[c].expires
      BY <1>1, <2>1
    <3>2. issued[c].expires <= now + ChallengeTtl
      BY <3>1 DEF ExpiryIsNear
    <3>3. now + ChallengeTtl # NoRecord
      <4>1. /\ now \in Nat /\ now <= LastSecond /\ ChallengeTtl \in Nat /\ LastSecond \in Nat
        BY TimesAreNumbers, ClockAssumption
      <4>2. QED BY <4>1 DEF NoRecord
    <3>4. QED BY <2>1, <3>1, <3>2, <3>3
  <2>2. CASE d # c
    BY <1>1, <2>2 DEF UntakenIsThere
  <2>3. QED BY <2>1, <2>2
<1>7. QED BY <1>3, <1>4, <1>5, <1>6

\* A second passes: what Redis drops has expired.
LEMMA TickKeepsRefusals ==
  ASSUME RefusalInv, Tick
  PROVE  /\ ExpiryIsNear' /\ NamedIsAnswered' /\ TakersAreServed' /\ UntakenIsThere'
         /\ RefusedOnlyIfTaken'
<1> USE DEF RefusalInv, ChallengeInv
<1>1. /\ now' = now + 1 /\ UNCHANGED <<issued, frames, taken>>
      /\ \A c \in Challenges : records'[c] = IF records[c] <= now' THEN NoRecord ELSE records[c]
  BY DEF Tick
<1>2. ExpiryIsNear'
  BY <1>1, TimesAreNumbers DEF ExpiryIsNear
<1>3. NamedIsAnswered' /\ TakersAreServed' /\ RefusedOnlyIfTaken'
  BY <1>1 DEF NamedIsAnswered, TakersAreServed, RefusedOnlyIfTaken, ChallengeOf
<1>4. UntakenIsThere'
  BY <1>1, TimesAreNumbers DEF UntakenIsThere, NoRecord
<1>5. QED BY <1>2, <1>3, <1>4

\* One frame moves: when no record changes and it is refused for a reason, nothing
\* else does.
LEMMA FrameKeepsRefusals ==
  ASSUME RefusalInv, NEW f \in Frames, UNCHANGED <<now, issued>>,
         \A g \in Frames \ {f} : frames'[g] = frames[g],
         frames'[f].pc \notin {"new", "take"} \/ frames[f].pc = "new",
         issued[frames'[f].payload.challenge].pc = "answered",
         \A c \in Challenges : taken[c] \subseteq taken'[c] /\ taken'[c] \subseteq taken[c] \cup {f},
         \A c \in Challenges : taken'[c] = taken[c] \/ frames'[f].pc \notin {"new", "take"},
         \A c \in Challenges : records'[c] = records[c] \/ taken'[c] # {},
         /\ frames'[f].pc = "refused"
         /\ frames'[f].payload.key = issued[frames'[f].payload.challenge].key
         /\ frames'[f].payload.signature = issued[frames'[f].payload.challenge].key
         /\ frames'[f].checked < issued[frames'[f].payload.challenge].expires
         => taken'[frames'[f].payload.challenge] \ {f} # {}
  PROVE  /\ ExpiryIsNear' /\ NamedIsAnswered' /\ TakersAreServed' /\ UntakenIsThere'
         /\ RefusedOnlyIfTaken'
<1> USE DEF RefusalInv, ChallengeInv
<1>1. ExpiryIsNear' /\ NamedIsAnswered'
  BY DEF ExpiryIsNear, NamedIsAnswered, ChallengeOf
<1>2. TakersAreServed'
  <2> SUFFICES ASSUME NEW c \in Challenges, NEW g \in taken'[c]
               PROVE  frames'[g].pc \notin {"new", "take"}
    BY DEF TakersAreServed
  <2>1. taken[c] \subseteq Frames
    BY DEF ChallengeTypeOK
  <2>2. CASE g = f /\ taken'[c] = taken[c]
    BY <2>2 DEF TakersAreServed
  <2>3. CASE g = f /\ taken'[c] # taken[c]
    BY <2>3
  <2>4. CASE g # f
    BY <2>1, <2>4 DEF TakersAreServed
  <2>5. QED BY <2>2, <2>3, <2>4
<1>3. UntakenIsThere'
  BY DEF UntakenIsThere, NoRecord
<1>4. RefusedOnlyIfTaken'
  <2> SUFFICES ASSUME NEW g \in Frames,
                      frames'[g].pc = "refused",
                      frames'[g].payload.key = ChallengeOf(g)'.key,
                      frames'[g].payload.signature = ChallengeOf(g)'.key,
                      frames'[g].checked < ChallengeOf(g)'.expires
               PROVE  taken'[frames'[g].payload.challenge] \ {g} # {}
    BY DEF RefusedOnlyIfTaken
  <2>1. CASE g = f
    BY <2>1 DEF ChallengeOf
  <2>2. CASE g # f
    BY <2>2, TimesAreNumbers DEF RefusedOnlyIfTaken, ChallengeOf
  <2>3. QED BY <2>1, <2>2
<1>5. QED BY <1>1, <1>2, <1>3, <1>4

\* The record is taken out, and judged at once.
LEMMA TakenKeepsRefusals ==
  ASSUME RefusalInv, NEW f \in Frames, RecordTaken(f)
  PROVE  /\ ExpiryIsNear' /\ NamedIsAnswered' /\ TakersAreServed' /\ UntakenIsThere'
         /\ RefusedOnlyIfTaken'
<1> USE DEF RefusalInv, ChallengeInv
<1> DEFINE c == frames[f].payload.challenge
<1>1. c \in Challenges /\ issued[c].expires \in Nat /\ now \in Nat
  BY TimesAreNumbers
<1>2. /\ records' = [records EXCEPT ![c] = NoRecord]
      /\ taken' = [taken EXCEPT ![c] = @ \cup {f}]
      /\ frames' = [frames EXCEPT ![f].checked = now,
                                  ![f].pc = IF PassesChecks(f) THEN "verify" ELSE "refused"]
      /\ UNCHANGED <<now, issued>>
      /\ frames[f].pc = "take"
  BY DEF RecordTaken, Removes
<1>3. /\ \A g \in Frames \ {f} : frames'[g] = frames[g]
      /\ frames'[f].payload = frames[f].payload /\ frames'[f].checked = now
      /\ frames'[f].pc = IF PassesChecks(f) THEN "verify" ELSE "refused"
  BY <1>2 DEF ChallengeTypeOK
<1>4. /\ \A d \in Challenges : taken'[d] = IF d = c THEN taken[d] \cup {f} ELSE taken[d]
      /\ \A d \in Challenges \ {c} : records'[d] = records[d]
  BY <1>1, <1>2 DEF ChallengeTypeOK
<1>5. issued[c].pc = "answered"
  BY <1>2 DEF NamedIsAnswered, ChallengeOf
<1>6. ~(/\ frames'[f].pc = "refused"
        /\ frames'[f].payload.key = issued[c].key
        /\ frames'[f].checked < issued[c].expires)
  BY <1>1, <1>3 DEF PassesChecks
<1>7. /\ frames'[f].pc \notin {"new", "take"}
      /\ frames'[f].payload.challenge = c
  BY <1>3
<1>8. /\ \A d \in Challenges : taken[d] \subseteq taken'[d] /\ taken'[d] \subseteq taken[d] \cup {f}
      /\ \A d \in Challenges : records'[d] = records[d] \/ taken'[d] # {}
  BY <1>4
<1>9. UNCHANGED <<now, issued>>
  BY <1>2
<1>10. QED
  BY <1>3, <1>5, <1>6, <1>7, <1>8, <1>9, FrameKeepsRefusals

\* There is no record: it has been taken, or the time the client was told is over.
LEMMA MissingKeepsRefusals ==
  ASSUME RefusalInv, NEW f \in Frames, RecordMissing(f)
  PROVE  /\ ExpiryIsNear' /\ NamedIsAnswered' /\ TakersAreServed' /\ UntakenIsThere'
         /\ RefusedOnlyIfTaken'
<1> USE DEF RefusalInv, ChallengeInv
<1> DEFINE c == frames[f].payload.challenge
<1>1. c \in Challenges
  BY TimesAreNumbers
<1>2. /\ frames[f].pc = "take" /\ records[c] = NoRecord
      /\ frames' = [frames EXCEPT ![f].checked = now, ![f].pc = "refused"]
      /\ UNCHANGED <<now, issued, records, taken>>
  BY DEF RecordMissing
<1>3. /\ \A g \in Frames \ {f} : frames'[g] = frames[g]
      /\ frames'[f].payload = frames[f].payload /\ frames'[f].checked = now
      /\ frames'[f].pc = "refused"
  BY <1>2 DEF ChallengeTypeOK
<1>4. issued[c].pc = "answered"
  BY <1>2 DEF NamedIsAnswered, ChallengeOf
<1>5. now < issued[c].expires => taken[c] # {}
  BY <1>1, <1>2, <1>4 DEF UntakenIsThere
<1>6. f \notin taken[c]
  BY <1>1, <1>2 DEF TakersAreServed
<1>7. now < issued[c].expires => taken'[c] \ {f} # {}
  BY <1>2, <1>5, <1>6
<1>8. QED BY <1>2, <1>3, <1>4, <1>7, FrameKeepsRefusals

\* A frame names its challenge, or its signature is judged.
LEMMA FrameStepKeepsRefusals ==
  ASSUME RefusalInv, NEW f \in Frames,
         Verified(f) \/ \E p \in Payload : ConnectReceived(f, p)
  PROVE  /\ ExpiryIsNear' /\ NamedIsAnswered' /\ TakersAreServed' /\ UntakenIsThere'
         /\ RefusedOnlyIfTaken'
<1> USE DEF RefusalInv, ChallengeInv
<1>1. ASSUME NEW p \in Payload, ConnectReceived(f, p)
      PROVE  /\ ExpiryIsNear' /\ NamedIsAnswered' /\ TakersAreServed' /\ UntakenIsThere'
             /\ RefusedOnlyIfTaken'
  <2>1. /\ frames[f].pc = "new" /\ issued[p.challenge].pc = "answered"
        /\ UNCHANGED <<now, issued, records, taken>>
        /\ \A g \in Frames \ {f} : frames'[g] = frames[g]
        /\ frames'[f].payload = p /\ frames'[f].pc = "take"
    BY <1>1 DEF ConnectReceived, ChallengeTypeOK
  <2>2. QED BY <2>1, FrameKeepsRefusals
<1>2. CASE Verified(f)
  <2>1. /\ frames[f].pc = "verify"
        /\ UNCHANGED <<now, issued, records, taken>>
        /\ \A g \in Frames \ {f} : frames'[g] = frames[g]
        /\ frames'[f].payload = frames[f].payload
        /\ frames'[f].pc = IF frames[f].payload.signature = frames[f].payload.key
                           THEN "accepted" ELSE "refused"
    BY <1>2 DEF Verified, ChallengeTypeOK
  <2>2. issued[frames[f].payload.challenge].pc = "answered"
    BY <2>1 DEF NamedIsAnswered, ChallengeOf
  <2>3. QED BY <2>1, <2>2, FrameKeepsRefusals
<1>3. QED BY <1>1, <1>2

\* A client that signs its own challenge in time is refused only when another frame
\* has taken the challenge: for any clock, time to live and number of sockets.
THEOREM ChallengeRefusesOnlyTaken == ChallengeSpec => []RefusedOnlyIfTaken
<1>1. ChallengeInit => RefusalInv
  <2> SUFFICES ASSUME ChallengeInit PROVE RefusalInv
    OBVIOUS
  <2>1. ChallengeInv
    BY ChallengeInitInv
  <2>2. /\ \A c \in Challenges : issued[c].pc = "new" /\ taken[c] = {}
        /\ \A f \in Frames : frames[f].pc = "new"
    BY DEF ChallengeInit
  <2>3. QED
    BY <2>1, <2>2 DEF RefusalInv, ExpiryIsNear, NamedIsAnswered, TakersAreServed,
       UntakenIsThere, RefusedOnlyIfTaken
<1>2. RefusalInv /\ [ChallengeNext]_challengeVars => RefusalInv'
  <2> SUFFICES ASSUME RefusalInv, [ChallengeNext]_challengeVars PROVE RefusalInv'
    OBVIOUS
  <2>1. ChallengeInv'
    BY ChallengeNextInv DEF RefusalInv
  <2>2. CASE UNCHANGED challengeVars
    BY <2>1, <2>2 DEF challengeVars, RefusalInv, ExpiryIsNear, NamedIsAnswered,
       TakersAreServed, UntakenIsThere, RefusedOnlyIfTaken, ChallengeOf, NoRecord
  <2>3. CASE ChallengeNext
    BY <2>1, <2>3, IssueKeepsRefusals, TickKeepsRefusals, TakenKeepsRefusals,
       MissingKeepsRefusals, FrameStepKeepsRefusals DEF ChallengeNext, RefusalInv
  <2>4. QED BY <2>2, <2>3
<1>3. RefusalInv => RefusedOnlyIfTaken
  BY DEF RefusalInv
<1>4. QED BY <1>1, <1>2, <1>3, PTL DEF ChallengeSpec
=============================================================================
