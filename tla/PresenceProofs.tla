--------------------------- MODULE PresenceProofs ---------------------------
(***************************************************************************)
(* For any accounts, pages and sockets: nobody is shown in the room whose  *)
(* sockets are all cleaned up, a user who has left stays out, and a room   *)
(* is taken out of the map with its last handler.                          *)
(***************************************************************************)
EXTENDS Presence, FiniteSetTheorems, WellFoundedInduction, TLAPS

Frames == {"join", "state", "leave"}

Labels == {"none", "read", "update", "prune", "cleanup", "last_leave", "last_prune", "gone"}

ConnType == [user : Users \cup {0}, frames : Seq(Frames), pc : Labels, room : Rooms \cup {0}]

-----------------------------------------------------------------------------
(* The inductive invariant *)

Joined(k) == \E c \in Clients : client[c].socket = k /\ client[c].joined

\* A socket that explains why its user is in the room: its page has joined, or
\* something that will take the user out is still to come on it: a frame, the
\* end of a call, or the cleanup.  A handler that is about to prune has taken
\* the user out already.
Vouches(k) ==
    \/ conn[k].pc \in {"update", "cleanup", "last_leave"}
    \/ conn[k].pc \in {"read", "prune"} /\ (conn[k].frames # <<>> \/ ~Open(k) \/ Joined(k))

\* When the page behind a socket is not in the room, the last frame it sent is
\* a leave, and the handler has yet to read it if it is about to update a room.
ConnInv(k) ==
    /\ conn[k].pc # "none" => UserOf(k) \in Users
    /\ conn[k].pc = "update" => conn[k].room # 0
    /\ Reading(k) /\ Open(k) /\ ~Joined(k) =>
        /\ conn[k].pc = "update" => conn[k].frames # <<>>
        /\ conn[k].frames # <<>> => conn[k].frames[Len(conn[k].frames)] = "leave"

\* A page's socket is its own, and its timer runs only while it has joined.
ClientInv(c) ==
    /\ client[c].timer => client[c].joined
    /\ Up(c) =>
        /\ conn[client[c].socket].pc # "none"
        /\ UserOf(client[c].socket) = user[c]
        /\ \A d \in Clients \ {c} : client[d].socket # client[c].socket

PresentInv == \A u \in entries : \E k \in Conns : UserOf(k) = u /\ Vouches(k)

IInv ==
    /\ TypeOK
    /\ \A k \in Conns : ConnInv(k)
    /\ \A c \in Clients : ClientInv(c)
    /\ mapped = 0 => entries = {}
    /\ PresentInv
    /\ RoomsReleased

-----------------------------------------------------------------------------
(* Rooms: there is always a number to give to a new one *)

LEMMA LeastNat ==
    ASSUME NEW S \in SUBSET Nat, S # {}
    PROVE  \E x \in S : \A y \in S : x <= y
<1>1. PICK x \in S : \A y \in S : ~ (<<y, x>> \in OpToRel(<, Nat))
  BY NatLessThanWellFounded, WFMin
<1>2. \A y \in S : ~(y < x)
  <2> SUFFICES ASSUME NEW y \in S, y < x PROVE FALSE
    OBVIOUS
  <2>1. <<y, x>> \in Nat \X Nat
    OBVIOUS
  <2>2. <<y, x>> \in OpToRel(<, Nat)
    BY <2>1 DEF OpToRel
  <2> QED BY <2>2, <1>1
<1>3. \A y \in S : x <= y
  BY <1>2
<1> QED BY <1>3

\* Joins under way hold at most one room each, and there is one more number.
LEMMA SomeRoomIsFree == ASSUME TypeOK, mapped = 0 PROVE Free # {}
<1> DEFINE roomOf == [k \in Conns |-> conn[k].room]
           held == {roomOf[k] : k \in Conns}
<1>1. IsFiniteSet(Conns) /\ Cardinality(Conns) = MaxConns
  BY ConstantsAreNumbers, FS_Interval DEF Conns
<1>2. IsFiniteSet(held) /\ Cardinality(held) <= MaxConns
  <2>1. roomOf \in Surjection(Conns, held)
    BY DEF Surjection
  <2> HIDE DEF roomOf, held
  <2> QED BY <1>1, <2>1, FS_Surjection
<1>3. IsFiniteSet(Rooms) /\ Cardinality(Rooms) = MaxConns + 1
  BY ConstantsAreNumbers, FS_Interval DEF Rooms
<1>4. Cardinality(held) \in Nat
  BY <1>2, FS_CardinalityType
<1>5. ~(Rooms \subseteq held)
  <2> SUFFICES ASSUME Rooms \subseteq held PROVE FALSE
    OBVIOUS
  <2>1. Cardinality(Rooms) <= Cardinality(held)
    BY <1>2, FS_Subset
  <2> QED BY <1>2, <1>3, <1>4, <2>1, ConstantsAreNumbers
<1>6. PICK i \in Rooms : i \notin held
  BY <1>5
<1>7. i # 0 /\ \A k \in Conns : conn[k].room # i
  BY <1>6 DEF Rooms
<1> QED BY <1>7 DEF Free

LEMMA NewRoom ==
    ASSUME TypeOK, mapped = 0
    PROVE  (CHOOSE j \in Free : \A l \in Free : j <= l) \in Rooms
<1>1. Free \in SUBSET Nat /\ Free # {} /\ Free \subseteq Rooms
  BY SomeRoomIsFree DEF Free, Rooms
<1>2. \E j \in Free : \A l \in Free : j <= l
  BY <1>1, LeastNat
<1>3. (CHOOSE j \in Free : \A l \in Free : j <= l) \in Free
  BY <1>2, Zenon
<1> QED BY <1>1, <1>3

-----------------------------------------------------------------------------
(* Steps of a handler *)

LEMMA InitIInv == Init => IInv
<1> SUFFICES ASSUME Init PROVE IInv
  OBVIOUS
<1>1. NewConn \in ConnType /\ NewConn.pc = "none"
  BY DEF NewConn, ConnType, Frames, Labels
<1>2. \A k \in Conns : conn[k] = NewConn
  BY DEF Init
<1>3. \A c \in Clients : client[c].socket = 0 /\ client[c].timer = FALSE
  BY DEF Init, NewClient
<1>4. TypeOK
  BY <1>1, ConstantsAreNumbers DEF Init, TypeOK, NewClient, ConnType, Frames, Labels
<1>5. \A k \in Conns : ConnInv(k)
  BY <1>1, <1>2 DEF ConnInv, Reading
<1>6. \A c \in Clients : ClientInv(c)
  BY <1>3 DEF ClientInv, Up
<1> QED BY <1>4, <1>5, <1>6 DEF IInv, Init, PresentInv, RoomsReleased

\* What one handler's step leaves alone: the other sockets and the pages.
LEMMA ServerMove ==
    ASSUME IInv, NEW k \in Conns, NEW r \in ConnType, conn' = [conn EXCEPT ![k] = r],
           r.user = conn[k].user, conn[k].pc # "none", r.pc # "none",
           user' = user, client' = client
    PROVE  /\ conn' \in [Conns -> ConnType]
           /\ conn'[k] = r
           /\ Open(k)' = Open(k) /\ Joined(k)' = Joined(k)
           /\ UserOf(k)' = UserOf(k) /\ UserOf(k) \in Users
           /\ \A j \in Conns \ {k} : /\ UserOf(j)' = UserOf(j)
                                     /\ Vouches(j)' = Vouches(j)
                                     /\ ConnInv(j)'
           /\ \A c \in Clients : ClientInv(c)'
<1>1. conn \in [Conns -> ConnType]
  BY DEF IInv, TypeOK, ConnType, Frames, Labels
<1>2. conn' \in [Conns -> ConnType] /\ conn'[k] = r /\ \A j \in Conns \ {k} : conn'[j] = conn[j]
  BY <1>1
<1>3. \A j : Open(j)' = Open(j) /\ Joined(j)' = Joined(j)
  BY DEF Open, Joined
<1>4. UserOf(k)' = UserOf(k) /\ UserOf(k) \in Users
  BY <1>2 DEF UserOf, IInv, ConnInv
<1>5. ASSUME NEW j \in Conns \ {k}
      PROVE  UserOf(j)' = UserOf(j) /\ Vouches(j)' = Vouches(j) /\ ConnInv(j)'
  <2>1. conn'[j] = conn[j]
    BY <1>2
  <2>2. UserOf(j)' = UserOf(j) /\ Vouches(j)' = Vouches(j)
    BY <2>1, <1>3 DEF UserOf, Vouches
  <2>3. ConnInv(j)
    BY DEF IInv
  <2> QED BY <2>1, <2>2, <2>3, <1>3 DEF ConnInv, Reading, UserOf
<1>6. ASSUME NEW c \in Clients PROVE ClientInv(c)'
  <2>1. ClientInv(c) /\ (Up(c) => client[c].socket \in Conns)
    BY DEF IInv, TypeOK, Up
  <2>2. Up(c) => conn'[client[c].socket].pc # "none" /\ conn'[client[c].socket].user = conn[client[c].socket].user
    BY <1>2, <2>1 DEF ClientInv
  <2> QED BY <2>1, <2>2 DEF ClientInv, Up, UserOf
<1> QED BY <1>2, <1>3, <1>4, <1>5, <1>6

\* A handler's step keeps the invariant if the socket's own part is kept, and
\* its user stays in the room only with a socket that vouches.
LEMMA ServerStep ==
    ASSUME IInv, NEW k \in Conns, NEW r \in ConnType, conn' = [conn EXCEPT ![k] = r],
           r.user = conn[k].user, conn[k].pc # "none", r.pc # "none",
           UNCHANGED <<user, client, sent>>,
           ConnInv(k)',
           entries' \subseteq entries \cup {UserOf(k)},
           UserOf(k) \notin entries' \/ Vouches(k)' \/ (entries' \subseteq entries /\ ~Vouches(k)),
           mapped' \in Rooms \cup {0}, mapped' = 0 => entries' = {}, rate' \in 0 .. MaxRate,
           r.pc # "gone" \/ mapped' = 0 \/ entries' # {}
    PROVE  IInv'
<1>1. /\ conn' \in [Conns -> ConnType] /\ conn'[k] = r
      /\ UserOf(k)' = UserOf(k) /\ UserOf(k) \in Users
      /\ \A j \in Conns \ {k} : /\ UserOf(j)' = UserOf(j)
                                /\ Vouches(j)' = Vouches(j)
                                /\ ConnInv(j)'
      /\ \A c \in Clients : ClientInv(c)'
  BY ServerMove
<1>2. TypeOK'
  BY <1>1 DEF IInv, TypeOK, ConnType, Frames, Labels
<1>3. \A j \in Conns : ConnInv(j)'
  BY <1>1
<1>4. PresentInv'
  <2> SUFFICES ASSUME NEW u \in entries'
               PROVE  \E j \in Conns : UserOf(j)' = u /\ Vouches(j)'
    BY DEF PresentInv
  <2>1. CASE u \in entries
    <3>1. PICK j \in Conns : UserOf(j) = u /\ Vouches(j)
      BY <2>1 DEF IInv, PresentInv
    <3>2. CASE j # k
      BY <1>1, <3>1, <3>2
    <3>3. CASE j = k
      BY <1>1, <3>1, <3>3
    <3> QED BY <3>2, <3>3
  <2>2. CASE u \notin entries
    <3>1. u = UserOf(k) /\ ~(entries' \subseteq entries)
      BY <2>2
    <3> QED BY <1>1, <3>1
  <2> QED BY <2>1, <2>2
<1>5. RoomsReleased'
  <2> SUFFICES ASSUME mapped' # 0 PROVE \E j \in Conns : Serving(j)'
    BY DEF RoomsReleased
  <2>1. CASE r.pc # "gone"
    BY <1>1, <2>1 DEF Serving
  <2>2. CASE entries' # {}
    <3>1. PICK j \in Conns : Vouches(j)'
      BY <1>4, <2>2 DEF PresentInv
    <3> QED BY <3>1 DEF Vouches, Serving
  <2> QED BY <2>1, <2>2
<1> QED BY <1>1, <1>2, <1>3, <1>4, <1>5 DEF IInv

LEMMA TailOfFrames ==
    ASSUME NEW s \in Seq(Frames), s # <<>>
    PROVE  /\ Tail(s) \in Seq(Frames)
           /\ Tail(s) = <<>> => s[Len(s)] = Head(s)
           /\ Tail(s) # <<>> => Tail(s)[Len(Tail(s))] = s[Len(s)]
<1>1. Len(s) \in Nat \ {0} /\ Len(Tail(s)) = Len(s) - 1 /\ Tail(s) \in Seq(Frames) /\ Head(s) = s[1]
  OBVIOUS
<1>2. Tail(s) = <<>> => Len(s) = 1
  <2>1. Len(<<>>) = 0
    OBVIOUS
  <2>2. Tail(s) = <<>> => Len(Tail(s)) = 0
    BY <2>1, Zenon
  <2> QED BY <1>1, <2>2
<1>3. Tail(s) # <<>> => Len(s) - 1 \in 1 .. Len(Tail(s))
  BY <1>1
<1> QED BY <1>1, <1>2, <1>3

\* A frame is read.  If the page is not in the room, what is left ends in its
\* leave, unless that is the frame just read.
LEMMA TookFrame ==
    ASSUME IInv, NEW k \in Conns, NEW frame, Reads(k, frame), NEW label \in Labels
    PROVE  /\ Took(k, label) \in ConnType
           /\ Took(k, label).user = conn[k].user /\ Took(k, label).pc = label
           /\ Took(k, label).frames = Tail(conn[k].frames)
           /\ Took(k, label).room = conn[k].room
           /\ Open(k) /\ ~Joined(k) =>
                /\ Tail(conn[k].frames) = <<>> => frame = "leave"
                /\ Tail(conn[k].frames) # <<>> =>
                     Tail(conn[k].frames)[Len(Tail(conn[k].frames))] = "leave"
<1> DEFINE s == conn[k].frames
<1>1. conn[k] \in ConnType /\ s \in Seq(Frames) /\ s # <<>> /\ Head(s) = frame /\ conn[k].pc = "read"
  BY DEF IInv, TypeOK, ConnType, Frames, Labels, Reads
<1>2. /\ Tail(s) \in Seq(Frames)
      /\ Tail(s) = <<>> => s[Len(s)] = Head(s)
      /\ Tail(s) # <<>> => Tail(s)[Len(Tail(s))] = s[Len(s)]
  BY <1>1, TailOfFrames
<1>3. Open(k) /\ ~Joined(k) => s[Len(s)] = "leave"
  BY <1>1 DEF IInv, ConnInv, Reading
<1>4. Took(k, label) \in ConnType
  BY <1>1, <1>2 DEF Took, ConnType
<1> QED BY <1>1, <1>2, <1>3, <1>4 DEF Took, ConnType

LEMMA JoinLooksUpStep ==
    ASSUME IInv, NEW k \in Conns, HandleJoin(k) \/ HandleStateJoins(k)
    PROVE  IInv'
<1>1. PICK frame \in {"join", "state"} : Reads(k, frame)
  BY DEF HandleJoin, HandleStateJoins
<1>2. JoinLooksUp(k) /\ UNCHANGED <<user, client, sent>>
  BY DEF HandleJoin, HandleStateJoins
<1> DEFINE i == IF mapped # 0 THEN mapped ELSE CHOOSE j \in Free : \A l \in Free : j <= l
           t == Took(k, "update")
           r == [t EXCEPT !.room = i]
<1>3. i \in Rooms /\ i # 0
  <2>1. 0 \notin Rooms /\ mapped \in Rooms \cup {0} /\ TypeOK
    BY DEF IInv, TypeOK, Rooms
  <2>2. CASE mapped = 0
    BY <2>1, <2>2, NewRoom
  <2>3. CASE mapped # 0
    BY <2>1, <2>3
  <2> QED BY <2>2, <2>3
<1>4. /\ t \in ConnType /\ t.user = conn[k].user /\ t.pc = "update" /\ t.frames = Tail(conn[k].frames)
      /\ Open(k) /\ ~Joined(k) =>
            t.frames # <<>> /\ t.frames[Len(t.frames)] = "leave"
  BY <1>1, TookFrame DEF Labels
<1>5. conn' = [conn EXCEPT ![k] = r] /\ mapped' = i
  BY <1>2 DEF JoinLooksUp
<1> HIDE DEF t, i
<1>6. /\ r \in ConnType /\ r.user = conn[k].user /\ r.pc = "update" /\ r.frames = t.frames
      /\ r.room = i
  BY <1>3, <1>4 DEF ConnType
<1>7. conn[k].pc # "none"
  BY <1>1 DEF Reads
<1>8. /\ conn'[k] = r /\ Open(k)' = Open(k) /\ Joined(k)' = Joined(k)
      /\ UserOf(k)' = UserOf(k) /\ UserOf(k) \in Users
  BY <1>2, <1>5, <1>6, <1>7, ServerMove
<1>9. ConnInv(k)'
  BY <1>3, <1>4, <1>6, <1>8 DEF ConnInv
<1>10. Vouches(k)'
  BY <1>6, <1>8 DEF Vouches
<1>11. entries' = entries /\ rate' \in 0 .. MaxRate
  <2>1. CASE mapped = 0
    BY <1>2, <2>1, ConstantsAreNumbers DEF JoinLooksUp, IInv
  <2>2. CASE mapped # 0
    BY <1>2, <2>2 DEF JoinLooksUp, IInv, TypeOK
  <2> QED BY <2>1, <2>2
<1> QED BY <1>2, <1>3, <1>5, <1>6, <1>7, <1>9, <1>10, <1>11, ServerStep

\* check_rate_limit and the insert.
LEMMA UpdateRoomType ==
    ASSUME TypeOK, NEW i, NEW u \in Users, UpdateRoom(i, u)
    PROVE  entries' \subseteq entries \cup {u} /\ rate' \in 0 .. MaxRate /\ (i # mapped => entries' = entries)
BY ConstantsAreNumbers DEF TypeOK, UpdateRoom

LEMMA JoinUpdatesStep == ASSUME IInv, NEW k \in Conns, JoinUpdates(k) PROVE IInv'
<1> DEFINE r == [conn[k] EXCEPT !.pc = "read", !.room = 0]
<1>1. conn[k] \in ConnType /\ conn[k].pc = "update" /\ ConnInv(k)
  BY DEF IInv, TypeOK, ConnType, Frames, Labels, JoinUpdates
<1>2. r \in ConnType /\ r.user = conn[k].user /\ r.pc = "read" /\ r.frames = conn[k].frames
  BY <1>1 DEF ConnType, Labels
<1>3. conn' = [conn EXCEPT ![k] = r] /\ UNCHANGED <<user, client, mapped, sent>>
  BY DEF JoinUpdates
<1> HIDE DEF r
<1>4. /\ conn'[k] = r /\ Open(k)' = Open(k) /\ Joined(k)' = Joined(k)
      /\ UserOf(k)' = UserOf(k) /\ UserOf(k) \in Users
  BY <1>1, <1>2, <1>3, ServerMove
<1>5. ConnInv(k)' /\ Vouches(k)'
  BY <1>1, <1>2, <1>4 DEF ConnInv, Vouches, Reading
<1>6. entries' \subseteq entries \cup {UserOf(k)} /\ rate' \in 0 .. MaxRate
  BY <1>4, UpdateRoomType DEF JoinUpdates, IInv
<1>7. mapped' = 0 => entries' = {}
  <2>1. mapped = 0 => entries' = entries
    BY <1>1 DEF JoinUpdates, UpdateRoom, ConnInv
  <2> QED BY <1>3, <2>1 DEF IInv
<1> QED BY <1>1, <1>2, <1>3, <1>5, <1>6, <1>7, ServerStep DEF IInv, TypeOK

LEMMA HandleStateStep == ASSUME IInv, NEW k \in Conns, HandleState(k) PROVE IInv'
<1> DEFINE r == Took(k, "read")
<1>1. Reads(k, "state") /\ conn[k].pc = "read" /\ ConnInv(k)
  BY DEF HandleState, Reads, IInv
<1>2. /\ r \in ConnType /\ r.user = conn[k].user /\ r.pc = "read"
      /\ Open(k) /\ ~Joined(k) =>
            r.frames # <<>> /\ r.frames[Len(r.frames)] = "leave"
  <2>1. "read" \in Labels
    BY DEF Labels
  <2> HIDE DEF r
  <2>2. /\ r \in ConnType /\ r.user = conn[k].user /\ r.pc = "read"
        /\ r.frames = Tail(conn[k].frames)
        /\ Open(k) /\ ~Joined(k) =>
             /\ Tail(conn[k].frames) = <<>> => "state" = "leave"
             /\ Tail(conn[k].frames) # <<>> =>
                  Tail(conn[k].frames)[Len(Tail(conn[k].frames))] = "leave"
    BY <1>1, <2>1, TookFrame, Zenon DEF r
  <2> QED BY <2>2
<1>3. conn' = [conn EXCEPT ![k] = r] /\ UNCHANGED <<user, client, mapped, sent>> /\ mapped # 0
  BY DEF HandleState
<1> HIDE DEF r
<1>4. /\ conn'[k] = r /\ Open(k)' = Open(k) /\ Joined(k)' = Joined(k)
      /\ UserOf(k)' = UserOf(k) /\ UserOf(k) \in Users
  BY <1>1, <1>2, <1>3, ServerMove
<1>5. ConnInv(k)' /\ Vouches(k)'
  BY <1>1, <1>2, <1>4 DEF ConnInv, Vouches, Reading
<1>6. entries' \subseteq entries \cup {UserOf(k)} /\ rate' \in 0 .. MaxRate
  BY <1>4, UpdateRoomType DEF HandleState, IInv
<1> QED BY <1>1, <1>2, <1>3, <1>5, <1>6, ServerStep DEF IInv, TypeOK

LEMMA HandleLeaveStep == ASSUME IInv, NEW k \in Conns, HandleLeave(k) PROVE IInv'
<1>0. PICK label \in {"prune", "read"} : conn' = [conn EXCEPT ![k] = Took(k, label)]
  BY DEF HandleLeave
<1> DEFINE r == Took(k, label)
<1>1. Reads(k, "leave") /\ conn[k].pc = "read" /\ ConnInv(k)
  BY DEF HandleLeave, Reads, IInv
<1>2. /\ r \in ConnType /\ r.user = conn[k].user /\ r.pc = label
      /\ Open(k) /\ ~Joined(k) /\ r.frames # <<>> => r.frames[Len(r.frames)] = "leave"
  <2>1. label \in Labels
    BY DEF Labels
  <2> HIDE DEF r
  <2>2. /\ r \in ConnType /\ r.user = conn[k].user /\ r.pc = label
        /\ r.frames = Tail(conn[k].frames)
        /\ Open(k) /\ ~Joined(k) /\ Tail(conn[k].frames) # <<>> =>
                  Tail(conn[k].frames)[Len(Tail(conn[k].frames))] = "leave"
    BY <1>1, <2>1, TookFrame, Zenon DEF r
  <2> QED BY <2>2
<1>3. conn' = [conn EXCEPT ![k] = r] /\ UNCHANGED <<user, client, mapped, rate, sent>>
  BY <1>0 DEF HandleLeave
<1> HIDE DEF r
<1>4. /\ conn'[k] = r /\ Open(k)' = Open(k) /\ Joined(k)' = Joined(k)
      /\ UserOf(k)' = UserOf(k) /\ UserOf(k) \in Users
  BY <1>1, <1>2, <1>3, ServerMove
<1>5. ConnInv(k)'
  BY <1>1, <1>2, <1>4 DEF ConnInv, Reading
<1>6. entries' = entries \ {UserOf(k)}
  BY DEF HandleLeave, RemoveUser
<1>7. mapped' = 0 => entries' = {}
  BY <1>3, <1>6 DEF IInv
<1> QED BY <1>1, <1>2, <1>3, <1>5, <1>6, <1>7, ServerStep DEF IInv, TypeOK

\* A step of a handler that moves to another label and empties no room it did
\* not find empty.
LEMMA LabelStep ==
    ASSUME IInv, NEW k \in Conns, NEW label \in Labels \ {"none", "update"},
           conn[k].pc # "none",
           conn' = [conn EXCEPT ![k].pc = label], UNCHANGED <<user, client, sent>>,
           Reading(k) \/ label \notin {"read", "prune"},
           entries' \subseteq entries,
           \/ UserOf(k) \notin entries'
           \/ conn[k].pc \in {"read", "prune"} /\ label \in {"read", "prune"}
           \/ label \in {"cleanup", "last_leave"}
           \/ conn[k].pc \in {"last_prune", "gone"},
           mapped' \in Rooms \cup {0}, mapped' = 0 => entries' = {}, rate' \in 0 .. MaxRate,
           label # "gone" \/ mapped' = 0 \/ entries' # {}
    PROVE  IInv'
<1> DEFINE r == [conn[k] EXCEPT !.pc = label]
<1>1. conn[k] \in ConnType /\ ConnInv(k)
  BY DEF IInv, TypeOK, ConnType, Frames, Labels
<1>2. r \in ConnType /\ r.user = conn[k].user /\ r.pc = label /\ r.frames = conn[k].frames
  BY <1>1 DEF ConnType
<1>3. conn' = [conn EXCEPT ![k] = r]
  OBVIOUS
<1> HIDE DEF r
<1>4. /\ conn'[k] = r /\ Open(k)' = Open(k) /\ Joined(k)' = Joined(k)
      /\ UserOf(k)' = UserOf(k) /\ UserOf(k) \in Users
  BY <1>1, <1>2, <1>3, ServerMove
<1>5. ConnInv(k)'
  BY <1>1, <1>2, <1>4 DEF ConnInv, Reading, UserOf
<1>6. UserOf(k) \notin entries' \/ Vouches(k)' \/ ~Vouches(k)
  <2>1. CASE label \in {"cleanup", "last_leave"}
    BY <1>2, <1>4, <2>1 DEF Vouches
  <2>2. CASE conn[k].pc \in {"last_prune", "gone"}
    BY <2>2 DEF Vouches
  <2>3. CASE conn[k].pc \in {"read", "prune"} /\ label \in {"read", "prune"}
    BY <1>2, <1>4, <2>3 DEF Vouches
  <2> QED BY <2>1, <2>2, <2>3
<1> QED BY <1>1, <1>2, <1>3, <1>5, <1>6, ServerStep

LEMMA PruneStep ==
    ASSUME IInv, NEW k \in Conns, Prune(k) \/ LastPrune(k)
    PROVE  IInv'
<1>1. /\ UNCHANGED <<user, client, sent, entries>> /\ RemoveIfEmpty
      /\ \/ conn[k].pc = "prune" /\ conn' = [conn EXCEPT ![k].pc = "read"]
         \/ conn[k].pc = "last_prune" /\ conn' = [conn EXCEPT ![k].pc = "gone"]
  BY DEF Prune, LastPrune
<1>2. /\ mapped' \in Rooms \cup {0} /\ rate' \in 0 .. MaxRate
      /\ mapped' = 0 => entries' = {}
      /\ mapped' = 0 \/ entries' # {}
  BY <1>1, ConstantsAreNumbers DEF RemoveIfEmpty, IInv, TypeOK
<1>3. CASE conn[k].pc = "prune"
  BY <1>1, <1>2, <1>3, LabelStep DEF Labels, Reading
<1>4. CASE conn[k].pc = "last_prune"
  BY <1>1, <1>2, <1>4, LabelStep DEF Labels, Reading
<1> QED BY <1>1, <1>3, <1>4

LEMMA SocketEndsStep == ASSUME IInv, NEW k \in Conns, SocketEnds(k) PROVE IInv'
<1> DEFINE r == [conn[k] EXCEPT !.pc = "cleanup", !.frames = <<>>]
<1>1. conn[k] \in ConnType /\ conn[k].pc = "read" /\ ConnInv(k)
  BY DEF IInv, TypeOK, ConnType, Frames, Labels, SocketEnds
<1>2. r \in ConnType /\ r.user = conn[k].user /\ r.pc = "cleanup"
  <2>1. <<>> \in Seq(Frames) /\ "cleanup" \in Labels
    BY DEF Labels
  <2> QED BY <1>1, <2>1 DEF ConnType
<1>3. conn' = [conn EXCEPT ![k] = r] /\ UNCHANGED <<user, client, mapped, entries, rate, sent>>
  BY DEF SocketEnds, serverVars
<1> HIDE DEF r
<1>4. conn'[k] = r /\ UserOf(k)' = UserOf(k) /\ UserOf(k) \in Users
  BY <1>1, <1>2, <1>3, ServerMove
<1>5. ConnInv(k)' /\ Vouches(k)'
  BY <1>2, <1>4 DEF ConnInv, Vouches, Reading
<1> QED BY <1>1, <1>2, <1>3, <1>5, ServerStep DEF IInv, TypeOK

LEMMA CleanupStep == ASSUME IInv, NEW k \in Conns, Cleanup(k) PROVE IInv'
<1>1. conn[k].pc = "cleanup" /\ UNCHANGED <<user, client, mapped, entries, rate, sent>>
  BY DEF Cleanup, serverVars
<1>2. CASE mapped # 0
  <2>1. conn' = [conn EXCEPT ![k].pc = "last_leave"]
    BY <1>2 DEF Cleanup
  <2>2. "last_leave" \in Labels \ {"none", "update"}
    BY DEF Labels
  <2>3. mapped' \in Rooms \cup {0} /\ mapped' # 0 /\ rate' \in 0 .. MaxRate
    BY <1>1, <1>2 DEF IInv, TypeOK
  <2> QED BY <1>1, <2>1, <2>2, <2>3, LabelStep
<1>3. CASE mapped = 0
  <2>1. conn' = [conn EXCEPT ![k].pc = "gone"] /\ entries' = {}
    BY <1>1, <1>3 DEF Cleanup, IInv
  <2>2. "gone" \in Labels \ {"none", "update"}
    BY DEF Labels
  <2>3. mapped' = 0 /\ rate' \in 0 .. MaxRate
    BY <1>1, <1>3 DEF IInv, TypeOK
  <2> QED BY <1>1, <2>1, <2>2, <2>3, LabelStep
<1> QED BY <1>2, <1>3

LEMMA LastLeaveStep == ASSUME IInv, NEW k \in Conns, LastLeave(k) PROVE IInv'
<1>1. conn[k].pc = "last_leave" /\ UNCHANGED <<user, client, mapped, rate, sent>>
  BY DEF LastLeave
<1>2. entries' = entries \ {UserOf(k)} /\ (mapped' = 0 => entries' = {})
  BY <1>1 DEF LastLeave, RemoveUser, IInv
<1>5. mapped' \in Rooms \cup {0} /\ rate' \in 0 .. MaxRate
  BY <1>1 DEF IInv, TypeOK
<1>3. CASE Emptied(UserOf(k))
  <2>1. conn' = [conn EXCEPT ![k].pc = "last_prune"]
    BY <1>3 DEF LastLeave
  <2>2. "last_prune" \in Labels \ {"none", "update"}
    BY DEF Labels
  <2> QED BY <1>1, <1>2, <1>5, <2>1, <2>2, LabelStep
<1>4. CASE ~Emptied(UserOf(k))
  <2>1. conn' = [conn EXCEPT ![k].pc = "gone"]
    BY <1>4 DEF LastLeave
  <2>2. mapped' = 0 \/ entries' # {}
    BY <1>1, <1>2, <1>4 DEF Emptied
  <2>3. "gone" \in Labels \ {"none", "update"}
    BY DEF Labels
  <2> QED BY <1>1, <1>2, <1>5, <2>1, <2>2, <2>3, LabelStep
<1> QED BY <1>3, <1>4

\* An entry that expires, and a new second.
LEMMA TimeStep ==
    ASSUME IInv, (\E u \in Users : Expire(u)) \/ NewSecond
    PROVE  IInv'
<1>1. /\ UNCHANGED <<user, client, conn, mapped, sent>> /\ mapped # 0
      /\ entries' \subseteq entries /\ rate' \in 0 .. MaxRate
  BY ConstantsAreNumbers DEF Expire, NewSecond, RemoveUser, IInv, TypeOK
<1>2. \A k : /\ Open(k)' = Open(k) /\ Joined(k)' = Joined(k) /\ UserOf(k)' = UserOf(k)
             /\ Reading(k)' = Reading(k) /\ Serving(k)' = Serving(k)
  BY <1>1 DEF Open, Joined, UserOf, Reading, Serving
<1>3. \A k : Vouches(k)' = Vouches(k) /\ ConnInv(k)' = ConnInv(k)
  BY <1>1, <1>2 DEF Vouches, ConnInv
<1>4. \A c : ClientInv(c)' = ClientInv(c)
  BY <1>1 DEF ClientInv, Up, UserOf
<1>5. TypeOK'
  BY <1>1 DEF IInv, TypeOK
<1>6. PresentInv'
  BY <1>1, <1>2, <1>3 DEF IInv, PresentInv
<1>7. RoomsReleased'
  BY <1>1, <1>2 DEF IInv, RoomsReleased
<1> QED BY <1>1, <1>3, <1>4, <1>5, <1>6, <1>7 DEF IInv

-----------------------------------------------------------------------------
(* Steps of a page *)

ClientType == [socket : Conns \cup {0}, joined : BOOLEAN, timer : BOOLEAN]

\* A page that changes whether it has joined, and sends the frame that says so.
LEMMA SendStep ==
    ASSUME IInv, NEW c \in Clients, NEW x \in ClientType, client' = [client EXCEPT ![c] = x],
           x.socket = client[c].socket, x.timer => x.joined,
           NEW frame \in Frames, TriesToSend(c, frame), x.joined \/ frame = "leave",
           UNCHANGED <<user, mapped, entries, rate>>
    PROVE  IInv'
<1>0. PICK k : k = client[c].socket
  OBVIOUS
<1>1. /\ client \in [Clients -> ClientType] /\ client' \in [Clients -> ClientType]
      /\ client'[c] = x /\ \A d \in Clients \ {c} : client'[d] = client[d]
      /\ conn \in [Conns -> ConnType]
  BY DEF IInv, TypeOK, ClientType, ConnType, Frames, Labels
<1>2. \A d \in Clients : client'[d].socket = client[d].socket
  BY <1>1
<1>3. \A j : Open(j)' = Open(j)
  BY <1>2 DEF Open
<1>4. \A j : j # k => Joined(j)' = Joined(j)
  BY <1>0, <1>1 DEF Joined
<1>5. ClientInv(c)
  BY DEF IInv
<1>6. ASSUME Up(c) PROVE k \in Conns /\ (Joined(k)' <=> x.joined) /\ conn[k].pc # "none" /\ Open(k)
  <2>1. k \in Conns /\ conn[k].pc # "none" /\ \A d \in Clients \ {c} : client[d].socket # k
    BY <1>0, <1>1, <1>5, <1>6 DEF ClientType, Up, ClientInv
  <2> QED BY <1>0, <1>1, <2>1 DEF Joined, Open
<1>7. /\ sent' \in 0 .. MaxFrames
      /\ \/ conn' = conn /\ (Up(c) => ~Reading(k))
         \/ Up(c) /\ Reading(k) /\ conn' = [conn EXCEPT ![k].frames = Append(@, frame)]
  BY <1>0, ConstantsAreNumbers DEF TriesToSend, Sends, IInv, TypeOK
<1>8. /\ conn' \in [Conns -> ConnType]
      /\ \A j \in Conns : conn'[j].pc = conn[j].pc /\ conn'[j].user = conn[j].user /\ conn'[j].room = conn[j].room
      /\ \A j \in Conns \ {k} : conn'[j] = conn[j]
      /\ ~Reading(k) => conn' = conn
      /\ Up(c) /\ Reading(k) => conn'[k].frames = Append(conn[k].frames, frame)
  <2>1. CASE conn' = conn /\ (Up(c) => ~Reading(k))
    BY <1>1, <2>1
  <2>2. CASE Up(c) /\ Reading(k) /\ conn' = [conn EXCEPT ![k].frames = Append(@, frame)]
    <3> DEFINE r == [conn[k] EXCEPT !.frames = Append(conn[k].frames, frame)]
    <3>0. k \in Conns /\ conn[k] \in ConnType /\ conn[k].frames \in Seq(Frames)
      BY <1>1, <1>6, <2>2 DEF ConnType
    <3>1. conn[k] \in ConnType /\ Append(conn[k].frames, frame) \in Seq(Frames)
      BY <3>0
    <3>2. r \in ConnType /\ r.pc = conn[k].pc /\ r.user = conn[k].user /\ r.room = conn[k].room
          /\ r.frames = Append(conn[k].frames, frame)
      BY <3>1 DEF ConnType
    <3>3. conn' = [conn EXCEPT ![k] = r]
      BY <2>2
    <3> HIDE DEF r
    <3> QED BY <1>1, <2>2, <3>0, <3>2, <3>3
  <2> QED BY <1>7, <2>1, <2>2
<1>9. ASSUME Up(c), Reading(k)
      PROVE  /\ conn'[k].frames # <<>>
             /\ conn'[k].frames[Len(conn'[k].frames)] = frame
  <2>1. conn[k].frames \in Seq(Frames)
    BY <1>1, <1>6, <1>9 DEF ConnType
  <2>2. conn'[k].frames = Append(conn[k].frames, frame)
    BY <1>8, <1>9
  <2>3. /\ Len(conn[k].frames) \in Nat /\ Len(conn'[k].frames) = Len(conn[k].frames) + 1
        /\ conn'[k].frames[Len(conn[k].frames) + 1] = frame
    BY <2>1, <2>2
  <2> QED BY <2>3
<1>10. \A j \in Conns : UserOf(j)' = UserOf(j) /\ Reading(j)' = Reading(j) /\ Serving(j)' = Serving(j)
  BY <1>8 DEF UserOf, Reading, Serving
<1>11. ASSUME NEW j \in Conns PROVE ConnInv(j)' /\ (Vouches(j) => Vouches(j)')
  <2>1. ConnInv(j)
    BY DEF IInv
  <2>2. CASE j # k
    BY <1>3, <1>4, <1>8, <1>10, <2>1, <2>2 DEF ConnInv, Vouches
  <2>3. CASE j = k /\ ~Reading(k)
    BY <1>8, <1>10, <2>1, <2>3 DEF ConnInv, Vouches, Reading
  <2>4. CASE j = k /\ Reading(k)
    <3>1. Up(c)
      BY <1>0, <2>4 DEF Up, Conns
    <3>2. /\ conn'[k].frames # <<>> /\ conn'[k].frames[Len(conn'[k].frames)] = frame
          /\ Joined(k)' <=> x.joined
      BY <1>6, <1>9, <2>4, <3>1
    <3>3. conn'[k].pc = conn[k].pc /\ conn'[k].room = conn[k].room
      BY <1>8, <2>4
    <3>4. ConnInv(k)'
      BY <1>10, <2>1, <2>4, <3>2, <3>3 DEF ConnInv
    <3>5. Vouches(k)'
      BY <2>4, <3>2, <3>3 DEF Vouches, Reading
    <3> QED BY <2>4, <3>4, <3>5
  <2> QED BY <2>2, <2>3, <2>4
<1>12. ASSUME NEW d \in Clients PROVE ClientInv(d)'
  <2>1. ClientInv(d) /\ (client[d].socket # 0 => client[d].socket \in Conns)
    BY <1>1 DEF IInv, ClientType
  <2>2. client'[d].timer => client'[d].joined
    BY <1>1, <2>1 DEF ClientInv
  <2>3. ASSUME client[d].socket # 0
        PROVE  /\ conn'[client[d].socket].pc # "none"
               /\ conn'[client[d].socket].user = user[d]
               /\ \A e \in Clients \ {d} : client'[e].socket # client'[d].socket
    BY <1>2, <1>8, <2>1, <2>3 DEF ClientInv, Up, UserOf
  <2> QED BY <1>2, <2>2, <2>3 DEF ClientInv, Up, UserOf
<1>13. TypeOK'
  BY <1>1, <1>7, <1>8 DEF IInv, TypeOK, ClientType, ConnType, Frames, Labels
<1>14. PresentInv'
  BY <1>10, <1>11 DEF IInv, PresentInv
<1>15. RoomsReleased'
  BY <1>10 DEF IInv, RoomsReleased
<1> QED BY <1>11, <1>12, <1>13, <1>14, <1>15 DEF IInv


LEMMA ClientIsTyped ==
    ASSUME IInv, NEW c \in Clients
    PROVE  /\ client[c] \in ClientType
           /\ client = [client EXCEPT ![c] = client[c]]
           /\ client[c].timer => client[c].joined
BY DEF IInv, TypeOK, ClientType, ClientInv

LEMMA JoinStep == ASSUME IInv, NEW c \in Clients, Join(c) PROVE IInv'
<1> DEFINE x == [client[c] EXCEPT !.joined = TRUE]
<1>1. x \in ClientType /\ x.socket = client[c].socket /\ x.joined
  BY ClientIsTyped DEF ClientType
<1>2. client' = [client EXCEPT ![c] = x] /\ UNCHANGED <<user, mapped, entries, rate>>
  BY DEF Join, serverVars
<1>3. TriesToSend(c, "join") /\ "join" \in Frames
  BY DEF Join, TriesToSend, Frames
<1> HIDE DEF x
<1> QED BY <1>1, <1>2, <1>3, SendStep

LEMMA PublishNowStep == ASSUME IInv, NEW c \in Clients, PublishNow(c) PROVE IInv'
<1>1. client[c] \in ClientType /\ client[c].joined
  BY ClientIsTyped DEF PublishNow
<1>2. client' = [client EXCEPT ![c] = client[c]] /\ UNCHANGED <<user, mapped, entries, rate>>
  BY ClientIsTyped DEF PublishNow, serverVars
<1>3. TriesToSend(c, "state") /\ "state" \in Frames
  BY DEF PublishNow, Frames
<1> QED BY <1>1, <1>2, <1>3, SendStep

LEMMA TimerFiresStep == ASSUME IInv, NEW c \in Clients, TimerFires(c) PROVE IInv'
<1> DEFINE x == [client[c] EXCEPT !.timer = FALSE]
<1>1. x \in ClientType /\ x.socket = client[c].socket /\ x.joined
  BY ClientIsTyped DEF ClientType, TimerFires
<1>2. client' = [client EXCEPT ![c] = x] /\ UNCHANGED <<user, mapped, entries, rate>>
  BY DEF TimerFires, serverVars
<1>3. TriesToSend(c, "state") /\ "state" \in Frames
  BY DEF TimerFires, Frames
<1> HIDE DEF x
<1> QED BY <1>1, <1>2, <1>3, SendStep

LEMMA LeaveStep == ASSUME IInv, NEW c \in Clients, Leave(c) PROVE IInv'
<1> DEFINE x == [client[c] EXCEPT !.joined = FALSE, !.timer = FALSE]
<1>1. x \in ClientType /\ x.socket = client[c].socket /\ ~x.timer
  BY ClientIsTyped DEF ClientType
<1>2. client' = [client EXCEPT ![c] = x] /\ UNCHANGED <<user, mapped, entries, rate>>
  BY DEF Leave, serverVars
<1>3. TriesToSend(c, "leave") /\ "leave" \in Frames
  BY DEF Leave, Frames
<1> HIDE DEF x
<1> QED BY <1>1, <1>2, <1>3, SendStep

LEMMA PublishLaterStep == ASSUME IInv, NEW c \in Clients, PublishLater(c) PROVE IInv'
<1>1. client \in [Clients -> ClientType]
  BY DEF IInv, TypeOK, ClientType
<1>2. /\ client' \in [Clients -> ClientType] /\ client[c].joined
      /\ \A d \in Clients : /\ client'[d].socket = client[d].socket
                            /\ client'[d].joined = client[d].joined
                            /\ d # c => client'[d].timer = client[d].timer
      /\ UNCHANGED <<user, conn, mapped, entries, rate, sent>>
  BY <1>1 DEF PublishLater, serverVars, ClientType
<1>3. \A k : /\ Open(k)' = Open(k) /\ Joined(k)' = Joined(k) /\ UserOf(k)' = UserOf(k)
             /\ Reading(k)' = Reading(k) /\ Serving(k)' = Serving(k)
  BY <1>2 DEF Open, Joined, UserOf, Reading, Serving
<1>4. \A k : Vouches(k)' = Vouches(k) /\ ConnInv(k)' = ConnInv(k)
  BY <1>2, <1>3 DEF Vouches, ConnInv
<1>5. ASSUME NEW d \in Clients PROVE ClientInv(d)'
  <2>1. ClientInv(d)
    BY DEF IInv
  <2>2. client'[d].timer => client'[d].joined
    BY <1>2, <2>1 DEF ClientInv
  <2> QED BY <1>2, <2>1, <2>2 DEF ClientInv, Up, UserOf
<1>6. TypeOK'
  BY <1>2 DEF IInv, TypeOK, ClientType
<1>7. PresentInv' /\ RoomsReleased'
  BY <1>2, <1>3, <1>4 DEF IInv, PresentInv, RoomsReleased
<1> QED BY <1>2, <1>4, <1>5, <1>6, <1>7 DEF IInv

LEMMA DisconnectStep == ASSUME IInv, NEW c \in Clients, Disconnect(c) PROVE IInv'
<1>0. PICK k : k = client[c].socket
  OBVIOUS
<1>1. client \in [Clients -> ClientType]
  BY DEF IInv, TypeOK, ClientType
<1>2. /\ client' \in [Clients -> ClientType] /\ client'[c].socket = 0
      /\ client'[c].joined = client[c].joined /\ client'[c].timer = client[c].timer
      /\ \A d \in Clients \ {c} : client'[d] = client[d]
      /\ UNCHANGED <<user, conn, mapped, entries, rate, sent>> /\ Up(c)
  BY <1>1 DEF Disconnect, serverVars, ClientType
<1>3. \A j : UserOf(j)' = UserOf(j) /\ Reading(j)' = Reading(j) /\ Serving(j)' = Serving(j)
  BY <1>2 DEF UserOf, Reading, Serving
<1>4. k \in Conns /\ \A d \in Clients \ {c} : client[d].socket # k
  BY <1>0, <1>1, <1>2 DEF IInv, ClientInv, Up, ClientType
<1>5. \A j \in Conns \ {k} : Open(j)' = Open(j) /\ Joined(j)' = Joined(j)
  BY <1>0, <1>2 DEF Open, Joined, Conns
<1>6. ~Open(k)'
  BY <1>2, <1>4 DEF Open, Conns
<1>7. ASSUME NEW j \in Conns PROVE ConnInv(j)' /\ (Vouches(j) => Vouches(j)')
  <2>1. ConnInv(j)
    BY DEF IInv
  <2>2. CASE j # k
    BY <1>2, <1>3, <1>5, <2>1, <2>2 DEF ConnInv, Vouches
  <2>3. CASE j = k
    BY <1>2, <1>3, <1>6, <2>1, <2>3 DEF ConnInv, Vouches
  <2> QED BY <2>2, <2>3
<1>8. ASSUME NEW d \in Clients PROVE ClientInv(d)'
  <2>1. ClientInv(d)
    BY DEF IInv
  <2> QED BY <1>2, <2>1 DEF ClientInv, Up, UserOf
<1>9. TypeOK'
  BY <1>2 DEF IInv, TypeOK, ClientType
<1>10. PresentInv' /\ RoomsReleased'
  BY <1>2, <1>3, <1>7 DEF IInv, PresentInv, RoomsReleased
<1> QED BY <1>2, <1>7, <1>8, <1>9, <1>10 DEF IInv

LEMMA ConnectStep == ASSUME IInv, NEW c \in Clients, Connect(c) PROVE IInv'
<1>0. PICK k : k = CHOOSE i \in Unopened : \A j \in Unopened : i <= j
  OBVIOUS
<1>1. k \in Conns /\ conn[k].pc = "none"
  <2>1. Unopened \in SUBSET Nat /\ Unopened # {}
    BY DEF Unopened, Conns, Connect
  <2>2. \E i \in Unopened : \A j \in Unopened : i <= j
    BY <2>1, LeastNat
  <2>3. k \in Unopened
    BY <1>0, <2>2, Zenon
  <2> QED BY <2>3 DEF Unopened
<1>2. PICK s : s = IF client[c].joined THEN <<"join">> ELSE <<>>
  OBVIOUS
<1> DEFINE r == [NewConn EXCEPT !.user = user[c], !.pc = "read", !.frames = s]
<1>3. r \in ConnType /\ r.user = user[c] /\ r.pc = "read" /\ r.frames = s /\ user[c] \in Users
  <2>1. <<>> \in Seq(Frames) /\ <<"join">> \in Seq(Frames) /\ "read" \in Labels /\ user[c] \in Users
    BY DEF Frames, Labels, IInv, TypeOK
  <2>2. s \in Seq(Frames)
    BY <1>2, <2>1
  <2> QED BY <2>1, <2>2 DEF NewConn, ConnType
<1>4. client \in [Clients -> ClientType] /\ conn \in [Conns -> ConnType]
  BY DEF IInv, TypeOK, ClientType, ConnType, Frames, Labels
<1>5. /\ client' = [client EXCEPT ![c].socket = k] /\ conn' = [conn EXCEPT ![k] = r]
      /\ UNCHANGED <<user, mapped, entries, rate, sent>> /\ client[c].socket = 0
  BY <1>0, <1>2 DEF Connect, serverVars, Up
<1> HIDE DEF r
<1>6. /\ client' \in [Clients -> ClientType] /\ client'[c].socket = k
      /\ client'[c].joined = client[c].joined /\ client'[c].timer = client[c].timer
      /\ \A d \in Clients \ {c} : client'[d] = client[d]
  BY <1>1, <1>4, <1>5 DEF ClientType
<1>7. conn' \in [Conns -> ConnType] /\ conn'[k] = r /\ \A j \in Conns \ {k} : conn'[j] = conn[j]
  BY <1>1, <1>3, <1>4, <1>5
<1>8. k # 0 /\ \A d \in Clients : client[d].socket # k
  BY <1>1, <1>4 DEF IInv, ClientInv, Up, Conns
<1>9. \A j \in Conns \ {k} : Open(j)' = Open(j) /\ Joined(j)' = Joined(j)
  BY <1>5, <1>6 DEF Open, Joined, Conns
<1>10. \A j \in Conns \ {k} : UserOf(j)' = UserOf(j) /\ Reading(j)' = Reading(j) /\ Serving(j)' = Serving(j)
  BY <1>7 DEF UserOf, Reading, Serving
<1>11. Open(k)' /\ (Joined(k)' <=> client[c].joined)
  BY <1>6, <1>8 DEF Open, Joined
<1>12. ASSUME NEW j \in Conns
       PROVE  ConnInv(j)' /\ (Vouches(j) => Vouches(j)' /\ UserOf(j)' = UserOf(j))
  <2>1. ConnInv(j)
    BY DEF IInv
  <2>2. CASE j # k
    BY <1>7, <1>9, <1>10, <2>1, <2>2 DEF ConnInv, Vouches
  <2>3. CASE j = k
    BY <1>1, <1>2, <1>3, <1>7, <1>11, <2>3 DEF ConnInv, Vouches, UserOf
  <2> QED BY <2>2, <2>3
<1>13. ASSUME NEW d \in Clients PROVE ClientInv(d)'
  <2>1. ClientInv(d)
    BY DEF IInv
  <2>2. CASE d = c
    BY <1>3, <1>5, <1>6, <1>7, <1>8, <2>1, <2>2 DEF ClientInv, Up, UserOf
  <2>3. CASE d # c
    <3>1. client'[d] = client[d] /\ client[d].socket # k /\ client[d].socket \in Conns \cup {0}
      BY <1>4, <1>6, <1>8, <2>3 DEF ClientType
    <3>2. client[d].socket # 0 => conn'[client[d].socket] = conn[client[d].socket]
      BY <1>7, <3>1
    <3> QED BY <1>5, <1>6, <1>8, <2>1, <3>1, <3>2 DEF ClientInv, Up, UserOf
  <2> QED BY <2>2, <2>3
<1>14. TypeOK'
  BY <1>5, <1>6, <1>7 DEF IInv, TypeOK, ClientType, ConnType, Frames, Labels
<1>15. PresentInv'
  BY <1>5, <1>12 DEF IInv, PresentInv
<1>16. RoomsReleased'
  BY <1>1, <1>3, <1>7 DEF RoomsReleased, Serving
<1> QED BY <1>5, <1>12, <1>13, <1>14, <1>15, <1>16 DEF IInv

-----------------------------------------------------------------------------

LEMMA HandlerStep == ASSUME IInv, NEW k \in Conns, Handler(k) PROVE IInv'
<1>1. CASE HandleJoin(k) \/ HandleStateJoins(k)
  BY <1>1, JoinLooksUpStep
<1>2. CASE JoinUpdates(k)
  BY <1>2, JoinUpdatesStep
<1>3. CASE HandleState(k)
  BY <1>3, HandleStateStep
<1>4. CASE HandleLeave(k)
  BY <1>4, HandleLeaveStep
<1>5. CASE Prune(k) \/ LastPrune(k)
  BY <1>5, PruneStep
<1>6. CASE SocketEnds(k)
  BY <1>6, SocketEndsStep
<1>7. CASE Cleanup(k)
  BY <1>7, CleanupStep
<1>8. CASE LastLeave(k)
  BY <1>8, LastLeaveStep
<1> QED BY <1>1, <1>2, <1>3, <1>4, <1>5, <1>6, <1>7, <1>8 DEF Handler

LEMMA StutterStep == ASSUME IInv, UNCHANGED vars PROVE IInv'
<1>1. UNCHANGED <<user, client, conn, mapped, entries, rate, sent>>
  BY DEF vars
<1>2. \A k : /\ Open(k)' = Open(k) /\ Joined(k)' = Joined(k) /\ UserOf(k)' = UserOf(k)
             /\ Reading(k)' = Reading(k) /\ Serving(k)' = Serving(k)
  BY <1>1 DEF Open, Joined, UserOf, Reading, Serving
<1>3. \A k : Vouches(k)' = Vouches(k) /\ ConnInv(k)' = ConnInv(k)
  BY <1>1, <1>2 DEF Vouches, ConnInv
<1>4. \A c : ClientInv(c)' = ClientInv(c)
  BY <1>1 DEF ClientInv, Up, UserOf
<1> QED BY <1>1, <1>2, <1>3, <1>4 DEF IInv, TypeOK, PresentInv, RoomsReleased

LEMMA NextIInv == IInv /\ [Next]_vars => IInv'
<1> SUFFICES ASSUME IInv, [Next]_vars PROVE IInv'
  OBVIOUS
<1>1. ASSUME NEW c \in Clients,
             \/ Join(c) \/ PublishNow(c) \/ PublishLater(c) \/ TimerFires(c)
             \/ Leave(c) \/ Connect(c) \/ Disconnect(c)
      PROVE  IInv'
  BY <1>1, JoinStep, PublishNowStep, PublishLaterStep, TimerFiresStep, LeaveStep,
     ConnectStep, DisconnectStep
<1>2. ASSUME NEW k \in Conns, Handler(k) PROVE IInv'
  BY <1>2, HandlerStep
<1>3. CASE (\E u \in Users : Expire(u)) \/ NewSecond
  BY <1>3, TimeStep
<1>4. CASE UNCHANGED vars
  BY <1>4, StutterStep
<1> QED BY <1>1, <1>2, <1>3, <1>4 DEF Next

LEMMA AlwaysIInv == Spec => []IInv
BY InitIInv, NextIInv, PTL DEF Spec

\* The state of pages, sockets, handlers and the room is always well formed:
\* the update counter of a room stays within MAX_UPDATES_PER_SEC, and a join
\* always finds a room to update.
THEOREM TypeCorrect == Spec => []TypeOK
<1>1. IInv => TypeOK
  BY DEF IInv
<1> QED BY <1>1, AlwaysIInv, PTL

\* Nobody is shown in the room whose sockets have all been cleaned up, in
\* whatever order leaves, late cleanups and re-created rooms come.
THEOREM NobodyIsAGhost == Spec => []NoGhosts
<1>1. IInv => NoGhosts
  BY DEF IInv, PresentInv, NoGhosts, Vouches, Serving
<1> QED BY <1>1, AlwaysIInv, PTL

\* A user none of whose pages has joined, and with nothing under way, is not
\* in the room: no late frame or timer brings the user back.
THEOREM LeaversStayOut == Spec => []LeftStaysOut
<1>1. ASSUME IInv PROVE LeftStaysOut
  <2> SUFFICES ASSUME NEW u \in Users, u \in entries,
                      \A c \in Clients : user[c] = u => ~client[c].joined,
                      \A k \in Conns : UserOf(k) = u => Quiet(k)
               PROVE  FALSE
    BY DEF LeftStaysOut
  <2>1. PICK k \in Conns : UserOf(k) = u /\ Vouches(k)
    BY <1>1 DEF IInv, PresentInv
  <2>2. Quiet(k) /\ Serving(k)
    BY <2>1 DEF Vouches, Serving
  <2>3. Joined(k)
    BY <2>1, <2>2 DEF Vouches, Quiet
  <2>4. PICK c \in Clients : client[c].socket = k /\ client[c].joined
    BY <2>3 DEF Joined
  <2>5. user[c] = u
    BY <1>1, <2>1, <2>4 DEF IInv, ClientInv, Up, Conns
  <2> QED BY <2>4, <2>5
<1>2. IInv => LeftStaysOut
  BY <1>1
<1> QED BY <1>2, AlwaysIInv, PTL

\* Once every handler is done, the room is out of the map: leaves, expired
\* entries and rate-limited joins leak none.
THEOREM RoomsAreReleased == Spec => []RoomsReleased
<1>1. IInv => RoomsReleased
  BY DEF IInv
<1> QED BY <1>1, AlwaysIInv, PTL
=============================================================================
