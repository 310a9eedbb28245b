------------------------------ MODULE Presence ------------------------------
(***************************************************************************)
(* One presence room: PresenceManager and PresenceRoom (sync/presence.rs), *)
(* the WebSocket handlers that call them (api/ws.rs), and the client's     *)
(* PresenceRoom with its publish throttle and its re-join after a          *)
(* reconnect (client-core/src/presence.ts).                                *)
(*                                                                         *)
(* A handler serves its socket's frames one by one and cleans up when the  *)
(* socket ends, which it may notice late.  PresenceManager::join looks the *)
(* room up in the map and updates it after the map's lock is released, so  *)
(* the room it updates may have left the map by then: rooms are numbered,  *)
(* and only the one in the map has contents that anybody can look up.  An  *)
(* entry not refreshed within the TTL counts for nothing anywhere; it is   *)
(* modelled as absent.                                                     *)
(***************************************************************************)
EXTENDS Naturals, Sequences

CONSTANTS
    Users,          \* accounts
    Clients,        \* pages, each signed in to one account
    MaxRate,        \* MAX_UPDATES_PER_SEC
    MaxConns,       \* bound: sockets opened
    MaxFrames       \* bound: presence frames sent

ASSUME ConstantsAreNumbers ==
    /\ MaxRate \in Nat \ {0}
    /\ MaxConns \in Nat \ {0}
    /\ MaxFrames \in Nat

Conns == 1 .. MaxConns
Rooms == 1 .. (MaxConns + 1)

VARIABLES
    user,           \* the account of each client
    client,         \* its open socket (0: none), whether it has joined, and
                    \* whether a published state waits for the throttle timer
    conn,           \* per socket: its account, the frames on their way, where its
                    \* handler is, and the room its join has looked up
    mapped,         \* the room in PresenceManager.rooms, 0 if none
    entries,        \* users present in it
    rate,           \* updates it has had in the current second
    sent            \* frames sent, bounded by MaxFrames

vars == <<user, client, conn, mapped, entries, rate, sent>>

NewClient == [socket |-> 0, joined |-> FALSE, timer |-> FALSE]

NewConn == [user |-> 0, frames |-> <<>>, pc |-> "none", room |-> 0]

TypeOK ==
    /\ user \in [Clients -> Users]
    /\ client \in [Clients -> [socket : Conns \cup {0}, joined : BOOLEAN, timer : BOOLEAN]]
    /\ conn \in [Conns ->
                  [user : Users \cup {0}, frames : Seq({"join", "state", "leave"}),
                   pc : {"none", "read", "update", "prune", "cleanup", "last_leave",
                         "last_prune", "gone"},
                   room : Rooms \cup {0}]]
    /\ mapped \in Rooms \cup {0}
    /\ entries \subseteq Users
    /\ rate \in 0 .. MaxRate
    /\ sent \in 0 .. MaxFrames

Init ==
    /\ user \in [Clients -> Users]
    /\ client = [c \in Clients |-> NewClient]
    /\ conn = [k \in Conns |-> NewConn]
    /\ mapped = 0
    /\ entries = {}
    /\ rate = 0
    /\ sent = 0

serverVars == <<mapped, entries, rate>>

-----------------------------------------------------------------------------
(* The client *)

Up(c) == client[c].socket # 0

Reading(k) == conn[k].pc \in {"read", "update", "prune"}

\* notify: the frame goes out on the open socket, and is lost if the server
\* has stopped reading it.
Sends(c, frame) ==
    LET k == client[c].socket IN
    /\ sent < MaxFrames
    /\ sent' = sent + 1
    /\ conn' = IF Reading(k) THEN [conn EXCEPT ![k].frames = Append(@, frame)] ELSE conn

\* The same, and nothing when there is no open socket: the error is caught.
TriesToSend(c, frame) ==
    IF Up(c) THEN Sends(c, frame) ELSE UNCHANGED <<conn, sent>>

\* PresenceRoom.join; it throws when the socket is not open.
Join(c) ==
    /\ ~client[c].joined
    /\ Up(c)
    /\ Sends(c, "join")
    /\ client' = [client EXCEPT ![c].joined = TRUE]
    /\ UNCHANGED <<user, serverVars>>

\* publish when PUBLISH_THROTTLE_MS have passed since the last one: sent at
\* once, and a timer that is late in firing is not touched.  The clock is left
\* out: any publish may come after the interval or before its end.
PublishNow(c) ==
    /\ client[c].joined
    /\ TriesToSend(c, "state")
    /\ UNCHANGED <<user, client, serverVars>>

\* publish before that: the state waits for the timer.
PublishLater(c) ==
    /\ client[c].joined
    /\ client' = [client EXCEPT ![c].timer = TRUE]
    /\ UNCHANGED <<user, conn, sent, serverVars>>

TimerFires(c) ==
    /\ client[c].timer
    /\ TriesToSend(c, "state")
    /\ client' = [client EXCEPT ![c].timer = FALSE]
    /\ UNCHANGED <<user, serverVars>>

\* Mutant: the throttle timer survives leave().
LeaveKeepsTimer(c) ==
    /\ client[c].joined
    /\ TriesToSend(c, "leave")
    /\ client' = [client EXCEPT ![c].joined = FALSE]
    /\ UNCHANGED <<user, serverVars>>

\* PresenceRoom.leave: the timer is cleared, the frame is best effort.
Leave(c) ==
    /\ client[c].joined
    /\ TriesToSend(c, "leave")
    /\ client' = [client EXCEPT ![c].joined = FALSE, ![c].timer = FALSE]
    /\ UNCHANGED <<user, serverVars>>

Unopened == {k \in Conns : conn[k].pc = "none"}

\* A socket opens and is authenticated; a joined room is joined again.
Connect(c) ==
    /\ ~Up(c)
    /\ Unopened # {}
    /\ LET k == CHOOSE i \in Unopened : \A j \in Unopened : i <= j IN
        /\ client' = [client EXCEPT ![c].socket = k]
        /\ conn' = [conn EXCEPT ![k] =
                      [NewConn EXCEPT !.user = user[c], !.pc = "read",
                                      !.frames = IF client[c].joined THEN <<"join">> ELSE <<>>]]
    /\ UNCHANGED <<user, sent, serverVars>>

\* The client's end of the socket is gone; what it sent is still on its way.
Disconnect(c) ==
    /\ Up(c)
    /\ client' = [client EXCEPT ![c].socket = 0]
    /\ UNCHANGED <<user, conn, sent, serverVars>>

-----------------------------------------------------------------------------
(* The server: one handler per socket *)

UserOf(k) == conn[k].user

Open(k) == \E c \in Clients : client[c].socket = k

Took(k, label) == [conn[k] EXCEPT !.frames = Tail(@), !.pc = label]

Reads(k, frame) ==
    /\ conn[k].pc = "read"
    /\ conn[k].frames # <<>>
    /\ Head(conn[k].frames) = frame

Free == {i \in Rooms : i # mapped /\ \A k \in Conns : conn[k].room # i}

\* Mutant: the window's limit is compared one too late.
UpdateRoomOneMore(i, u) ==
    IF i = mapped /\ rate <= MaxRate
    THEN entries' = entries \cup {u} /\ rate' = rate + 1
    ELSE UNCHANGED <<entries, rate>>

\* check_rate_limit and the insert.  In a room that is no longer in the map
\* nobody sees what becomes of them.
UpdateRoom(i, u) ==
    IF i = mapped /\ rate < MaxRate
    THEN entries' = entries \cup {u} /\ rate' = rate + 1
    ELSE UNCHANGED <<entries, rate>>

\* join: rooms.entry(room).or_insert_with(..).clone().
JoinLooksUp(k) ==
    LET i == IF mapped # 0 THEN mapped ELSE CHOOSE j \in Free : \A l \in Free : j <= l IN
    /\ conn' = [conn EXCEPT ![k] = [Took(k, "update") EXCEPT !.room = i]]
    /\ mapped' = i
    /\ IF mapped = 0 THEN entries' = {} /\ rate' = 0 ELSE UNCHANGED <<entries, rate>>

\* handle_presence_join.
HandleJoin(k) ==
    /\ Reads(k, "join")
    /\ JoinLooksUp(k)
    /\ UNCHANGED <<user, client, sent>>

\* room.update, after the map's lock is released; the reply carries the
\* snapshot or the rate-limit error.
JoinUpdates(k) ==
    /\ conn[k].pc = "update"
    /\ UpdateRoom(conn[k].room, UserOf(k))
    /\ conn' = [conn EXCEPT ![k].pc = "read", ![k].room = 0]
    /\ UNCHANGED <<user, client, mapped, sent>>

\* handle_presence_state: update_state keeps the map's lock while it updates.
HandleState(k) ==
    /\ Reads(k, "state")
    /\ mapped # 0
    /\ UpdateRoom(mapped, UserOf(k))
    /\ conn' = [conn EXCEPT ![k] = Took(k, "read")]
    /\ UNCHANGED <<user, client, mapped, sent>>

\* ... and joins when there is no room.
HandleStateJoins(k) ==
    /\ Reads(k, "state")
    /\ mapped = 0
    /\ JoinLooksUp(k)
    /\ UNCHANGED <<user, client, sent>>

Emptied(u) == mapped # 0 /\ entries \subseteq {u}

RemoveUser(u) == entries' = entries \ {u}

\* handle_presence_leave: the user goes, and the room if nobody is left.
HandleLeave(k) ==
    /\ Reads(k, "leave")
    /\ RemoveUser(UserOf(k))
    /\ conn' = [conn EXCEPT ![k] = Took(k, IF Emptied(UserOf(k)) THEN "prune" ELSE "read")]
    /\ UNCHANGED <<user, client, mapped, rate, sent>>

\* rooms.remove_if(room, active_count() == 0).
RemoveIfEmpty ==
    IF entries = {} THEN mapped' = 0 /\ rate' = 0 ELSE UNCHANGED <<mapped, rate>>

Prune(k) ==
    /\ conn[k].pc = "prune"
    /\ RemoveIfEmpty
    /\ conn' = [conn EXCEPT ![k].pc = "read"]
    /\ UNCHANGED <<user, client, entries, sent>>

\* The loop ends, perhaps before every frame is read: the client's end is gone,
\* or the server closes the socket itself (the session was revoked, the roles
\* changed, a frame could not be sent) and the client learns of it later.
SocketEnds(k) ==
    /\ conn[k].pc = "read"
    /\ conn' = [conn EXCEPT ![k].pc = "cleanup", ![k].frames = <<>>]
    /\ UNCHANGED <<user, client, serverVars, sent>>

\* Mutant: the session is removed first, so cleanup finds no user.
CleanupWithoutUser(k) ==
    /\ conn[k].pc = "cleanup"
    /\ conn' = [conn EXCEPT ![k].pc = "gone"]
    /\ UNCHANGED <<user, client, serverVars, sent>>

\* cleanup: leave_all lists the rooms ...
Cleanup(k) ==
    /\ conn[k].pc = "cleanup"
    /\ conn' = [conn EXCEPT ![k].pc = IF mapped # 0 THEN "last_leave" ELSE "gone"]
    /\ UNCHANGED <<user, client, serverVars, sent>>

\* Mutant: the room is pruned only if its last user is taken out of it.
LastLeaveOfPresent(k) ==
    /\ conn[k].pc = "last_leave"
    /\ RemoveUser(UserOf(k))
    /\ conn' = [conn EXCEPT ![k].pc = IF mapped # 0 /\ entries = {UserOf(k)}
                                      THEN "last_prune" ELSE "gone"]
    /\ UNCHANGED <<user, client, mapped, rate, sent>>

\* ... and leaves each of them.
LastLeave(k) ==
    /\ conn[k].pc = "last_leave"
    /\ RemoveUser(UserOf(k))
    /\ conn' = [conn EXCEPT ![k].pc = IF Emptied(UserOf(k)) THEN "last_prune" ELSE "gone"]
    /\ UNCHANGED <<user, client, mapped, rate, sent>>

LastPrune(k) ==
    /\ conn[k].pc = "last_prune"
    /\ RemoveIfEmpty
    /\ conn' = [conn EXCEPT ![k].pc = "gone"]
    /\ UNCHANGED <<user, client, entries, sent>>

\* An entry outlives its TTL.
Expire(u) ==
    /\ mapped # 0
    /\ u \in entries
    /\ RemoveUser(u)
    /\ UNCHANGED <<user, client, conn, mapped, rate, sent>>

\* A second passes: the next update starts a new window.
NewSecond ==
    /\ mapped # 0
    /\ rate > 0
    /\ rate' = 0
    /\ UNCHANGED <<user, client, conn, mapped, entries, sent>>

Handler(k) ==
    \/ HandleJoin(k) \/ JoinUpdates(k) \/ HandleState(k) \/ HandleStateJoins(k)
    \/ HandleLeave(k) \/ Prune(k)
    \/ SocketEnds(k) \/ Cleanup(k) \/ LastLeave(k) \/ LastPrune(k)

Next ==
    \/ \E c \in Clients :
        \/ Join(c) \/ PublishNow(c) \/ PublishLater(c) \/ TimerFires(c)
        \/ Leave(c) \/ Connect(c) \/ Disconnect(c)
    \/ \E k \in Conns : Handler(k)
    \/ \E u \in Users : Expire(u)
    \/ NewSecond

Spec == Init /\ [][Next]_vars

-----------------------------------------------------------------------------

Serving(k) == conn[k].pc \notin {"none", "gone"}

\* No ghosts: a user shown in the room has a socket whose handler has not
\* finished its cleanup, whatever joins, leaves, late cleanups and re-created
\* rooms came in between.
NoGhosts ==
    mapped # 0 =>
        \A u \in entries : \E k \in Conns : UserOf(k) = u /\ Serving(k)

\* Nothing left to do for k's socket: no frame on its way and no call under way.
Quiet(k) == ~Serving(k) \/ (conn[k].pc = "read" /\ conn[k].frames = <<>> /\ Open(k))

\* A user who has left stays out: when none of the user's pages has joined
\* and nothing of theirs is under way, the user is not in the room, although
\* a late state frame would join it again.
LeftStaysOut ==
    \A u \in Users :
        /\ \A c \in Clients : user[c] = u => ~client[c].joined
        /\ \A k \in Conns : UserOf(k) = u => Quiet(k)
        => mapped = 0 \/ u \notin entries

\* Rooms are not leaked: when the last handler is done, the map is empty, also
\* after expired entries, rate-limited joins and handlers that left at once.
RoomsReleased == (\A k \in Conns : ~Serving(k)) => mapped = 0

=============================================================================
