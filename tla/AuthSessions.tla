---------------------------- MODULE AuthSessions ----------------------------
(***************************************************************************)
(* The sessions of one user: SessionManager (auth/session.rs) over the     *)
(* sessions table with its unique index on (user, device) of unrevoked     *)
(* rows, and the single-use magic links (auth/magic_link.rs) that lead to  *)
(* a login.  create_session is one READ COMMITTED transaction of several   *)
(* statements; every other call is a sequence of statements that commit    *)
(* one by one.  A statement that updates rows picks them in its snapshot,  *)
(* waits for the transactions that hold them and then re-checks its WHERE. *)
(*                                                                         *)
(* Sessions are numbered in the order of created_at.  They all live        *)
(* ABSOLUTE_LIFETIME_HOURS, so the expired ones are the first `expired'.   *)
(* Refresh tokens of a session are numbered; the row stores the one it     *)
(* accepts.  REFRESH_TTL_DAYS exceeds the absolute lifetime,               *)
(* so refresh_expires_at is never the deadline that decides.  A call that  *)
(* is refused before it changes anything (unknown or revoked session, an   *)
(* expired JWT, roles that differ from the account's) is no step.          *)
(***************************************************************************)
EXTENDS Naturals, FiniteSets

CONSTANTS
    Devices,        \* device fingerprints the user signs in from
    NoDevice,       \* no device: a value of its own
    Links,          \* magic links sent to the user
    Clients,        \* requests the server handles at the same time
    MaxActive,      \* MAX_ACTIVE_SESSIONS_PER_USER
    MaxLogins,      \* bound: logins begun
    MaxRefreshes    \* bound: a session rotated so often is not refreshed again

ASSUME ConstantsAreNumbers ==
    /\ MaxActive \in Nat \ {0}
    /\ MaxLogins \in Nat
    /\ MaxRefreshes \in Nat
    /\ NoDevice \notin Devices

Sessions == 1 .. MaxLogins
Reasons == {"overflow", "logout", "manual", "absolute_timeout", "device_mismatch"}

VARIABLES
    row,            \* the committed sessions table
    req,            \* per client: its request, with its open transaction
    started,        \* logins begun
    expired,        \* sessions 1 .. expired are past absolute_expires_at
    link,           \* magic_link_tokens: FALSE once used_at is set
    redeemed        \* per link: logins it let through

vars == <<row, req, started, expired, link, redeemed>>

Absent == [status |-> "absent", dev |-> NoDevice, gen |-> 0]

Idle == [pc |-> "idle", sid |-> 0, dev |-> NoDevice, rows |-> {},
         evicts |-> {}, quota |-> 0, missed |-> 0, alone |-> TRUE]

LoginSteps == {"snap_device", "evict_device", "count", "snap_oldest",
               "evict_oldest", "insert", "commit"}
RefreshSteps == {"timeout", "mismatch", "rotate", "return"}

RowStates == [status : {"absent", "active"} \cup Reasons,
              dev : Devices \cup {NoDevice}, gen : Nat]

ReqStates == [pc : {"idle", "consume", "signout", "touch"} \cup LoginSteps \cup RefreshSteps,
              sid : 0 .. MaxLogins, dev : Devices \cup {NoDevice},
              rows : SUBSET (Sessions \cup Links), evicts : SUBSET Sessions,
              quota : 0 .. MaxLogins, missed : 0 .. MaxLogins, alone : BOOLEAN]

TypeOK ==
    /\ row \in [Sessions -> RowStates]
    /\ req \in [Clients -> ReqStates]
    /\ started \in 0 .. MaxLogins
    /\ expired \in 0 .. started
    /\ link \in [Links -> BOOLEAN]
    /\ redeemed \in [Links -> Nat]

Init ==
    /\ row = [s \in Sessions |-> Absent]
    /\ req = [c \in Clients |-> Idle]
    /\ started = 0
    /\ expired = 0
    /\ link = [l \in Links |-> TRUE]
    /\ redeemed = [l \in Links |-> 0]

-----------------------------------------------------------------------------
(* What statements see and wait for. *)

Active(s) == row[s].status = "active"

\* WHERE revoked_at IS NULL, as c's transaction sees the table.
Unrevoked(c) == {s \in Sessions : Active(s) /\ s \notin req[c].evicts}

InLogin(c) == req[c].pc \in LoginSteps

\* Rows another open transaction has updated.
Locked(c, rows) == \E d \in Clients \ {c} : rows \cap req[d].evicts # {}

Step(c, label) == req' = [req EXCEPT ![c].pc = label]

Finish(c) == req' = [req EXCEPT ![c] = Idle]

Revoke(s, reason) == row' = [row EXCEPT ![s].status = reason]

-----------------------------------------------------------------------------
(* Signing in: password, OAuth, or a magic link; then create_session. *)

\* create_session up to BEGIN: now and session_id are drawn.  The ghost alone
\* says that no other login is under way; it is cleared when one starts.
StartSession(c, d) ==
    /\ started < MaxLogins
    /\ started' = started + 1
    /\ req' = [e \in Clients |->
                 IF e = c
                 THEN [Idle EXCEPT !.pc = "snap_device", !.sid = started + 1, !.dev = d,
                                   !.alone = \A o \in Clients \ {c} : ~InLogin(o)]
                 ELSE [req[e] EXCEPT !.alone = @ /\ ~InLogin(e)]]

\* A password or OAuth sign-in that was accepted.
SignIn(c, d) ==
    /\ req[c].pc = "idle"
    /\ StartSession(c, d)
    /\ UNCHANGED <<row, expired, link, redeemed>>

\* MagicLinkProvider::verify, the SELECT: the link exists and is not used.
VerifyLink(c, l, d) ==
    /\ req[c].pc = "idle"
    /\ link[l]
    /\ req' = [req EXCEPT ![c] = [Idle EXCEPT !.pc = "consume", !.dev = d, !.rows = {l}]]
    /\ UNCHANGED <<row, started, expired, link, redeemed>>

\* Mutant: rows_affected is not looked at.
ConsumeUnchecked(c, l) ==
    /\ req[c].pc = "consume"
    /\ l \in req[c].rows
    /\ link' = [link EXCEPT ![l] = FALSE]
    /\ redeemed' = [redeemed EXCEPT ![l] = @ + 1]
    /\ StartSession(c, req[c].dev)
    /\ UNCHANGED <<row, expired>>

\* The UPDATE ... WHERE used_at IS NULL took the row: auth_verify goes on.
Consume(c, l) ==
    /\ req[c].pc = "consume"
    /\ l \in req[c].rows
    /\ link[l]
    /\ link' = [link EXCEPT ![l] = FALSE]
    /\ redeemed' = [redeemed EXCEPT ![l] = @ + 1]
    /\ StartSession(c, req[c].dev)
    /\ UNCHANGED <<row, expired>>

\* It took none: TokenAlreadyUsed.
LoseLink(c, l) ==
    /\ req[c].pc = "consume"
    /\ l \in req[c].rows
    /\ ~link[l]
    /\ Finish(c)
    /\ UNCHANGED <<row, started, expired, link, redeemed>>

\* 1a, the snapshot of the UPDATE: this device's unrevoked sessions.
SnapDevice(c) ==
    /\ req[c].pc = "snap_device"
    /\ req' = [req EXCEPT ![c].pc = "evict_device",
                          ![c].rows = {s \in Unrevoked(c) : row[s].dev = req[c].dev}]
    /\ UNCHANGED <<row, started, expired, link, redeemed>>

\* Mutant: no eviction of the device's previous session.
EvictDeviceSkipped(c) ==
    /\ req[c].pc = "evict_device"
    /\ req' = [req EXCEPT ![c].pc = "count", ![c].rows = {}]
    /\ UNCHANGED <<row, started, expired, link, redeemed>>

\* 1a, the rows: wait for their holders, re-check revoked_at IS NULL.
EvictDevice(c) ==
    /\ req[c].pc = "evict_device"
    /\ ~Locked(c, req[c].rows)
    /\ req' = [req EXCEPT ![c].pc = "count", ![c].rows = {},
                          ![c].evicts = {s \in req[c].rows : Active(s)}]
    /\ UNCHANGED <<row, started, expired, link, redeemed>>

\* Mutant: evicts one session too few.
CountActiveShort(c) ==
    /\ req[c].pc = "count"
    /\ LET active == Cardinality({s \in Unrevoked(c) : s > expired}) IN
       req' = [req EXCEPT ![c].pc = IF active > MaxActive THEN "snap_oldest" ELSE "insert",
                          ![c].quota = IF active > MaxActive THEN active - MaxActive ELSE 0,
                          ![c].missed = Cardinality({s \in Unrevoked(c) : s <= expired})]
    /\ UNCHANGED <<row, started, expired, link, redeemed>>

\* 1b: the count leaves expired sessions out; the ghost missed is their number.
CountActive(c) ==
    /\ req[c].pc = "count"
    /\ LET active == Cardinality({s \in Unrevoked(c) : s > expired}) IN
       req' = [req EXCEPT ![c].pc = IF active >= MaxActive THEN "snap_oldest" ELSE "insert",
                          ![c].quota = IF active >= MaxActive THEN (active - MaxActive) + 1 ELSE 0,
                          ![c].missed = Cardinality({s \in Unrevoked(c) : s <= expired})]
    /\ UNCHANGED <<row, started, expired, link, redeemed>>

\* The sub-select: the oldest unrevoked sessions, expired ones included.
SnapOldest(c) ==
    /\ req[c].pc = "snap_oldest"
    /\ LET Older(s) == {t \in Unrevoked(c) : t < s} IN
       req' = [req EXCEPT
                 ![c].pc = "evict_oldest",
                 ![c].rows = {s \in Unrevoked(c) : Cardinality(Older(s)) < req[c].quota}]
    /\ UNCHANGED <<row, started, expired, link, redeemed>>

\* The rows by session_id: revoked_at is not looked at again.
EvictOldest(c) ==
    /\ req[c].pc = "evict_oldest"
    /\ ~Locked(c, req[c].rows)
    /\ req' = [req EXCEPT ![c].pc = "insert", ![c].rows = {}, ![c].quota = 0,
                          ![c].evicts = @ \cup req[c].rows]
    /\ UNCHANGED <<row, started, expired, link, redeemed>>

\* Another transaction has inserted, or is revoking, an unrevoked row of c's
\* device: the unique index makes the insert wait for it.
IndexBusy(c) ==
    \E d \in Clients \ {c} :
        \/ req[d].pc = "commit" /\ req[d].dev = req[c].dev
        \/ \E s \in req[d].evicts : Active(s) /\ row[s].dev = req[c].dev

IndexTaken(c) == \E s \in Unrevoked(c) : row[s].dev = req[c].dev

\* Mutant: idx_sessions_user_device is not unique.
InsertNoIndex(c) ==
    /\ req[c].pc = "insert"
    /\ Step(c, "commit")
    /\ UNCHANGED <<row, started, expired, link, redeemed>>

\* 2: the new row.
Insert(c) ==
    /\ req[c].pc = "insert"
    /\ ~IndexBusy(c)
    /\ ~IndexTaken(c)
    /\ Step(c, "commit")
    /\ UNCHANGED <<row, started, expired, link, redeemed>>

\* The index refuses it: the transaction is rolled back, the login fails.
InsertConflict(c) ==
    /\ req[c].pc = "insert"
    /\ ~IndexBusy(c)
    /\ IndexTaken(c)
    /\ Finish(c)
    /\ UNCHANGED <<row, started, expired, link, redeemed>>

\* COMMIT; the token pair is returned.
Commit(c) ==
    /\ req[c].pc = "commit"
    /\ row' = [s \in Sessions |->
                 IF s \in req[c].evicts THEN [row[s] EXCEPT !.status = "overflow"]
                 ELSE IF s = req[c].sid
                 THEN [status |-> "active", dev |-> req[c].dev, gen |-> 0]
                 ELSE row[s]]
    /\ Finish(c)
    /\ UNCHANGED <<started, expired, link, redeemed>>

\* A statement fails, the session ends, or PostgreSQL picks the transaction
\* as the victim of a deadlock (two logins that evict each other's device):
\* everything is rolled back.
Abort(c) ==
    /\ req[c].pc \in LoginSteps
    /\ Finish(c)
    /\ UNCHANGED <<row, started, expired, link, redeemed>>

-----------------------------------------------------------------------------
(* refresh_session *)

\* The SELECT by hash and the checks on what it read.
Refresh(c, s, d) ==
    /\ req[c].pc = "idle"
    /\ Active(s)
    /\ row[s].gen < MaxRefreshes
    /\ req' = [req EXCEPT ![c] = [Idle EXCEPT
                 !.sid = s,
                 !.pc = IF s <= expired THEN "timeout"
                        ELSE IF row[s].dev # d THEN "mismatch" ELSE "rotate"]]
    /\ UNCHANGED <<row, started, expired, link, redeemed>>

\* Past absolute_expires_at (validate_token does the same).
Timeout(c) ==
    /\ req[c].pc = "timeout"
    /\ ~Locked(c, {req[c].sid})
    /\ IF Active(req[c].sid) THEN Revoke(req[c].sid, "absolute_timeout") ELSE UNCHANGED row
    /\ Finish(c)
    /\ UNCHANGED <<started, expired, link, redeemed>>

\* Another device presents the token: the session is revoked, whatever it is.
Mismatch(c) ==
    /\ req[c].pc = "mismatch"
    /\ ~Locked(c, {req[c].sid})
    /\ Revoke(req[c].sid, "device_mismatch")
    /\ Finish(c)
    /\ UNCHANGED <<started, expired, link, redeemed>>

\* Mutant: the rotation has no AND revoked_at IS NULL.
RotateRevoked(c) ==
    /\ req[c].pc = "rotate"
    /\ ~Locked(c, {req[c].sid})
    /\ row' = [row EXCEPT ![req[c].sid].gen = @ + 1]
    /\ Step(c, "return")
    /\ UNCHANGED <<started, expired, link, redeemed>>

\* The UPDATE of refresh_token_hash.  It does not compare the old hash, and
\* nobody looks at the number of rows it changed.
Rotate(c) ==
    /\ req[c].pc = "rotate"
    /\ ~Locked(c, {req[c].sid})
    /\ IF Active(req[c].sid)
       THEN row' = [row EXCEPT ![req[c].sid].gen = @ + 1]
       ELSE UNCHANGED row
    /\ Step(c, "return")
    /\ UNCHANGED <<started, expired, link, redeemed>>

\* The account's roles are read and the pair is returned, or that fails and
\* the client never learns its new token.
RefreshReturn(c) ==
    /\ req[c].pc = "return"
    /\ Finish(c)
    /\ UNCHANGED <<row, started, expired, link, redeemed>>

-----------------------------------------------------------------------------
(* validate_token, logout, revoke_all_sessions *)

\* The SELECT of validate_token for a request that presents s's access token.
Validate(c, s) ==
    /\ req[c].pc = "idle"
    /\ Active(s)
    /\ req' = [req EXCEPT ![c] = [Idle EXCEPT
                 !.sid = s, !.pc = IF s <= expired THEN "timeout" ELSE "touch"]]
    /\ UNCHANGED <<row, started, expired, link, redeemed>>

\* last_active_at is updated and the request is served; auth_signout goes on
\* to revoke_session.
Touch(c) ==
    /\ req[c].pc = "touch"
    /\ ~Locked(c, {req[c].sid})
    /\ Step(c, "signout") \/ Finish(c)
    /\ UNCHANGED <<row, started, expired, link, redeemed>>

\* revoke_session: COALESCE keeps an earlier reason.
Logout(c) ==
    /\ req[c].pc = "signout"
    /\ ~Locked(c, {req[c].sid})
    /\ IF Active(req[c].sid) THEN Revoke(req[c].sid, "logout") ELSE UNCHANGED row
    /\ Finish(c)
    /\ UNCHANGED <<started, expired, link, redeemed>>

\* revoke_all_sessions, as one statement that finds no row locked.
RevokeAll(c) ==
    /\ req[c].pc = "idle"
    /\ \E s \in Sessions : Active(s)
    /\ ~Locked(c, {s \in Sessions : Active(s)})
    /\ row' = [s \in Sessions |->
                 IF Active(s) THEN [row[s] EXCEPT !.status = "manual"] ELSE row[s]]
    /\ UNCHANGED <<req, started, expired, link, redeemed>>

\* Time passes: the oldest session that has not expired yet does.
Expire ==
    /\ expired < started
    /\ expired' = expired + 1
    /\ UNCHANGED <<row, req, started, link, redeemed>>

Next ==
    \/ \E c \in Clients :
        \/ \E d \in Devices : SignIn(c, d)
        \/ \E l \in Links, d \in Devices : VerifyLink(c, l, d)
        \/ \E l \in Links : Consume(c, l) \/ LoseLink(c, l)
        \/ SnapDevice(c) \/ EvictDevice(c) \/ CountActive(c)
        \/ SnapOldest(c) \/ EvictOldest(c)
        \/ Insert(c) \/ InsertConflict(c) \/ Commit(c) \/ Abort(c)
        \/ \E s \in Sessions, d \in Devices : Refresh(c, s, d)
        \/ Timeout(c) \/ Mismatch(c) \/ Rotate(c) \/ RefreshReturn(c)
        \/ \E s \in Sessions : Validate(c, s)
        \/ Touch(c) \/ Logout(c) \/ RevokeAll(c)
    \/ Expire

Spec == Init /\ [][Next]_vars

-----------------------------------------------------------------------------

\* However logins, refreshes, logouts and rollbacks interleave, a device never
\* has two unrevoked sessions, the "device-binding guarantee" of the migration
\* that hardened the table.
OneSessionPerDevice ==
    \A s, t \in Sessions :
        s # t /\ Active(s) /\ Active(t) => row[s].dev # row[t].dev

\* The unique index refuses a login only when two logins raced: a user who
\* signs in again from a device that has a session always gets in.
ConflictNeedsRace ==
    \A c \in Clients :
        req[c].pc = "insert" /\ req[c].alone => ~IndexTaken(c)

\* A login that no other login overlaps leaves the user with at most
\* MAX_ACTIVE_SESSIONS_PER_USER sessions, also when logins that raced had gone
\* past the limit before, whatever is revoked, refreshed or expires meanwhile.
\* It goes past the limit by no more than the sessions that had expired and
\* were not revoked when it counted: the count leaves those out, and the
\* eviction picks them first.
CapRestored ==
    [][\A c \in Clients :
         /\ req[c].pc = "commit" /\ req[c].alone
         /\ row'[req[c].sid].status = "active"
         => Cardinality({s \in Sessions : row'[s].status = "active"})
              <= MaxActive + req[c].missed]_vars

\* A revocation is final: no login, refresh or validation that was under way
\* brings the session back or gives it another refresh token.
RevokedForGood ==
    [][\A s \in Sessions :
         row[s].status \in Reasons =>
            /\ row'[s].status \in Reasons
            /\ row'[s].gen = row[s].gen]_vars

\* A magic link signs in once, also when it is redeemed twice at once.
LinksAreSingleUse == \A l \in Links : redeemed[l] <= 1

=============================================================================
