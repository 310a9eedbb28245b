------------------------- MODULE AuthSessionsProofs -------------------------
(***************************************************************************)
(* For any number of clients, devices, links and logins: a device has one  *)
(* unrevoked session, a revoked one stays revoked, the unique index        *)
(* refuses only logins that raced, a login on its own restores the limit   *)
(* on active sessions, and a magic link signs in once.                     *)
(***************************************************************************)
EXTENDS AuthSessions, FiniteSetTheorems, WellFoundedInduction, TLAPS

Uses == {"timeout", "mismatch", "rotate", "return", "touch", "signout"}

Known(s) == row[s].status # "absent"

\* A login works towards a row that is not there yet and evicts rows that
\* are; every other call works on a row it has read.
ReqOK(c) ==
    /\ req[c].pc = "snap_device" => req[c].evicts = {}
    /\ req[c].pc \in {"evict_device", "evict_oldest"} =>
        /\ req[c].rows \subseteq Sessions
        /\ \A s \in req[c].rows : Known(s)
    /\ \A s \in req[c].evicts : Known(s)
    /\ InLogin(c) => req[c].sid \in 1 .. started /\ ~Known(req[c].sid)
    /\ req[c].pc \in Uses => req[c].sid \in Sessions /\ Known(req[c].sid)

\* No unrevoked row, as c sees the table, has c's device.
NoneOfDevice(c) == \A s \in Unrevoked(c) : row[s].dev # req[c].dev

\* What the unique index ensures once c has inserted its row.
CommitOK(c) ==
    req[c].pc = "commit" =>
        /\ NoneOfDevice(c)
        /\ \A d \in Clients \ {c} : req[d].pc = "commit" => req[d].dev # req[c].dev

\* A login that runs alone has found every session of its device.
AloneOK(c) ==
    InLogin(c) /\ req[c].alone =>
        /\ \A o \in Clients \ {c} : ~InLogin(o)
        /\ req[c].pc = "evict_device" =>
            \A s \in Sessions : Active(s) /\ row[s].dev = req[c].dev => s \in req[c].rows
        /\ req[c].pc \in {"count", "snap_oldest", "evict_oldest", "insert"} => NoneOfDevice(c)

\* Logins under way have session ids of their own, and no row has a later one.
SidsApart ==
    /\ \A c, d \in Clients : c # d /\ InLogin(c) /\ InLogin(d) => req[c].sid # req[d].sid
    /\ \A s \in Sessions : s > started => ~Known(s)

LinksOK == \A l \in Links : redeemed[l] = IF link[l] THEN 0 ELSE 1

IInv ==
    /\ TypeOK
    /\ \A c \in Clients : ReqOK(c) /\ CommitOK(c) /\ AloneOK(c)
    /\ SidsApart /\ OneSessionPerDevice /\ LinksOK

-----------------------------------------------------------------------------

LEMMA SessionsNat == Sessions \subseteq Nat /\ \A s \in Sessions : s \in 0 .. MaxLogins
BY ConstantsAreNumbers DEF Sessions

LEMMA IdleType == Idle \in ReqStates /\ Idle.pc = "idle" /\ Idle.evicts = {} /\ Idle.alone
BY ConstantsAreNumbers DEF Idle, ReqStates

LEMMA InitIInv == Init => IInv
<1> SUFFICES ASSUME Init PROVE IInv
  OBVIOUS
<1> USE ConstantsAreNumbers DEF Init
<1>1. Absent \in RowStates /\ Absent.status = "absent"
  BY DEF Absent, RowStates
<1>2. \A s \in Sessions : row[s].status = "absent"
  BY <1>1
<1>3. \A c \in Clients : req[c].pc = "idle" /\ req[c].evicts = {}
  BY IdleType
<1>4. TypeOK
  <2>1. row \in [Sessions -> RowStates] /\ req \in [Clients -> ReqStates]
    BY <1>1, IdleType
  <2>2. started \in 0 .. MaxLogins /\ expired \in 0 .. started
    OBVIOUS
  <2>3. link \in [Links -> BOOLEAN] /\ redeemed \in [Links -> Nat]
    OBVIOUS
  <2> QED BY <2>1, <2>2, <2>3 DEF TypeOK
<1>5. \A c \in Clients : ReqOK(c) /\ CommitOK(c) /\ AloneOK(c)
  BY <1>3 DEF ReqOK, CommitOK, AloneOK, InLogin, LoginSteps, Uses
<1>6. SidsApart /\ OneSessionPerDevice
  BY <1>2, <1>3 DEF SidsApart, OneSessionPerDevice, InLogin, LoginSteps, Active, Known
<1>7. LinksOK
  BY DEF LinksOK
<1> QED BY <1>4, <1>5, <1>6, <1>7 DEF IInv

LEMMA ReqMoves ==
    ASSUME TypeOK, NEW c \in Clients, NEW st \in ReqStates, req' = [req EXCEPT ![c] = st]
    PROVE  /\ req' \in [Clients -> ReqStates]
           /\ req'[c] = st
           /\ \A d \in Clients \ {c} : req'[d] = req[d]
BY DEF TypeOK

LEMMA Types ==
    ASSUME TypeOK
    PROVE  /\ \A c \in Clients : req[c] \in ReqStates
           /\ \A s \in Sessions : row[s] \in RowStates
BY DEF TypeOK

\* Rows keep their device, none appears or disappears, none is revived.
RowsSettle ==
    /\ row' \in [Sessions -> RowStates]
    /\ \A s \in Sessions :
        /\ row'[s].dev = row[s].dev
        /\ row'[s].status = "absent" <=> row[s].status = "absent"
        /\ row'[s].status = "active" => row[s].status = "active"

\* A step of one client that starts and ends no login keeps the invariant when
\* what is said of that client still holds.
LEMMA ClientStep ==
    ASSUME IInv, NEW c \in Clients, RowsSettle, req' \in [Clients -> ReqStates],
           \A d \in Clients \ {c} : req'[d] = req[d],
           UNCHANGED <<started, expired, link, redeemed>>,
           ReqOK(c)', CommitOK(c)', AloneOK(c)',
           InLogin(c)' => InLogin(c) /\ req'[c].sid = req[c].sid
    PROVE  IInv'
<1>1. TypeOK'
  BY DEF IInv, TypeOK, RowsSettle
<1>2. \A s \in Sessions : Known(s)' <=> Known(s)
  BY DEF RowsSettle, Known
<1>3. \A s \in Sessions : Active(s)' => Active(s)
  BY DEF RowsSettle, Active
<1>4. ASSUME NEW d \in Clients \ {c} PROVE ReqOK(d)' /\ CommitOK(d)' /\ AloneOK(d)'
  <2>1. req'[d] = req[d] /\ ReqOK(d) /\ CommitOK(d) /\ AloneOK(d)
    BY DEF IInv
  <2>2. req[d].evicts \subseteq Sessions /\ (InLogin(d)' <=> InLogin(d))
    BY <2>1, Types DEF IInv, ReqStates, InLogin
  <2>3. ReqOK(d)'
    <3>1. InLogin(d) => req[d].sid \in Sessions
      BY <2>1, ConstantsAreNumbers DEF ReqOK, Sessions, IInv, TypeOK
    <3> QED BY <1>2, <2>1, <2>2, <3>1 DEF ReqOK, Known
  <2>4. Unrevoked(d)' \subseteq Unrevoked(d)
    BY <1>3, <2>1 DEF Unrevoked
  <2>5. NoneOfDevice(d) => NoneOfDevice(d)'
    BY <2>1, <2>4 DEF NoneOfDevice, Unrevoked, RowsSettle
  <2>6. CommitOK(d)'
    BY <2>1, <2>5 DEF CommitOK, IInv
  <2>7. AloneOK(d)'
    BY <1>3, <2>1, <2>2, <2>5 DEF AloneOK, RowsSettle, InLogin
  <2> QED BY <2>3, <2>6, <2>7
<1>5. \A d \in Clients : ReqOK(d)' /\ CommitOK(d)' /\ AloneOK(d)'
  BY <1>4
<1>6. SidsApart'
  BY <1>2 DEF IInv, SidsApart, InLogin
<1>7. OneSessionPerDevice'
  BY <1>3 DEF IInv, OneSessionPerDevice, RowsSettle
<1>8. LinksOK'
  BY DEF IInv, LinksOK
<1> QED BY <1>1, <1>5, <1>6, <1>7, <1>8 DEF IInv

LEMMA SameRows == ASSUME IInv, UNCHANGED row PROVE RowsSettle
BY DEF RowsSettle, IInv, TypeOK

\* A client that is outside create_session after the step.
LEMMA OutsideStep ==
    ASSUME IInv, NEW c \in Clients, NEW st \in ReqStates, req' = [req EXCEPT ![c] = st],
           RowsSettle, UNCHANGED <<started, expired, link, redeemed>>,
           st.pc \in Uses => st.sid \in Sessions /\ Known(st.sid),
           st.pc \notin LoginSteps, \A s \in st.evicts : Known(s)
    PROVE  IInv'
<1>1. req' \in [Clients -> ReqStates] /\ req'[c] = st /\ \A d \in Clients \ {c} : req'[d] = req[d]
  BY ReqMoves DEF IInv
<1>3. st.evicts \subseteq Sessions
  BY DEF ReqStates
<1>2. ReqOK(c)' /\ CommitOK(c)' /\ AloneOK(c)' /\ ~InLogin(c)'
  BY <1>1, <1>3 DEF ReqOK, CommitOK, AloneOK, InLogin, LoginSteps, Known, RowsSettle
<1> QED BY <1>1, <1>2, ClientStep

LEMMA FinishStep ==
    ASSUME IInv, NEW c \in Clients, Finish(c), RowsSettle,
           UNCHANGED <<started, expired, link, redeemed>>
    PROVE  IInv'
<1>1. Idle.pc \notin Uses /\ Idle.pc \notin LoginSteps
  BY IdleType DEF Uses, LoginSteps
<1> QED BY <1>1, IdleType, OutsideStep DEF Finish

-----------------------------------------------------------------------------
(* Steps outside create_session. *)

LEMMA VerifyLinkStep ==
    ASSUME IInv, NEW c \in Clients, NEW l \in Links, NEW d \in Devices, VerifyLink(c, l, d)
    PROVE  IInv'
<1> DEFINE st == [Idle EXCEPT !.pc = "consume", !.dev = d, !.rows = {l}]
<1>1. st \in ReqStates /\ st.pc = "consume" /\ st.evicts = {}
  BY IdleType DEF ReqStates
<1>2. req' = [req EXCEPT ![c] = st] /\ UNCHANGED <<row, started, expired, link, redeemed>>
  BY DEF VerifyLink
<1> HIDE DEF st
<1>3. "consume" \notin Uses /\ "consume" \notin LoginSteps
  BY DEF Uses, LoginSteps
<1> QED BY <1>1, <1>2, <1>3, OutsideStep, SameRows

LEMMA LoseLinkStep ==
    ASSUME IInv, NEW c \in Clients, NEW l \in Links, LoseLink(c, l) PROVE IInv'
BY FinishStep, SameRows DEF LoseLink

\* A row that a call has read is used by it.
LEMMA ReadRow ==
    ASSUME IInv, NEW c \in Clients, NEW s \in Sessions, NEW label \in Uses, Active(s),
           req' = [req EXCEPT ![c] = [Idle EXCEPT !.sid = s, !.pc = label]],
           UNCHANGED <<row, started, expired, link, redeemed>>
    PROVE  IInv'
<1> DEFINE st == [Idle EXCEPT !.sid = s, !.pc = label]
<1>1. st \in ReqStates /\ st.pc = label /\ st.evicts = {} /\ st.sid = s
  BY IdleType, SessionsNat DEF ReqStates, Uses, RefreshSteps
<1> HIDE DEF st
<1>2. req' = [req EXCEPT ![c] = st]
  BY DEF st
<1>3. label \notin LoginSteps /\ Known(s)
  BY DEF Uses, LoginSteps, Active, Known
<1> QED BY <1>1, <1>2, <1>3, OutsideStep, SameRows

LEMMA RefreshStep ==
    ASSUME IInv, NEW c \in Clients, NEW s \in Sessions, NEW d \in Devices, Refresh(c, s, d)
    PROVE  IInv'
<1> DEFINE label == IF s <= expired THEN "timeout"
                    ELSE IF row[s].dev # d THEN "mismatch" ELSE "rotate"
<1>1. label \in Uses
  BY DEF Uses
<1>2. req' = [req EXCEPT ![c] = [Idle EXCEPT !.sid = s, !.pc = label]]
  BY DEF Refresh
<1> HIDE DEF label
<1> QED BY <1>1, <1>2, ReadRow DEF Refresh

LEMMA ValidateStep ==
    ASSUME IInv, NEW c \in Clients, NEW s \in Sessions, Validate(c, s) PROVE IInv'
<1> DEFINE label == IF s <= expired THEN "timeout" ELSE "touch"
<1>1. label \in Uses
  BY DEF Uses
<1>2. req' = [req EXCEPT ![c] = [Idle EXCEPT !.sid = s, !.pc = label]]
  BY DEF Validate
<1> HIDE DEF label
<1> QED BY <1>1, <1>2, ReadRow DEF Validate

LEMMA RevokeSettles ==
    ASSUME IInv, NEW s \in Sessions, NEW reason \in Reasons, Known(s), Revoke(s, reason)
    PROVE  RowsSettle
<1>1. \A t \in Sessions : row[t] \in RowStates
  BY Types DEF IInv
<1>2. \A t \in Sessions : row'[t] \in RowStates /\ row'[t].dev = row[t].dev
                            /\ row'[t].status = IF t = s THEN reason ELSE row[t].status
  BY <1>1 DEF Revoke, RowStates, IInv, TypeOK
<1>3. row' \in [Sessions -> RowStates]
  BY <1>2 DEF Revoke, IInv, TypeOK
<1>4. reason # "absent" /\ reason # "active"
  BY DEF Reasons
<1> QED BY <1>2, <1>3, <1>4 DEF RowsSettle, Known

LEMMA SidKnown ==
    ASSUME IInv, NEW c \in Clients, req[c].pc \in Uses
    PROVE  req[c].sid \in Sessions /\ Known(req[c].sid)
BY DEF IInv, ReqOK

LEMMA TimeoutStep == ASSUME IInv, NEW c \in Clients, Timeout(c) PROVE IInv'
<1>1. RowsSettle
  BY SidKnown, RevokeSettles, SameRows DEF Timeout, Uses, Reasons
<1> QED BY <1>1, FinishStep DEF Timeout

LEMMA MismatchStep == ASSUME IInv, NEW c \in Clients, Mismatch(c) PROVE IInv'
<1>1. RowsSettle
  BY SidKnown, RevokeSettles DEF Mismatch, Uses, Reasons
<1> QED BY <1>1, FinishStep DEF Mismatch

LEMMA LogoutStep == ASSUME IInv, NEW c \in Clients, Logout(c) PROVE IInv'
<1>1. RowsSettle
  BY SidKnown, RevokeSettles, SameRows DEF Logout, Uses, Reasons
<1> QED BY <1>1, FinishStep DEF Logout

LEMMA RefreshReturnStep == ASSUME IInv, NEW c \in Clients, RefreshReturn(c) PROVE IInv'
BY FinishStep, SameRows DEF RefreshReturn

\* A call goes on with the row it has.
LEMMA StepOn ==
    ASSUME IInv, NEW c \in Clients, NEW label \in Uses, req[c].pc \in Uses,
           Step(c, label), RowsSettle, UNCHANGED <<started, expired, link, redeemed>>
    PROVE  IInv'
<1> DEFINE st == [req[c] EXCEPT !.pc = label]
<1>1. req[c] \in ReqStates
  BY Types DEF IInv
<1>2. st \in ReqStates /\ st.pc = label /\ st.evicts = req[c].evicts /\ st.sid = req[c].sid
  BY <1>1 DEF ReqStates, Uses, RefreshSteps
<1>3. req' = [req EXCEPT ![c] = st]
  BY DEF Step
<1> HIDE DEF st
<1>4. label \notin LoginSteps
  BY DEF Uses, LoginSteps
<1>5. \A s \in st.evicts : Known(s)
  BY <1>2 DEF IInv, ReqOK
<1> QED BY <1>2, <1>3, <1>4, <1>5, SidKnown, OutsideStep

LEMMA TouchStep == ASSUME IInv, NEW c \in Clients, Touch(c) PROVE IInv'
<1>1. CASE Step(c, "signout")
  BY <1>1, StepOn, SameRows DEF Touch, Uses
<1>2. CASE Finish(c)
  BY <1>2, FinishStep, SameRows DEF Touch
<1> QED BY <1>1, <1>2 DEF Touch

LEMMA RotateStep == ASSUME IInv, NEW c \in Clients, Rotate(c) PROVE IInv'
<1>1. req[c].sid \in Sessions
  BY SidKnown DEF Rotate, Uses
<1>2. CASE Active(req[c].sid)
  <2>1. \A t \in Sessions : row[t] \in RowStates
    BY Types DEF IInv
  <2>2. row' = [row EXCEPT ![req[c].sid].gen = row[req[c].sid].gen + 1]
    BY <1>2 DEF Rotate
  <2>3. \A t \in Sessions : row'[t] \in RowStates /\ row'[t].dev = row[t].dev
                              /\ row'[t].status = row[t].status
    BY <2>1, <2>2 DEF RowStates, IInv, TypeOK
  <2>4. row' \in [Sessions -> RowStates]
    BY <2>2, <2>3 DEF IInv, TypeOK
  <2>5. RowsSettle
    BY <2>3, <2>4 DEF RowsSettle
  <2> QED BY <2>5, StepOn DEF Rotate, Uses
<1>3. CASE ~Active(req[c].sid)
  BY <1>3, StepOn, SameRows DEF Rotate, Uses
<1> QED BY <1>2, <1>3

LEMMA RevokeAllStep == ASSUME IInv, NEW c \in Clients, RevokeAll(c) PROVE IInv'
<1>1. \A t \in Sessions : row[t] \in RowStates
  BY Types DEF IInv
<1>2. \A t \in Sessions : row'[t] = IF Active(t) THEN [row[t] EXCEPT !.status = "manual"] ELSE row[t]
  BY DEF RevokeAll
<1>3. \A t \in Sessions : row'[t] \in RowStates /\ row'[t].dev = row[t].dev
                            /\ row'[t].status = IF Active(t) THEN "manual" ELSE row[t].status
  BY <1>1, <1>2 DEF RowStates, Reasons
<1>4. row' \in [Sessions -> RowStates]
  BY <1>3 DEF RevokeAll
<1>5. RowsSettle
  BY <1>3, <1>4 DEF RowsSettle, Active
<1>6. req[c] \in ReqStates /\ req' = [req EXCEPT ![c] = req[c]]
  BY Types DEF RevokeAll, IInv, TypeOK
<1>7. req[c].pc \notin Uses /\ req[c].pc \notin LoginSteps
  BY DEF RevokeAll, Uses, LoginSteps
<1>8. \A s \in req[c].evicts : Known(s)
  BY DEF IInv, ReqOK
<1> QED BY <1>5, <1>6, <1>7, <1>8, OutsideStep DEF RevokeAll

-----------------------------------------------------------------------------
(* The steps of create_session. *)

\* A step of create_session that leaves the table alone: it gathers rows to
\* evict, marks rows, or moves on.
LEMMA LoginStep ==
    ASSUME IInv, NEW c \in Clients, NEW st \in ReqStates, req' = [req EXCEPT ![c] = st],
           UNCHANGED <<row, started, expired, link, redeemed>>,
           req[c].pc \in LoginSteps, st.pc \in LoginSteps \ {"snap_device"},
           st.sid = req[c].sid, st.dev = req[c].dev, st.alone <=> req[c].alone,
           \A s \in st.evicts : Known(s),
           st.pc \in {"evict_device", "evict_oldest"} =>
               st.rows \subseteq Sessions /\ \A s \in st.rows : Known(s),
           st.pc = "evict_device" =>
               \A s \in Sessions : Active(s) /\ row[s].dev = req[c].dev => s \in st.rows,
           st.pc \in {"count", "snap_oldest", "evict_oldest", "insert"} /\ req[c].alone =>
               \A s \in Sessions \ st.evicts : Active(s) => row[s].dev # req[c].dev,
           st.pc = "commit" =>
               /\ \A s \in Sessions \ st.evicts : Active(s) => row[s].dev # req[c].dev
               /\ \A d \in Clients \ {c} : req[d].pc = "commit" => req[d].dev # req[c].dev
    PROVE  IInv'
<1>1. req' \in [Clients -> ReqStates] /\ req'[c] = st /\ \A d \in Clients \ {c} : req'[d] = req[d]
  BY ReqMoves DEF IInv
<1>2. \A s : (Active(s)' <=> Active(s)) /\ (Known(s)' <=> Known(s))
  BY DEF Active, Known
<1>3. InLogin(c) /\ InLogin(c)'
  BY <1>1 DEF InLogin
<1>4. st.pc \notin Uses /\ st.pc # "snap_device"
  BY DEF Uses, LoginSteps
<1>5. ReqOK(c)'
  <2>1. ReqOK(c)
    BY DEF IInv
  <2>2. st.sid \in 1 .. started /\ ~Known(st.sid)
    BY <1>3, <2>1 DEF ReqOK
  <2> QED BY <1>1, <1>4, <2>2 DEF ReqOK, Known
<1>6. Unrevoked(c)' = {s \in Sessions : Active(s) /\ s \notin st.evicts}
  BY <1>1 DEF Unrevoked, Active
<1>7. (\A s \in Sessions \ st.evicts : Active(s) => row[s].dev # req[c].dev) => NoneOfDevice(c)'
  BY <1>1, <1>6 DEF NoneOfDevice
<1>8. CommitOK(c)'
  BY <1>1, <1>7 DEF CommitOK
<1>9. AloneOK(c)'
  <2>1. AloneOK(c)
    BY DEF IInv
  <2>2. req[c].alone => \A o \in Clients \ {c} : ~InLogin(o)'
    BY <1>1, <1>3, <2>1 DEF AloneOK, InLogin
  <2> QED BY <1>1, <1>7, <2>2 DEF AloneOK, Active
<1> QED BY <1>1, <1>3, <1>5, <1>8, <1>9, SameRows, ClientStep

LEMMA ReqType ==
    ASSUME IInv, NEW c \in Clients
    PROVE  /\ req[c] \in ReqStates
           /\ req[c].evicts \subseteq Sessions /\ \A s \in req[c].evicts : Known(s)
<1>1. req[c] \in ReqStates
  BY Types DEF IInv
<1>2. req[c].evicts \subseteq Sessions
  BY <1>1 DEF ReqStates
<1> QED BY <1>1, <1>2 DEF IInv, ReqOK

LEMMA ActiveKnown == \A s \in Sessions : Active(s) => Known(s)
BY DEF Active, Known

LEMMA SnapDeviceStep == ASSUME IInv, NEW c \in Clients, SnapDevice(c) PROVE IInv'
<1> DEFINE found == {s \in Unrevoked(c) : row[s].dev = req[c].dev}
           st == [req[c] EXCEPT !.pc = "evict_device", !.rows = found]
<1>1. found \subseteq Sessions /\ \A s \in found : Known(s)
  BY ActiveKnown DEF Unrevoked
<1>2. \A s \in Sessions : Active(s) /\ row[s].dev = req[c].dev => s \in found
  BY DEF Unrevoked, IInv, ReqOK, SnapDevice
<1>3. req' = [req EXCEPT ![c] = st]
  BY DEF SnapDevice
<1> HIDE DEF found
<1>4. st \in ReqStates /\ st.pc = "evict_device" /\ st.rows = found /\ st.sid = req[c].sid
      /\ st.dev = req[c].dev /\ st.evicts = req[c].evicts
  BY <1>1, ReqType DEF ReqStates, LoginSteps
<1>5. st.alone <=> req[c].alone
  BY ReqType DEF ReqStates
<1> HIDE DEF st
<1>6. req[c].pc \in LoginSteps /\ "evict_device" \in LoginSteps
      /\ UNCHANGED <<row, started, expired, link, redeemed>>
  BY DEF SnapDevice, LoginSteps
<1> QED BY <1>1, <1>2, <1>3, <1>4, <1>5, <1>6, ReqType, LoginStep

LEMMA EvictDeviceStep == ASSUME IInv, NEW c \in Clients, EvictDevice(c) PROVE IInv'
<1> DEFINE ev == {s \in req[c].rows : Active(s)}
           st == [req[c] EXCEPT !.pc = "count", !.rows = {}, !.evicts = ev]
<1>1. ev \subseteq Sessions /\ \A s \in ev : Known(s)
  BY DEF EvictDevice, IInv, ReqOK
<1>2. req[c].alone => \A s \in Sessions \ ev : Active(s) => row[s].dev # req[c].dev
  BY DEF EvictDevice, IInv, AloneOK, InLogin, LoginSteps
<1>3. req' = [req EXCEPT ![c] = st]
  BY DEF EvictDevice
<1> HIDE DEF ev
<1>4. st \in ReqStates /\ st.pc = "count" /\ st.sid = req[c].sid
      /\ st.dev = req[c].dev /\ st.evicts = ev
  BY <1>1, ReqType DEF ReqStates, LoginSteps
<1>5. st.alone <=> req[c].alone
  BY ReqType DEF ReqStates
<1> HIDE DEF st
<1>6. req[c].pc \in LoginSteps /\ "count" \in LoginSteps
      /\ UNCHANGED <<row, started, expired, link, redeemed>>
  BY DEF EvictDevice, LoginSteps
<1> QED BY <1>1, <1>2, <1>3, <1>4, <1>5, <1>6, LoginStep

\* What a lone login knows once its device's sessions are marked.
LEMMA NoneLeft ==
    ASSUME IInv, NEW c \in Clients, req[c].alone,
           req[c].pc \in {"count", "snap_oldest", "evict_oldest", "insert"}
    PROVE  \A s \in Sessions \ req[c].evicts : Active(s) => row[s].dev # req[c].dev
<1>1. NoneOfDevice(c)
  BY DEF IInv, AloneOK, InLogin, LoginSteps
<1> QED BY <1>1 DEF NoneOfDevice, Unrevoked

LEMMA CountActiveStep == ASSUME IInv, NEW c \in Clients, CountActive(c) PROVE IInv'
<1> DEFINE S == {s \in Unrevoked(c) : s > expired}
           active == Cardinality(S)
<1>1. active \in 0 .. MaxLogins
  <2>1. IsFiniteSet(1 .. MaxLogins) /\ Cardinality(1 .. MaxLogins) = MaxLogins
    BY ConstantsAreNumbers, FS_Interval
  <2>2. S \subseteq 1 .. MaxLogins
    BY DEF Unrevoked, Sessions
  <2>3. IsFiniteSet(S) /\ Cardinality(S) <= MaxLogins
    BY <2>1, <2>2, FS_Subset
  <2>4. Cardinality(S) \in Nat
    BY <2>3, FS_CardinalityType
  <2> QED BY <2>3, <2>4, ConstantsAreNumbers
<1> DEFINE X == {s \in Unrevoked(c) : s <= expired}
           left == Cardinality(X)
<1>0. left \in 0 .. MaxLogins
  <2>1. IsFiniteSet(1 .. MaxLogins) /\ Cardinality(1 .. MaxLogins) = MaxLogins
    BY ConstantsAreNumbers, FS_Interval
  <2>2. X \subseteq 1 .. MaxLogins
    BY DEF Unrevoked, Sessions
  <2>3. IsFiniteSet(X) /\ Cardinality(X) <= MaxLogins
    BY <2>1, <2>2, FS_Subset
  <2>4. Cardinality(X) \in Nat
    BY <2>3, FS_CardinalityType
  <2> QED BY <2>3, <2>4, ConstantsAreNumbers
<1>2. req[c].pc = "count" /\ UNCHANGED <<row, started, expired, link, redeemed>>
  BY DEF CountActive
<1>3. req[c].pc \in LoginSteps /\ {"insert", "snap_oldest"} \subseteq LoginSteps
  BY <1>2 DEF LoginSteps
<1>4. CASE active >= MaxActive
  <2> DEFINE q == (active - MaxActive) + 1
             st == [req[c] EXCEPT !.pc = "snap_oldest", !.quota = q, !.missed = left]
  <2>1. q \in 0 .. MaxLogins
    BY <1>1, <1>4, ConstantsAreNumbers
  <2>2. req' = [req EXCEPT ![c] = st]
    BY <1>4 DEF CountActive
  <2> HIDE DEF q, active, S, left, X
  <2>3. st \in ReqStates /\ st.pc = "snap_oldest" /\ st.sid = req[c].sid
        /\ st.dev = req[c].dev /\ st.evicts = req[c].evicts
    BY <1>0, <2>1, ReqType DEF ReqStates, LoginSteps
  <2>4. st.alone <=> req[c].alone
    BY ReqType DEF ReqStates
  <2> HIDE DEF st
  <2> QED BY <1>2, <1>3, <2>2, <2>3, <2>4, ReqType, NoneLeft, LoginStep
<1>5. CASE ~(active >= MaxActive)
  <2> DEFINE st == [req[c] EXCEPT !.pc = "insert", !.quota = 0, !.missed = left]
  <2>2. req' = [req EXCEPT ![c] = st]
    BY <1>5 DEF CountActive
  <2> HIDE DEF active, S, left, X
  <2>1. 0 \in 0 .. MaxLogins
    BY ConstantsAreNumbers
  <2>3. st \in ReqStates /\ st.pc = "insert" /\ st.sid = req[c].sid
        /\ st.dev = req[c].dev /\ st.evicts = req[c].evicts
    BY <1>0, <2>1, ReqType DEF ReqStates, LoginSteps
  <2>4. st.alone <=> req[c].alone
    BY ReqType DEF ReqStates
  <2> HIDE DEF st
  <2> QED BY <1>2, <1>3, <2>2, <2>3, <2>4, ReqType, NoneLeft, LoginStep
<1> QED BY <1>4, <1>5

LEMMA SnapOldestStep == ASSUME IInv, NEW c \in Clients, SnapOldest(c) PROVE IInv'
<1> DEFINE Older(s) == {t \in Unrevoked(c) : t < s}
           found == {s \in Unrevoked(c) : Cardinality(Older(s)) < req[c].quota}
           st == [req[c] EXCEPT !.pc = "evict_oldest", !.rows = found]
<1>1. found \subseteq Sessions /\ \A s \in found : Known(s)
  BY ActiveKnown DEF Unrevoked
<1>2. req' = [req EXCEPT ![c] = st]
  BY DEF SnapOldest
<1> HIDE DEF found
<1>3. st \in ReqStates /\ st.pc = "evict_oldest" /\ st.rows = found /\ st.sid = req[c].sid
      /\ st.dev = req[c].dev /\ st.evicts = req[c].evicts
  BY <1>1, ReqType DEF ReqStates, LoginSteps
<1>4. st.alone <=> req[c].alone
  BY ReqType DEF ReqStates
<1> HIDE DEF st
<1>5. req[c].pc = "snap_oldest" /\ UNCHANGED <<row, started, expired, link, redeemed>>
  BY DEF SnapOldest
<1>6. req[c].pc \in LoginSteps /\ "evict_oldest" \in LoginSteps
  BY <1>5 DEF LoginSteps
<1> QED BY <1>1, <1>2, <1>3, <1>4, <1>5, <1>6, ReqType, NoneLeft, LoginStep

LEMMA EvictOldestStep == ASSUME IInv, NEW c \in Clients, EvictOldest(c) PROVE IInv'
<1> DEFINE ev == req[c].evicts \cup req[c].rows
           st == [req[c] EXCEPT !.pc = "insert", !.rows = {}, !.quota = 0, !.evicts = ev]
<1>1. ev \subseteq Sessions /\ \A s \in ev : Known(s)
  BY ReqType DEF EvictOldest, IInv, ReqOK
<1>2. req' = [req EXCEPT ![c] = st]
  BY DEF EvictOldest
<1>3. req[c].evicts \subseteq ev
  OBVIOUS
<1> HIDE DEF ev
<1>8. 0 \in 0 .. MaxLogins /\ ev \in SUBSET Sessions /\ "insert" \in LoginSteps
      /\ req[c] \in ReqStates
  BY <1>1, ReqType, ConstantsAreNumbers DEF LoginSteps
<1>4. st \in ReqStates /\ st.pc = "insert" /\ st.sid = req[c].sid
      /\ st.dev = req[c].dev /\ st.evicts = ev
  <2>1. st \in ReqStates
    BY <1>8 DEF ReqStates
  <2>2. st.pc = "insert" /\ st.sid = req[c].sid /\ st.dev = req[c].dev /\ st.evicts = ev
    BY <1>8 DEF ReqStates
  <2> QED BY <2>1, <2>2
<1>5. st.alone <=> req[c].alone
  BY ReqType DEF ReqStates
<1> HIDE DEF st
<1>6. req[c].pc = "evict_oldest" /\ UNCHANGED <<row, started, expired, link, redeemed>>
  BY DEF EvictOldest
<1>7. req[c].pc \in LoginSteps /\ "insert" \in LoginSteps
  BY <1>6 DEF LoginSteps
<1> QED BY <1>1, <1>2, <1>3, <1>4, <1>5, <1>6, <1>7, NoneLeft, LoginStep

\* The unique index lets the row in.
LEMMA InsertStep == ASSUME IInv, NEW c \in Clients, Insert(c) PROVE IInv'
<1> DEFINE st == [req[c] EXCEPT !.pc = "commit"]
<1>1. \A s \in Sessions \ req[c].evicts : Active(s) => row[s].dev # req[c].dev
  BY DEF Insert, IndexTaken, Unrevoked
<1>2. \A d \in Clients \ {c} : req[d].pc = "commit" => req[d].dev # req[c].dev
  BY DEF Insert, IndexBusy
<1>3. req' = [req EXCEPT ![c] = st]
  BY DEF Insert, Step
<1>4. st \in ReqStates /\ st.pc = "commit" /\ st.sid = req[c].sid
      /\ st.dev = req[c].dev /\ st.evicts = req[c].evicts
  BY ReqType DEF ReqStates, LoginSteps
<1>5. st.alone <=> req[c].alone
  BY ReqType DEF ReqStates
<1> HIDE DEF st
<1>6. req[c].pc \in LoginSteps /\ "commit" \in LoginSteps
      /\ UNCHANGED <<row, started, expired, link, redeemed>>
  BY DEF Insert, LoginSteps
<1> QED BY <1>1, <1>2, <1>3, <1>4, <1>5, <1>6, ReqType, LoginStep

LEMMA InsertConflictStep == ASSUME IInv, NEW c \in Clients, InsertConflict(c) PROVE IInv'
BY FinishStep, SameRows DEF InsertConflict

LEMMA AbortStep == ASSUME IInv, NEW c \in Clients, Abort(c) PROVE IInv'
BY FinishStep, SameRows DEF Abort

\* COMMIT: what it did to each row.
LEMMA CommitRows ==
    ASSUME IInv, NEW c \in Clients, Commit(c)
    PROVE  /\ req[c].sid \in Sessions /\ ~Known(req[c].sid) /\ req[c].sid \notin req[c].evicts
           /\ row' \in [Sessions -> RowStates]
           /\ row'[req[c].sid].status = "active" /\ row'[req[c].sid].dev = req[c].dev
           /\ \A s \in Sessions \ {req[c].sid} :
                /\ row'[s].dev = row[s].dev /\ row'[s].gen = row[s].gen
                /\ row'[s].status = IF s \in req[c].evicts THEN "overflow" ELSE row[s].status
<1>1. /\ req[c].sid \in Sessions /\ ~Known(req[c].sid)
      /\ req[c].evicts \subseteq Sessions /\ \A s \in req[c].evicts : Known(s)
  BY ReqType, ConstantsAreNumbers
     DEF Commit, IInv, TypeOK, ReqOK, InLogin, LoginSteps, Sessions
<1>2. req[c].dev \in Devices \cup {NoDevice}
  BY ReqType DEF ReqStates
<1>3. \A s \in Sessions : row'[s] =
         IF s \in req[c].evicts THEN [row[s] EXCEPT !.status = "overflow"]
         ELSE IF s = req[c].sid THEN [status |-> "active", dev |-> req[c].dev, gen |-> 0]
         ELSE row[s]
  BY DEF Commit
<1>4. ASSUME NEW s \in Sessions, s \in req[c].evicts
      PROVE  /\ row'[s] \in RowStates /\ row'[s].status = "overflow"
             /\ row'[s].dev = row[s].dev /\ row'[s].gen = row[s].gen
  <2>1. row[s] \in RowStates /\ row'[s] = [row[s] EXCEPT !.status = "overflow"]
    BY <1>3, <1>4, Types DEF IInv
  <2> QED BY <2>1 DEF RowStates, Reasons
<1>5. /\ row'[req[c].sid] = [status |-> "active", dev |-> req[c].dev, gen |-> 0]
      /\ [status |-> "active", dev |-> req[c].dev, gen |-> 0] \in RowStates
  BY <1>1, <1>2, <1>3 DEF RowStates
<1>6. ASSUME NEW s \in Sessions, s \notin req[c].evicts, s # req[c].sid
      PROVE  row'[s] = row[s] /\ row[s] \in RowStates
  BY <1>3, <1>6, Types DEF IInv
<1>7. \A s \in Sessions : row'[s] \in RowStates
  BY <1>4, <1>5, <1>6
<1>8. row' \in [Sessions -> RowStates]
  BY <1>7 DEF Commit
<1> QED BY <1>1, <1>4, <1>5, <1>6, <1>8

LEMMA CommitStep == ASSUME IInv, NEW c \in Clients, Commit(c) PROVE IInv'
<1> DEFINE new == req[c].sid
<1>1. /\ new \in Sessions /\ ~Known(new)
      /\ row' \in [Sessions -> RowStates]
      /\ row'[new].status = "active" /\ row'[new].dev = req[c].dev
      /\ \A s \in Sessions \ {new} :
           /\ row'[s].dev = row[s].dev
           /\ row'[s].status = IF s \in req[c].evicts THEN "overflow" ELSE row[s].status
  BY CommitRows
<1>2. /\ req' = [req EXCEPT ![c] = Idle] /\ UNCHANGED <<started, expired, link, redeemed>>
      /\ req[c].pc = "commit" /\ InLogin(c)
  BY DEF Commit, Finish, InLogin, LoginSteps
<1>3. /\ req' \in [Clients -> ReqStates] /\ req'[c] = Idle
      /\ \A d \in Clients \ {c} : req'[d] = req[d]
  BY <1>2, IdleType, ReqMoves DEF IInv
<1>4. TypeOK'
  BY <1>1, <1>2, <1>3 DEF IInv, TypeOK
<1>5. new \in 1 .. started /\ started \in Nat
  BY <1>2, ConstantsAreNumbers DEF IInv, TypeOK, ReqOK
<1>6. /\ \A s \in req[c].evicts : Known(s)
      /\ \A s \in Sessions : Known(s)' <=> (s = new \/ Known(s))
      /\ \A s \in Sessions : Active(s)' => s = new \/ (Active(s) /\ s \notin req[c].evicts)
  BY <1>1, ReqType DEF Known, Active
<1> HIDE DEF new
<1>7. ReqOK(c)' /\ CommitOK(c)' /\ AloneOK(c)' /\ ~InLogin(c)'
  BY <1>3, IdleType DEF ReqOK, CommitOK, AloneOK, InLogin, LoginSteps, Uses
<1>8. ASSUME NEW d \in Clients \ {c} PROVE ReqOK(d)' /\ CommitOK(d)' /\ AloneOK(d)'
  <2>1. req'[d] = req[d] /\ ReqOK(d) /\ CommitOK(d) /\ AloneOK(d)
    BY <1>3 DEF IInv
  <2>2. req[d].evicts \subseteq Sessions /\ (InLogin(d)' <=> InLogin(d))
    BY <2>1, ReqType DEF InLogin
  <2>3. InLogin(d) => req[d].sid \in Sessions /\ req[d].sid # new
    BY <2>1, <1>2, ConstantsAreNumbers DEF ReqOK, Sessions, IInv, TypeOK, SidsApart, new
  <2>4. ReqOK(d)'
    <3>1. \A s \in req[d].evicts : Known(s)'
      BY <2>1, <2>2, <1>6 DEF ReqOK
    <3>3. req[d].pc \in Uses => req[d].sid \in Sessions /\ row'[req[d].sid].status # "absent"
      BY <2>1, <1>6 DEF ReqOK, Known
    <3>4. InLogin(d) => row'[req[d].sid].status = "absent"
      BY <2>1, <2>3, <1>6 DEF ReqOK, Known
    <3>5. req[d].pc \in {"evict_device", "evict_oldest"} =>
             req[d].rows \subseteq Sessions /\ \A s \in req[d].rows : Known(s)'
      BY <2>1, <1>6 DEF ReqOK
    <3> QED BY <1>2, <2>1, <2>2, <3>1, <3>3, <3>4, <3>5 DEF ReqOK, Known
  <2>5. CommitOK(d)'
    <3> SUFFICES ASSUME req[d].pc = "commit" PROVE NoneOfDevice(d)'
      BY <1>3, <1>7, <2>1, IdleType DEF CommitOK
    <3>1. NoneOfDevice(d) /\ req[d].dev # req[c].dev
      BY <1>2, <2>1 DEF CommitOK
    <3>2. ASSUME NEW s \in Sessions, Active(s)', s \notin req[d].evicts
          PROVE  row'[s].dev # req[d].dev
      <4>1. CASE s = new
        BY <4>1, <3>1, <1>1
      <4>2. CASE s # new
        BY <4>2, <3>1, <3>2, <1>1, <1>6 DEF NoneOfDevice, Unrevoked
      <4> QED BY <4>1, <4>2
    <3> QED BY <2>1, <3>2 DEF NoneOfDevice, Unrevoked
  <2>6. AloneOK(d)'
    <3>1. ~(InLogin(d) /\ req[d].alone)
      BY <1>2, <2>1 DEF AloneOK
    <3> QED BY <2>1, <2>2, <3>1 DEF AloneOK
  <2> QED BY <2>4, <2>5, <2>6
<1>9. SidsApart'
  BY <1>1, <1>2, <1>3, <1>5, <1>6, <1>7 DEF IInv, SidsApart, InLogin
<1>10. OneSessionPerDevice'
  <2>1. NoneOfDevice(c)
    BY <1>2 DEF IInv, CommitOK
  <2>2. ASSUME NEW s \in Sessions, s # new, Active(s)' PROVE row'[s].dev # row'[new].dev
    BY <2>1, <2>2, <1>1, <1>6 DEF NoneOfDevice, Unrevoked
  <2>3. ASSUME NEW s \in Sessions, NEW t \in Sessions, s # t, s # new, t # new,
               Active(s)', Active(t)'
        PROVE  row'[s].dev # row'[t].dev
    BY <2>3, <1>1, <1>6 DEF IInv, OneSessionPerDevice
  <2> QED BY <1>1, <2>2, <2>3 DEF OneSessionPerDevice
<1>11. LinksOK'
  BY <1>2 DEF IInv, LinksOK
<1>12. \A d \in Clients : ReqOK(d)' /\ CommitOK(d)' /\ AloneOK(d)'
  BY <1>7, <1>8
<1> QED BY <1>4, <1>9, <1>10, <1>11, <1>12 DEF IInv

\* BEGIN: a login of its own number; whoever was alone no longer is.
LEMMA StartStep ==
    ASSUME IInv, NEW c \in Clients, NEW d \in Devices \cup {NoDevice}, StartSession(c, d),
           ~InLogin(c), UNCHANGED <<row, expired>>, LinksOK',
           link' \in [Links -> BOOLEAN], redeemed' \in [Links -> Nat]
    PROVE  IInv'
<1> DEFINE lone == \A o \in Clients \ {c} : ~InLogin(o)
           st == [Idle EXCEPT !.pc = "snap_device", !.sid = started + 1, !.dev = d,
                              !.alone = lone]
           other(e) == [req[e] EXCEPT !.alone = req[e].alone /\ ~InLogin(e)]
<1>1. /\ started \in Nat /\ started + 1 \in 0 .. MaxLogins /\ started + 1 \in Sessions
      /\ started' = started + 1 /\ expired \in 0 .. (started + 1)
  <2>1. started < MaxLogins /\ started' = started + 1
    BY DEF StartSession
  <2>2. started \in 0 .. MaxLogins /\ expired \in 0 .. started
    BY DEF IInv, TypeOK
  <2> QED BY <2>1, <2>2, ConstantsAreNumbers DEF Sessions
<1>2. req' = [e \in Clients |-> IF e = c THEN st ELSE other(e)]
  BY DEF StartSession
<1>3. lone \in BOOLEAN
  OBVIOUS
<1> HIDE DEF lone
<1>4. st \in ReqStates /\ st.pc = "snap_device" /\ st.sid = started + 1
      /\ st.dev = d /\ st.evicts = {}
  BY <1>1, <1>3, IdleType DEF ReqStates, LoginSteps
<1>5. st.alone <=> lone
  BY <1>3, IdleType DEF ReqStates
<1>6. ASSUME NEW e \in Clients
      PROVE  /\ other(e) \in ReqStates
             /\ other(e).pc = req[e].pc /\ other(e).sid = req[e].sid /\ other(e).dev = req[e].dev
             /\ other(e).rows = req[e].rows /\ other(e).evicts = req[e].evicts
             /\ other(e).alone => ~InLogin(e)
  <2> DEFINE b == req[e].alone /\ ~InLogin(e)
  <2>1. b \in BOOLEAN /\ (b => ~InLogin(e))
    OBVIOUS
  <2> HIDE DEF b
  <2>2. other(e) = [req[e] EXCEPT !.alone = b] /\ req[e] \in ReqStates
    BY ReqType DEF b
  <2> QED BY <2>1, <2>2 DEF ReqStates
<1> HIDE DEF st, other
<1>7. /\ req'[c] = st
      /\ \A e \in Clients \ {c} : req'[e] = other(e)
      /\ req' \in [Clients -> ReqStates]
  BY <1>2, <1>4, <1>6
<1>8. TypeOK'
  BY <1>1, <1>7 DEF IInv, TypeOK, StartSession
<1>9. \A s : (Active(s)' <=> Active(s)) /\ (Known(s)' <=> Known(s))
  BY DEF Active, Known
<1>10. \A e \in Clients \ {c} : InLogin(e)' <=> InLogin(e)
  BY <1>6, <1>7 DEF InLogin
<1>11. ReqOK(c)' /\ CommitOK(c)' /\ AloneOK(c)'
  <2>1. ~Known(started + 1)
    BY <1>1 DEF IInv, SidsApart
  <2>2. st.sid \in 1 .. started'
    BY <1>1, <1>4
  <2>3. st.pc \notin Uses /\ st.pc \notin {"evict_device", "evict_oldest", "commit"}
    BY <1>4 DEF Uses
  <2>4. ReqOK(c)' /\ CommitOK(c)'
    BY <1>4, <1>7, <2>1, <2>2, <2>3 DEF ReqOK, CommitOK, Known
  <2>5. AloneOK(c)'
    BY <1>4, <1>5, <1>7, <1>10 DEF AloneOK, lone
  <2> QED BY <2>4, <2>5
<1>12. ASSUME NEW e \in Clients \ {c} PROVE ReqOK(e)' /\ CommitOK(e)' /\ AloneOK(e)'
  <2>1. /\ req'[e].pc = req[e].pc /\ req'[e].sid = req[e].sid /\ req'[e].dev = req[e].dev
        /\ req'[e].rows = req[e].rows /\ req'[e].evicts = req[e].evicts
        /\ ReqOK(e) /\ CommitOK(e)
    BY <1>6, <1>7 DEF IInv
  <2>2. ReqOK(e)'
    BY <1>1, <1>10, <2>1 DEF ReqOK, Known
  <2>3. Unrevoked(e)' = Unrevoked(e)
    BY <2>1 DEF Unrevoked, Active
  <2>4. CommitOK(e)'
    <3> SUFFICES ASSUME req[e].pc = "commit"
                 PROVE  /\ NoneOfDevice(e)'
                        /\ \A f \in Clients \ {e} : req'[f].pc = "commit" => req'[f].dev # req[e].dev
      BY <2>1 DEF CommitOK
    <3>1. NoneOfDevice(e)'
      BY <2>1, <2>3 DEF CommitOK, NoneOfDevice
    <3>2. ASSUME NEW f \in Clients \ {e}, req'[f].pc = "commit" PROVE req'[f].dev # req[e].dev
      <4>1. f # c
        BY <3>2, <1>4, <1>7
      <4> QED BY <4>1, <3>2, <2>1, <1>6, <1>7 DEF CommitOK
    <3> QED BY <3>1, <3>2
  <2>5. AloneOK(e)'
    BY <1>6, <1>7, <1>10 DEF AloneOK
  <2> QED BY <2>2, <2>4, <2>5
<1>13. SidsApart'
  <2>1. \A e \in Clients \ {c} : InLogin(e)' => req'[e].sid = req[e].sid /\ req[e].sid < started + 1
    BY <1>1, <1>6, <1>7, <1>10 DEF IInv, ReqOK
  <2>2. \A e, f \in Clients : e # f /\ InLogin(e)' /\ InLogin(f)' => req'[e].sid # req'[f].sid
    <3> SUFFICES ASSUME NEW e \in Clients, NEW f \in Clients, e # f, InLogin(e)', InLogin(f)'
                 PROVE  req'[e].sid # req'[f].sid
      OBVIOUS
    <3>1. CASE e = c
      BY <3>1, <2>1, <1>1, <1>4, <1>7
    <3>2. CASE f = c
      BY <3>2, <2>1, <1>1, <1>4, <1>7
    <3>3. CASE e # c /\ f # c
      BY <3>3, <2>1, <1>10 DEF IInv, SidsApart
    <3> QED BY <3>1, <3>2, <3>3
  <2>3. \A s \in Sessions : s > started' => ~(Known(s)')
    BY <1>1, <1>9, SessionsNat DEF IInv, SidsApart
  <2> QED BY <2>2, <2>3 DEF SidsApart
<1>14. OneSessionPerDevice'
  BY DEF IInv, OneSessionPerDevice, Active
<1>15. \A e \in Clients : ReqOK(e)' /\ CommitOK(e)' /\ AloneOK(e)'
  BY <1>11, <1>12
<1> QED BY <1>8, <1>13, <1>14, <1>15 DEF IInv

LEMMA SignInStep ==
    ASSUME IInv, NEW c \in Clients, NEW d \in Devices, SignIn(c, d) PROVE IInv'
<1>1. ~InLogin(c)
  BY DEF SignIn, InLogin, LoginSteps
<1>2. LinksOK' /\ link' \in [Links -> BOOLEAN] /\ redeemed' \in [Links -> Nat]
  BY DEF SignIn, IInv, LinksOK, TypeOK
<1> QED BY <1>1, <1>2, StartStep DEF SignIn

LEMMA ConsumeStep ==
    ASSUME IInv, NEW c \in Clients, NEW l \in Links, Consume(c, l) PROVE IInv'
<1>1. ~InLogin(c)
  BY DEF Consume, InLogin, LoginSteps
<1>2. link' = [link EXCEPT ![l] = FALSE] /\ redeemed' = [redeemed EXCEPT ![l] = redeemed[l] + 1]
      /\ link \in [Links -> BOOLEAN] /\ redeemed \in [Links -> Nat] /\ link[l]
  BY DEF Consume, IInv, TypeOK
<1>3. link' \in [Links -> BOOLEAN] /\ redeemed' \in [Links -> Nat]
  BY <1>2
<1>4. LinksOK'
  BY <1>2 DEF IInv, LinksOK
<1>5. req[c].dev \in Devices \cup {NoDevice}
  BY ReqType DEF ReqStates
<1>6. StartSession(c, req[c].dev) /\ UNCHANGED <<row, expired>>
  BY DEF Consume
<1> QED BY <1>1, <1>3, <1>4, <1>5, <1>6, StartStep

\* Time, or nothing, passes.
LEMMA TimeStep ==
    ASSUME IInv, UNCHANGED <<row, req, started, link, redeemed>>, expired' \in 0 .. started
    PROVE  IInv'
<1>1. TypeOK'
  BY DEF IInv, TypeOK
<1>2. \A c \in Clients : ReqOK(c)' /\ CommitOK(c)' /\ AloneOK(c)'
  BY DEF IInv, ReqOK, CommitOK, AloneOK, InLogin, Known, NoneOfDevice, Unrevoked, Active
<1>3. SidsApart' /\ OneSessionPerDevice' /\ LinksOK'
  BY DEF IInv, SidsApart, OneSessionPerDevice, LinksOK, InLogin, Known, Active
<1> QED BY <1>1, <1>2, <1>3 DEF IInv

LEMMA NextIInv == IInv /\ [Next]_vars => IInv'
<1> SUFFICES ASSUME IInv, [Next]_vars PROVE IInv'
  OBVIOUS
<1>1. ASSUME NEW c \in Clients, NEW d \in Devices, SignIn(c, d) PROVE IInv'
  BY <1>1, SignInStep
<1>2. ASSUME NEW c \in Clients, NEW l \in Links,
             Consume(c, l) \/ LoseLink(c, l) \/ \E d \in Devices : VerifyLink(c, l, d)
      PROVE  IInv'
  BY <1>2, ConsumeStep, LoseLinkStep, VerifyLinkStep
<1>3. ASSUME NEW c \in Clients,
             SnapDevice(c) \/ EvictDevice(c) \/ CountActive(c) \/ SnapOldest(c) \/ EvictOldest(c)
      PROVE  IInv'
  BY <1>3, SnapDeviceStep, EvictDeviceStep, CountActiveStep, SnapOldestStep, EvictOldestStep
<1>4. ASSUME NEW c \in Clients, Insert(c) \/ InsertConflict(c) \/ Commit(c) \/ Abort(c)
      PROVE  IInv'
  BY <1>4, InsertStep, InsertConflictStep, CommitStep, AbortStep
<1>5. ASSUME NEW c \in Clients, NEW s \in Sessions,
             Validate(c, s) \/ \E d \in Devices : Refresh(c, s, d)
      PROVE  IInv'
  BY <1>5, ValidateStep, RefreshStep
<1>6. ASSUME NEW c \in Clients,
             Timeout(c) \/ Mismatch(c) \/ Rotate(c) \/ RefreshReturn(c)
      PROVE  IInv'
  BY <1>6, TimeoutStep, MismatchStep, RotateStep, RefreshReturnStep
<1>7. ASSUME NEW c \in Clients, Touch(c) \/ Logout(c) \/ RevokeAll(c) PROVE IInv'
  BY <1>7, TouchStep, LogoutStep, RevokeAllStep
<1>8. CASE Expire
  <2>1. expired' \in 0 .. started
    BY <1>8, ConstantsAreNumbers DEF Expire, IInv, TypeOK
  <2> QED BY <1>8, <2>1, TimeStep DEF Expire
<1>9. CASE UNCHANGED vars
  BY <1>9, TimeStep DEF vars, IInv, TypeOK
<1> QED BY <1>1, <1>2, <1>3, <1>4, <1>5, <1>6, <1>7, <1>8, <1>9 DEF Next

LEMMA Inductive == Spec => []IInv
BY InitIInv, NextIInv, PTL DEF Spec

-----------------------------------------------------------------------------

Gone(s) == row[s].status \in Reasons

StaysGone(s) == Gone(s) => Gone(s)' /\ row'[s].gen = row[s].gen

LEMMA GoneNotActive == \A s : Gone(s) => ~Active(s) /\ Known(s)
BY DEF Gone, Active, Known, Reasons

\* Revoking a row leaves its token generation, and the other rows, alone.
LEMMA RevokeKeeps ==
    ASSUME IInv, NEW t \in Sessions, NEW reason \in Reasons, Revoke(t, reason),
           NEW s \in Sessions
    PROVE  StaysGone(s)
<1>1. row \in [Sessions -> RowStates] /\ row[s] \in RowStates
  BY DEF IInv, TypeOK
<1>2. row'[s].gen = row[s].gen /\ (row'[s].status = IF s = t THEN reason ELSE row[s].status)
  BY <1>1 DEF Revoke, RowStates
<1> QED BY <1>2 DEF StaysGone, Gone

LEMMA NoRevival == IInv /\ [Next]_vars => \A s \in Sessions : StaysGone(s)
<1> SUFFICES ASSUME IInv, [Next]_vars, NEW s \in Sessions PROVE StaysGone(s)
  OBVIOUS
<1>1. CASE UNCHANGED row
  BY <1>1 DEF StaysGone, Gone
<1>2. ASSUME NEW c \in Clients, Timeout(c) \/ Mismatch(c) \/ Logout(c) PROVE StaysGone(s)
  <2>1. req[c].sid \in Sessions
    BY <1>2, SidKnown DEF Timeout, Mismatch, Logout, Uses
  <2> QED BY <1>1, <1>2, <2>1, RevokeKeeps DEF Timeout, Mismatch, Logout, Reasons
<1>3. ASSUME NEW c \in Clients, Rotate(c) PROVE StaysGone(s)
  <2>1. CASE Active(req[c].sid)
    <3>1. req[c].sid \in Sessions /\ row \in [Sessions -> RowStates]
      BY <1>3, SidKnown DEF Rotate, Uses, IInv, TypeOK
    <3>2. CASE s = req[c].sid
      BY <2>1, <3>2, GoneNotActive DEF StaysGone
    <3>3. CASE s # req[c].sid
      <4>1. row'[s] = row[s]
        BY <1>3, <2>1, <3>1, <3>3 DEF Rotate
      <4> QED BY <4>1 DEF StaysGone, Gone
    <3> QED BY <3>2, <3>3
  <2>2. CASE ~Active(req[c].sid)
    BY <1>1, <1>3, <2>2 DEF Rotate
  <2> QED BY <2>1, <2>2
<1>4. ASSUME NEW c \in Clients, RevokeAll(c) PROVE StaysGone(s)
  <2>1. Gone(s) => row'[s] = row[s]
    BY <1>4, GoneNotActive DEF RevokeAll
  <2> QED BY <2>1 DEF StaysGone, Gone
<1>5. ASSUME NEW c \in Clients, Commit(c) PROVE StaysGone(s)
  <2>1. /\ ~Known(req[c].sid)
        /\ s # req[c].sid =>
            /\ row'[s].gen = row[s].gen
            /\ row'[s].status = IF s \in req[c].evicts THEN "overflow" ELSE row[s].status
    BY <1>5, CommitRows
  <2>2. Gone(s) => s # req[c].sid
    BY <2>1, GoneNotActive
  <2> QED BY <2>1, <2>2 DEF StaysGone, Gone, Reasons
<1>6. ASSUME NEW c \in Clients,
             \/ \E d \in Devices : SignIn(c, d)
             \/ \E l \in Links, d \in Devices : VerifyLink(c, l, d)
             \/ \E l \in Links : Consume(c, l) \/ LoseLink(c, l)
             \/ SnapDevice(c) \/ EvictDevice(c) \/ CountActive(c)
             \/ SnapOldest(c) \/ EvictOldest(c)
             \/ Insert(c) \/ InsertConflict(c) \/ Abort(c)
             \/ \E t \in Sessions, d \in Devices : Refresh(c, t, d)
             \/ RefreshReturn(c)
             \/ \E t \in Sessions : Validate(c, t)
             \/ Touch(c)
      PROVE  UNCHANGED row
  BY <1>6 DEF SignIn, VerifyLink, Consume, LoseLink, SnapDevice, EvictDevice, CountActive,
     SnapOldest, EvictOldest, Insert, InsertConflict, Abort, Refresh, RefreshReturn, Validate, Touch
<1>7. Expire \/ UNCHANGED vars => UNCHANGED row
  BY DEF Expire, vars
<1> QED BY <1>1, <1>2, <1>3, <1>4, <1>5, <1>6, <1>7 DEF Next

-----------------------------------------------------------------------------
(* The limit on active sessions. *)

\* What is left of the unrevoked sessions once c has evicted what it picked.
Kept(c) == IF req[c].pc = "evict_oldest" THEN Unrevoked(c) \ req[c].rows ELSE Unrevoked(c)

\* A login that runs alone makes room for its own session among those that it
\* has counted.
CapOK(c) ==
    req[c].alone =>
        /\ req[c].pc = "snap_oldest" =>
            Cardinality(Unrevoked(c)) < MaxActive + req[c].missed + req[c].quota
        /\ req[c].pc \in {"evict_oldest", "insert", "commit"} =>
            Cardinality(Kept(c)) < MaxActive + req[c].missed

CapInv == \A c \in Clients : CapOK(c)

LEMMA FewSessions ==
    ASSUME NEW U \in SUBSET Sessions
    PROVE  /\ IsFiniteSet(U) /\ Cardinality(U) \in Nat
           /\ \A V \in SUBSET U : Cardinality(V) <= Cardinality(U)
<1>1. IsFiniteSet(Sessions)
  BY ConstantsAreNumbers, FS_Interval DEF Sessions
<1>2. IsFiniteSet(U)
  BY <1>1, FS_Subset
<1> QED BY <1>2, FS_CardinalityType, FS_Subset

LEMMA LeastSession ==
    ASSUME NEW V \in SUBSET Sessions, V # {}
    PROVE  \E x \in V : \A y \in V : x <= y
<1>1. V \in SUBSET Nat
  BY SessionsNat
<1>2. PICK x \in V : \A y \in V : ~ (<<y, x>> \in OpToRel(<, Nat))
  BY <1>1, NatLessThanWellFounded, WFMin
<1>3. ASSUME NEW y \in V, y < x PROVE FALSE
  <2>1. <<y, x>> \in Nat \X Nat
    BY <1>1
  <2>2. <<y, x>> \in OpToRel(<, Nat)
    BY <1>3, <2>1 DEF OpToRel
  <2> QED BY <1>2, <2>2
<1> QED BY <1>1, <1>3

\* The n oldest of a set, and how many they leave: the least session that is
\* not among them has n older ones.
LEMMA OldestLeave ==
    ASSUME NEW U \in SUBSET Sessions, NEW n \in Nat, NEW m \in Nat \ {0},
           Cardinality(U) < m + n
    PROVE  Cardinality({s \in U : ~(Cardinality({t \in U : t < s}) < n)}) < m
<1> DEFINE Older(s) == {t \in U : t < s}
           V == {s \in U : ~(Cardinality(Older(s)) < n)}
<1>1. V \in SUBSET U /\ V \in SUBSET Sessions
  OBVIOUS
<1>2. CASE V = {}
  <2>1. Cardinality(V) = 0
    BY <1>2, FS_EmptySet, Zenon
  <2> QED BY <2>1
<1>3. CASE V # {}
  <2>1. PICK x \in V : \A y \in V : x <= y
    BY <1>1, <1>3, LeastSession
  <2>2. x \in U /\ ~(Cardinality(Older(x)) < n)
    OBVIOUS
  <2>3. Older(x) \in SUBSET U /\ Older(x) \in SUBSET Sessions /\ V \cap Older(x) = {}
    <3>1. \A y \in V : ~(y < x)
      <4>1. V \subseteq Nat
        BY SessionsNat
      <4> HIDE DEF V
      <4> QED BY <2>1, <4>1
    <3>2. \A y \in Older(x) : y < x
      OBVIOUS
    <3>3. V \cap Older(x) = {}
      <4> HIDE DEF V, Older
      <4> QED BY <3>1, <3>2
    <3> QED BY <3>3
  <2> HIDE DEF V, Older
  <2>4. IsFiniteSet(U) /\ Cardinality(U) \in Nat /\ Cardinality(V) \in Nat
        /\ Cardinality(Older(x)) \in Nat
    BY <1>1, <2>3, FewSessions
  <2>5. ~(Cardinality(V) + Cardinality(Older(x)) > Cardinality(U))
    BY <1>1, <2>3, <2>4, FS_MajoritiesIntersect
  <2>6. Cardinality(V) < m
    BY <2>2, <2>4, <2>5
  <2> QED BY <2>6 DEF V, Older
<1> QED BY <1>2, <1>3

LEMMA UnrevokedType ==
    ASSUME IInv, NEW c \in Clients
    PROVE  /\ Unrevoked(c) \in SUBSET Sessions /\ Kept(c) \in SUBSET Sessions
           /\ Cardinality(Unrevoked(c)) \in Nat /\ Cardinality(Kept(c)) \in Nat
<1>1. Unrevoked(c) \in SUBSET Sessions /\ Kept(c) \in SUBSET Sessions
  BY DEF Unrevoked, Kept
<1> QED BY <1>1, FewSessions

\* A step that leaves c's request alone and activates nothing.
LEMMA CapKept ==
    ASSUME IInv, NEW c \in Clients, CapOK(c), req'[c] = req[c],
           \A s \in Sessions : Active(s)' => Active(s)
    PROVE  CapOK(c)'
<1>1. Unrevoked(c)' \subseteq Unrevoked(c) /\ Kept(c)' \subseteq Kept(c)
  BY DEF Unrevoked, Kept
<1>2. /\ Unrevoked(c) \in SUBSET Sessions /\ Kept(c) \in SUBSET Sessions
      /\ Cardinality(Unrevoked(c)) \in Nat /\ Cardinality(Kept(c)) \in Nat
  BY UnrevokedType
<1>3. /\ Cardinality(Unrevoked(c)') <= Cardinality(Unrevoked(c))
      /\ Cardinality(Kept(c)') <= Cardinality(Kept(c))
      /\ Cardinality(Unrevoked(c)') \in Nat /\ Cardinality(Kept(c)') \in Nat
  BY <1>1, <1>2, FewSessions
<1>4. req[c].quota \in Nat /\ req[c].missed \in Nat /\ MaxActive \in Nat
  BY ReqType, ConstantsAreNumbers DEF ReqStates
<1> QED BY <1>2, <1>3, <1>4 DEF CapOK

\* Only COMMIT makes a session active.
LEMMA OnlyCommitActivates ==
    ASSUME IInv, [Next]_vars, \A c \in Clients : ~Commit(c)
    PROVE  \A s \in Sessions : Active(s)' => Active(s)
<1>0. row \in [Sessions -> RowStates]
  BY DEF IInv, TypeOK
<1>1. CASE UNCHANGED row
  BY <1>1 DEF Active
<1>2. ASSUME NEW c \in Clients, Timeout(c) \/ Mismatch(c) \/ Logout(c)
      PROVE  \A s \in Sessions : Active(s)' => Active(s)
  <2>1. req[c].sid \in Sessions
    BY <1>2, SidKnown DEF Timeout, Mismatch, Logout, Uses
  <2>2. ASSUME NEW reason \in Reasons, Revoke(req[c].sid, reason)
        PROVE  \A s \in Sessions : Active(s)' => Active(s)
    BY <1>0, <2>1, <2>2 DEF Revoke, Active, RowStates, Reasons
  <2>3. {"absolute_timeout", "device_mismatch", "logout"} \subseteq Reasons
    BY DEF Reasons
  <2> QED BY <1>1, <1>2, <2>2, <2>3 DEF Timeout, Mismatch, Logout
<1>3. ASSUME NEW c \in Clients, Rotate(c) PROVE \A s \in Sessions : Active(s)' => Active(s)
  <2>1. req[c].sid \in Sessions
    BY <1>3, SidKnown DEF Rotate, Uses
  <2> QED BY <1>0, <1>1, <1>3, <2>1 DEF Rotate, Active
<1>4. ASSUME NEW c \in Clients, RevokeAll(c) PROVE \A s \in Sessions : Active(s)' => Active(s)
  BY <1>0, <1>4 DEF RevokeAll, Active
<1>6. ASSUME NEW c \in Clients,
             \/ \E d \in Devices : SignIn(c, d)
             \/ \E l \in Links, d \in Devices : VerifyLink(c, l, d)
             \/ \E l \in Links : Consume(c, l) \/ LoseLink(c, l)
             \/ SnapDevice(c) \/ EvictDevice(c) \/ CountActive(c)
             \/ SnapOldest(c) \/ EvictOldest(c)
             \/ Insert(c) \/ InsertConflict(c) \/ Abort(c)
             \/ \E t \in Sessions, d \in Devices : Refresh(c, t, d)
             \/ RefreshReturn(c)
             \/ \E t \in Sessions : Validate(c, t)
             \/ Touch(c)
      PROVE  UNCHANGED row
  BY <1>6 DEF SignIn, VerifyLink, Consume, LoseLink, SnapDevice, EvictDevice, CountActive,
     SnapOldest, EvictOldest, Insert, InsertConflict, Abort, Refresh, RefreshReturn, Validate, Touch
<1>7. Expire \/ UNCHANGED vars => UNCHANGED row
  BY DEF Expire, vars
<1> QED BY <1>1, <1>2, <1>3, <1>4, <1>6, <1>7 DEF Next

\* A login that starts is not at its eviction, and none that is under way is
\* alone any more.
LEMMA StartCap ==
    ASSUME IInv, NEW c \in Clients, NEW d, StartSession(c, d), NEW e \in Clients
    PROVE  CapOK(e)'
<1>1. CASE e = c
  <2>1. req'[e].pc = "snap_device"
    BY <1>1 DEF StartSession, Idle
  <2> QED BY <2>1 DEF CapOK
<1>2. CASE e # c
  <2>1. req'[e] = [req[e] EXCEPT !.alone = @ /\ ~InLogin(e)] /\ req[e] \in ReqStates
    BY <1>2, ReqType DEF StartSession
  <2>2. req'[e].pc = req[e].pc /\ (req'[e].alone => ~InLogin(e))
    BY <2>1 DEF ReqStates
  <2> QED BY <2>2 DEF CapOK, InLogin, LoginSteps
<1> QED BY <1>1, <1>2

\* The steps of create_session from the count to the insert.
LEMMA CountCap ==
    ASSUME IInv, NEW c \in Clients, CountActive(c)
    PROVE  CapOK(c)'
<1> DEFINE U == Unrevoked(c)
           S == {s \in U : s > expired}
           X == {s \in U : s <= expired}
<1>1. /\ U \in SUBSET Sessions /\ S \in SUBSET Sessions /\ X \in SUBSET Sessions
      /\ Cardinality(U) \in Nat /\ Cardinality(S) \in Nat /\ Cardinality(X) \in Nat
  BY UnrevokedType, FewSessions
<1>2. Cardinality(U) = Cardinality(S) + Cardinality(X)
  <2>1. S \cup X = U /\ S \cap X = {}
    <3>1. \A s \in Sessions : s \in Nat
      BY SessionsNat
    <3>2. expired \in Nat
      BY DEF IInv, TypeOK
    <3> QED BY <1>1, <3>1, <3>2
  <2> HIDE DEF U, S, X
  <2>2. IsFiniteSet(S) /\ IsFiniteSet(X)
    BY <1>1, FewSessions
  <2>3. Cardinality(S \cup X) = Cardinality(S) + Cardinality(X) - Cardinality(S \cap X)
    BY <2>2, FS_Union
  <2>4. Cardinality(S \cap X) = 0
    BY <2>1, FS_EmptySet
  <2> QED BY <1>1, <2>1, <2>3, <2>4
<1>3. req \in [Clients -> ReqStates] /\ UNCHANGED row
  BY DEF CountActive, IInv, TypeOK
<1>4. /\ req'[c].pc = IF Cardinality(S) >= MaxActive THEN "snap_oldest" ELSE "insert"
      /\ req'[c].quota = IF Cardinality(S) >= MaxActive THEN (Cardinality(S) - MaxActive) + 1 ELSE 0
      /\ req'[c].missed = Cardinality(X)
      /\ req'[c].evicts = req[c].evicts
  BY <1>3 DEF CountActive, ReqStates
<1>5. Unrevoked(c)' = U /\ (req'[c].pc = "insert" => Kept(c)' = U)
  BY <1>3, <1>4 DEF Unrevoked, Active, Kept
<1> HIDE DEF U, S, X
<1> QED BY <1>1, <1>2, <1>4, <1>5, ConstantsAreNumbers DEF CapOK

LEMMA OldestCap ==
    ASSUME IInv, NEW c \in Clients, CapOK(c), SnapOldest(c)
    PROVE  CapOK(c)'
<1> DEFINE U == Unrevoked(c)
           n == req[c].quota
           m == MaxActive + req[c].missed
           found == {s \in U : Cardinality({t \in U : t < s}) < n}
<1>1. /\ req[c].pc = "snap_oldest" /\ UNCHANGED <<row, expired>>
      /\ req' = [req EXCEPT ![c].pc = "evict_oldest", ![c].rows = found]
  BY DEF SnapOldest
<1>2. U \in SUBSET Sessions /\ n \in Nat /\ m \in Nat \ {0} /\ req \in [Clients -> ReqStates]
  BY UnrevokedType, ReqType, ConstantsAreNumbers DEF ReqStates, IInv, TypeOK
<1> HIDE DEF found
<1>3. /\ req'[c].pc = "evict_oldest" /\ req'[c].rows = found
      /\ req'[c].evicts = req[c].evicts /\ req'[c].quota = n
      /\ req'[c].missed = req[c].missed
  BY <1>1, <1>2 DEF ReqStates
<1>4. req'[c].alone => req[c].alone
  BY <1>1, <1>2 DEF ReqStates
<1>5. Kept(c)' = {s \in U : ~(Cardinality({t \in U : t < s}) < n)}
  BY <1>1, <1>3 DEF Kept, Unrevoked, Active, found
<1>6. req'[c].alone => Cardinality(U) < m + n
  BY <1>1, <1>4 DEF CapOK
<1> HIDE DEF U, n, m
<1>7. req'[c].alone => Cardinality(Kept(c)') < m
  BY <1>2, <1>5, <1>6, OldestLeave
<1> QED BY <1>3, <1>7 DEF CapOK, m

LEMMA EvictCap ==
    ASSUME IInv, NEW c \in Clients, CapOK(c), EvictOldest(c) \/ Insert(c)
    PROVE  CapOK(c)'
<1>1. req[c] \in ReqStates /\ req \in [Clients -> ReqStates] /\ UNCHANGED <<row, expired>>
  BY ReqType DEF IInv, TypeOK, EvictOldest, Insert
<1>2. CASE EvictOldest(c)
  <2>1. /\ req[c].pc = "evict_oldest" /\ req'[c].pc = "insert"
        /\ req'[c].evicts = req[c].evicts \cup req[c].rows /\ req'[c].missed = req[c].missed
    BY <1>1, <1>2 DEF EvictOldest, ReqStates
  <2>2. req'[c].alone => req[c].alone
    BY <1>1, <1>2 DEF EvictOldest, ReqStates
  <2>3. Kept(c)' = Kept(c)
    BY <1>1, <2>1 DEF Kept, Unrevoked, Active
  <2> QED BY <1>1, <2>1, <2>2, <2>3 DEF CapOK
<1>3. CASE Insert(c)
  <2>1. /\ req[c].pc = "insert" /\ req'[c].pc = "commit"
        /\ req'[c].evicts = req[c].evicts /\ req'[c].missed = req[c].missed
    BY <1>1, <1>3 DEF Insert, Step, ReqStates
  <2>2. req'[c].alone => req[c].alone
    BY <1>1, <1>3 DEF Insert, Step, ReqStates
  <2>3. Kept(c)' = Kept(c)
    BY <1>1, <2>1 DEF Kept, Unrevoked, Active
  <2> QED BY <1>1, <2>1, <2>2, <2>3 DEF CapOK
<1> QED BY <1>2, <1>3

\* Every other step of c leaves the logins of others alone and c itself away
\* from the eviction.
LEMMA OtherCap ==
    ASSUME IInv, NEW c \in Clients,
           \/ \E l \in Links, d \in Devices : VerifyLink(c, l, d)
           \/ \E l \in Links : LoseLink(c, l)
           \/ SnapDevice(c) \/ EvictDevice(c)
           \/ InsertConflict(c) \/ Commit(c) \/ Abort(c)
           \/ \E s \in Sessions, d \in Devices : Refresh(c, s, d)
           \/ Timeout(c) \/ Mismatch(c) \/ Rotate(c) \/ RefreshReturn(c)
           \/ \E s \in Sessions : Validate(c, s)
           \/ Touch(c) \/ Logout(c) \/ RevokeAll(c)
    PROVE  CapOK(c)'
<1>1. req[c] \in ReqStates /\ req \in [Clients -> ReqStates]
  BY ReqType DEF IInv, TypeOK
<1>2. req'[c].pc \notin {"snap_oldest", "evict_oldest", "insert", "commit"}
  <2>1. CASE SnapDevice(c) \/ EvictDevice(c) \/ Rotate(c)
    BY <1>1, <2>1 DEF SnapDevice, EvictDevice, Rotate, Step, ReqStates
  <2>2. CASE \/ \E l \in Links, d \in Devices : VerifyLink(c, l, d)
             \/ \E s \in Sessions, d \in Devices : Refresh(c, s, d)
             \/ \E s \in Sessions : Validate(c, s)
    <3>2. ASSUME NEW l \in Links, NEW d \in Devices, VerifyLink(c, l, d) PROVE req'[c].pc = "consume"
      <4> DEFINE st == [Idle EXCEPT !.pc = "consume", !.dev = d, !.rows = {l}]
      <4>1. req' = [req EXCEPT ![c] = st]
        BY <3>2 DEF VerifyLink
      <4>2. st.pc = "consume"
        BY DEF Idle
      <4> HIDE DEF st
      <4> QED BY <1>1, <4>1, <4>2
    <3>3. ASSUME NEW s \in Sessions, NEW d \in Devices, Refresh(c, s, d) PROVE req'[c].pc \in Uses
      <4>1. PICK p : p = IF s <= expired THEN "timeout" ELSE IF row[s].dev # d THEN "mismatch" ELSE "rotate"
        OBVIOUS
      <4>2. p \in Uses
        BY <4>1 DEF Uses
      <4> DEFINE st == [Idle EXCEPT !.sid = s, !.pc = p]
      <4>3. req' = [req EXCEPT ![c] = st]
        BY <3>3, <4>1 DEF Refresh
      <4>4. st.pc = p
        BY DEF Idle
      <4> HIDE DEF st
      <4> QED BY <1>1, <4>2, <4>3, <4>4
    <3>4. ASSUME NEW s \in Sessions, Validate(c, s) PROVE req'[c].pc \in Uses
      <4>1. PICK p : p = IF s <= expired THEN "timeout" ELSE "touch"
        OBVIOUS
      <4>2. p \in Uses
        BY <4>1 DEF Uses
      <4> DEFINE st == [Idle EXCEPT !.sid = s, !.pc = p]
      <4>3. req' = [req EXCEPT ![c] = st]
        BY <3>4, <4>1 DEF Validate
      <4>4. st.pc = p
        BY DEF Idle
      <4> HIDE DEF st
      <4> QED BY <1>1, <4>2, <4>3, <4>4
    <3> QED BY <2>2, <3>2, <3>3, <3>4 DEF Uses
  <2>3. CASE Finish(c)
    BY <1>1, <2>3 DEF Finish, Idle
  <2>4. CASE Touch(c)
    BY <1>1, <2>3, <2>4 DEF Touch, Step, ReqStates
  <2>5. CASE RevokeAll(c)
    BY <2>5 DEF RevokeAll
  <2>6. (\E l \in Links : LoseLink(c, l)) \/ InsertConflict(c) \/ Commit(c) \/ Abort(c) \/ Timeout(c)
          \/ Mismatch(c) \/ RefreshReturn(c) \/ Logout(c)
        => Finish(c)
    BY DEF LoseLink, InsertConflict, Commit, Abort, Timeout, Mismatch, RefreshReturn, Logout
  <2> QED BY <2>1, <2>2, <2>3, <2>4, <2>5, <2>6
<1> QED BY <1>2 DEF CapOK

\* A step of a client is a step of its own request, except that a login that
\* starts is noticed by the others.
LEMMA OthersUntouched ==
    ASSUME IInv, NEW c \in Clients, NEW e \in Clients, e # c,
           \/ \E l \in Links, d \in Devices : VerifyLink(c, l, d)
           \/ \E l \in Links : LoseLink(c, l)
           \/ SnapDevice(c) \/ EvictDevice(c) \/ CountActive(c)
           \/ SnapOldest(c) \/ EvictOldest(c)
           \/ Insert(c) \/ InsertConflict(c) \/ Commit(c) \/ Abort(c)
           \/ \E s \in Sessions, d \in Devices : Refresh(c, s, d)
           \/ Timeout(c) \/ Mismatch(c) \/ Rotate(c) \/ RefreshReturn(c)
           \/ \E s \in Sessions : Validate(c, s)
           \/ Touch(c) \/ Logout(c) \/ RevokeAll(c)
    PROVE  req'[e] = req[e] /\ UNCHANGED expired
<1>1. req \in [Clients -> ReqStates]
  BY DEF IInv, TypeOK
<1>2. CASE SnapDevice(c) \/ EvictDevice(c) \/ CountActive(c) \/ SnapOldest(c) \/ EvictOldest(c)
  BY <1>1, <1>2 DEF SnapDevice, EvictDevice, CountActive, SnapOldest, EvictOldest, Step
<1>3. CASE \/ \E l \in Links, d \in Devices : VerifyLink(c, l, d)
           \/ \E s \in Sessions, d \in Devices : Refresh(c, s, d)
           \/ \E s \in Sessions : Validate(c, s)
  BY <1>1, <1>3 DEF VerifyLink, Refresh, Validate
<1>4. CASE Insert(c) \/ Rotate(c) \/ Touch(c) \/ RevokeAll(c)
  BY <1>1, <1>4 DEF Insert, Rotate, Touch, RevokeAll, Step, Finish
<1>5. CASE (\E l \in Links : LoseLink(c, l)) \/ InsertConflict(c) \/ Commit(c) \/ Abort(c)
             \/ Timeout(c) \/ Mismatch(c) \/ RefreshReturn(c) \/ Logout(c)
  BY <1>1, <1>5
     DEF LoseLink, InsertConflict, Commit, Abort, Timeout, Mismatch, RefreshReturn, Logout, Finish
<1> QED BY <1>2, <1>3, <1>4, <1>5

LEMMA NextCap == IInv /\ CapInv /\ [Next]_vars => CapInv'
<1> SUFFICES ASSUME IInv, CapInv, [Next]_vars, NEW e \in Clients PROVE CapOK(e)'
  BY DEF CapInv
<1>0. CapOK(e)
  BY DEF CapInv
<1>1. CASE UNCHANGED <<row, req>>
  BY <1>0, <1>1, CapKept DEF Active
<1>2. ASSUME NEW c \in Clients, Commit(c) PROVE CapOK(e)'
  <2>1. CASE e = c
    BY <1>2, <2>1, OtherCap
  <2>2. CASE e # c
    <3>1. req'[e] = req[e] /\ UNCHANGED expired
      BY <1>2, <2>2, OthersUntouched
    <3>2. InLogin(c)
      BY <1>2 DEF Commit, InLogin, LoginSteps
    <3>3. ~(InLogin(e) /\ req[e].alone)
      BY <2>2, <3>2 DEF IInv, AloneOK
    <3> QED BY <3>1, <3>3 DEF CapOK, InLogin, LoginSteps
  <2> QED BY <2>1, <2>2
<1>3. ASSUME NEW c \in Clients, NEW d, StartSession(c, d) PROVE CapOK(e)'
  BY <1>3, StartCap
<1>4. ASSUME NEW c \in Clients,
             \/ \E l \in Links, d \in Devices : VerifyLink(c, l, d)
             \/ \E l \in Links : LoseLink(c, l)
             \/ SnapDevice(c) \/ EvictDevice(c) \/ CountActive(c)
             \/ SnapOldest(c) \/ EvictOldest(c)
             \/ Insert(c) \/ InsertConflict(c) \/ Abort(c)
             \/ \E s \in Sessions, d \in Devices : Refresh(c, s, d)
             \/ Timeout(c) \/ Mismatch(c) \/ Rotate(c) \/ RefreshReturn(c)
             \/ \E s \in Sessions : Validate(c, s)
             \/ Touch(c) \/ Logout(c) \/ RevokeAll(c)
      PROVE  CapOK(e)'
  <2>1. CASE e = c
    BY <1>0, <1>4, <2>1, CountCap, OldestCap, EvictCap, OtherCap
  <2>2. CASE e # c
    <3>1. CASE \E b \in Clients : Commit(b)
      BY <1>2, <3>1
    <3>2. CASE ~ \E b \in Clients : Commit(b)
      <4>1. \A s \in Sessions : Active(s)' => Active(s)
        BY <3>2, OnlyCommitActivates
      <4>2. req'[e] = req[e] /\ UNCHANGED expired
        BY <1>4, <2>2, OthersUntouched
      <4> QED BY <1>0, <4>1, <4>2, CapKept
    <3> QED BY <3>1, <3>2
  <2> QED BY <2>1, <2>2
<1>5. ASSUME NEW c \in Clients,
             (\E d \in Devices : SignIn(c, d)) \/ \E l \in Links : Consume(c, l)
      PROVE  CapOK(e)'
  BY <1>3, <1>5 DEF SignIn, Consume
<1>6. CASE Expire
  BY <1>1, <1>6 DEF Expire
<1>7. CASE UNCHANGED vars
  BY <1>1, <1>7 DEF vars
<1> QED BY <1>2, <1>4, <1>5, <1>6, <1>7 DEF Next

LEMMA CapAlways == Spec => [](IInv /\ CapInv)
<1>1. Init => CapInv
  <2> SUFFICES ASSUME Init, NEW c \in Clients PROVE CapOK(c)
    BY DEF CapInv
  <2>1. req[c].pc = "idle"
    BY IdleType DEF Init
  <2> QED BY <2>1 DEF CapOK
<1> QED BY <1>1, InitIInv, NextIInv, NextCap, PTL DEF Spec

\* The session that a step makes active is the one its COMMIT inserts.
LEMMA CommitRestoresCap ==
    ASSUME IInv, CapInv, [Next]_vars, NEW c \in Clients, req[c].pc = "commit", req[c].alone,
           row'[req[c].sid].status = "active"
    PROVE  Cardinality({s \in Sessions : row'[s].status = "active"}) <= MaxActive + req[c].missed
<1>1. req[c].sid \in Sessions /\ ~Active(req[c].sid) /\ InLogin(c)
  <2>1. InLogin(c)
    BY DEF InLogin, LoginSteps
  <2> QED BY <2>1, ConstantsAreNumbers DEF IInv, TypeOK, ReqOK, Sessions, Known, Active
<1>2. PICK b \in Clients : Commit(b)
  BY <1>1, OnlyCommitActivates DEF Active
<1>3. b = c
  <2>1. InLogin(b)
    BY <1>2 DEF Commit, InLogin, LoginSteps
  <2> QED BY <1>1, <2>1 DEF IInv, AloneOK
<1>4. {s \in Sessions : row'[s].status = "active"} \subseteq Unrevoked(c) \cup {req[c].sid}
  <2>1. \A s \in Sessions \ {req[c].sid} :
           row'[s].status = IF s \in req[c].evicts THEN "overflow" ELSE row[s].status
    BY <1>2, <1>3, CommitRows
  <2> QED BY <2>1 DEF Unrevoked, Active
<1> DEFINE A == {s \in Sessions : row'[s].status = "active"}
           U == Unrevoked(c)
           W == U \cup {req[c].sid}
<1>5. A \subseteq W /\ U \in SUBSET Sessions /\ W \in SUBSET Sessions
  BY <1>1, <1>4, UnrevokedType
<1>6. Cardinality(U) < MaxActive + req[c].missed
  BY DEF CapInv, CapOK, Kept
<1> HIDE DEF A, U
<1>7. Cardinality(W) <= Cardinality(U) + 1 /\ Cardinality(U) \in Nat
  BY <1>5, FewSessions, FS_AddElement
<1> HIDE DEF W
<1>8. Cardinality(A) <= Cardinality(W) /\ Cardinality(A) \in Nat /\ Cardinality(W) \in Nat
  BY <1>5, FewSessions
<1>9. Cardinality(A) <= MaxActive + req[c].missed
  <2>1. req[c].missed \in Nat
    BY ReqType DEF ReqStates
  <2> QED BY <1>6, <1>7, <1>8, <2>1, ConstantsAreNumbers
<1> QED BY <1>9 DEF A

-----------------------------------------------------------------------------

\* Every reachable state of the sessions table, the calls under way and the
\* magic links is well typed.
THEOREM TypeCorrect == Spec => []TypeOK
<1>1. IInv => TypeOK
  BY DEF IInv
<1> QED BY <1>1, Inductive, PTL

\* create_session's eviction and the unique index leave a device at most one
\* unrevoked session, however many logins race.
THEOREM DeviceHasOneSession == Spec => []OneSessionPerDevice
<1>1. IInv => OneSessionPerDevice
  BY DEF IInv
<1> QED BY <1>1, Inductive, PTL

\* The INSERT of create_session meets the unique index only in a race.
THEOREM ConflictsNeedARace == Spec => []ConflictNeedsRace
<1>1. ASSUME IInv PROVE ConflictNeedsRace
  <2> SUFFICES ASSUME NEW c \in Clients, req[c].pc = "insert", req[c].alone
               PROVE  ~IndexTaken(c)
    BY DEF ConflictNeedsRace
  <2>1. NoneOfDevice(c)
    BY <1>1 DEF IInv, AloneOK, InLogin, LoginSteps
  <2> QED BY <2>1 DEF NoneOfDevice, IndexTaken
<1> QED BY <1>1, Inductive, PTL

\* MagicLinkProvider::verify lets one login through per link.
THEOREM LinkSignsInOnce == Spec => []LinksAreSingleUse
<1>1. IInv => LinksAreSingleUse
  BY DEF IInv, TypeOK, LinksOK, LinksAreSingleUse
<1> QED BY <1>1, Inductive, PTL

\* No call of SessionManager revives a revoked session or rotates its token.
THEOREM RevocationIsFinal == Spec => RevokedForGood
<1>1. IInv /\ [Next]_vars =>
        [\A s \in Sessions :
           row[s].status \in Reasons =>
              /\ row'[s].status \in Reasons
              /\ row'[s].gen = row[s].gen]_vars
  BY NoRevival DEF StaysGone, Gone
<1> QED BY <1>1, Inductive, PTL DEF Spec, RevokedForGood

\* create_session enforces MAX_ACTIVE_SESSIONS_PER_USER whenever no other login
\* overlaps it, but for the sessions that had expired unrevoked when it counted,
\* however far earlier races went past the limit.
THEOREM LoginRestoresTheCap == Spec => CapRestored
<1>1. IInv /\ CapInv /\ [Next]_vars =>
        [\A c \in Clients :
           /\ req[c].pc = "commit" /\ req[c].alone
           /\ row'[req[c].sid].status = "active"
           => Cardinality({s \in Sessions : row'[s].status = "active"})
                <= MaxActive + req[c].missed]_vars
  BY CommitRestoresCap
<1> QED BY <1>1, CapAlways, PTL DEF Spec, CapRestored

=============================================================================
