--------------------------- MODULE MutationsProofs ---------------------------
(***************************************************************************)
(* For any entities, attributes and clients.  Of every mix of write paths:  *)
(* the types; that a retraction stamp is later than the tx_id of the row it *)
(* retracts; that nothing is erased and only committed transactions are     *)
(* announced; and that point-in-time reads at a settled tx are repeatable.  *)
(* Of the REST handlers alone (POST /api/mutate, POST, PATCH and DELETE     *)
(* /api/data): an attribute of an entity has at most one live value, and,   *)
(* without deadlines, the handlers implement the abstract store.            *)
(***************************************************************************)
EXTENDS MutationsRefinement, WellFoundedInduction, TLAPS

\* A client that is not idle serves a request and is at one of its operations;
\* an idle one has no locals.
Busy ==
    \A c \in Clients :
        IF pc[c] # "idle"
        THEN req[c] \in Requests /\ pos[c] \in 1 .. Len(req[c].ops)
        ELSE pos[c] = 1 /\ tx[c] = 0 /\ ~creating[c] /\ buf[c] = {}

\* Outside a transaction a client has neither rows nor locks.
Closed ==
    \A c \in Clients :
        pc[c] \in {"idle", "ttl", "root"} => add[c] = {} /\ del[c] = {} /\ locks[c] = {}

\* A row as the statements leave it: asserted under a tx_id that has been
\* drawn, retracted, if at all, under a later stamp.
Sound(rows) == \A r \in rows : r.tx <= seq /\ (r.rtx # 0 => r.rtx > r.tx)

AllSound == Sound(triples) /\ Sound(sweep.add) /\ \A c \in Clients : Sound(add[c])

\* The tx_id is drawn before the insert that uses it.
TxDrawn ==
    \A c \in Clients :
        /\ tx[c] <= seq
        /\ pc[c] = "insert" \/ (req[c].kind \in {"mutate", "ws"} /\ pc[c] \in {"auth", "retract"})
            => tx[c] # 0

IInv == TypeOK /\ Busy /\ Closed /\ AllSound /\ TxDrawn

-----------------------------------------------------------------------------

\* A request has at least one operation, and its parts have their types.
LEMMA RequestShape ==
    ASSUME NEW r \in Requests
    PROVE  /\ r.kind \in AllKinds
           /\ r.ttl \in BOOLEAN
           /\ Len(r.ops) \in Nat \ {0}
           /\ \A i \in 1 .. Len(r.ops) : r.ops[i] \in Op
<1>1. PICK n \in 1 .. MaxOps : r.ops \in [1 .. n -> Op]
  BY DEF Requests
<1>2. n \in Nat \ {0}
  BY BoundsAssumption
<1>3. r.ops \in Seq(Op) /\ Len(r.ops) = n
  BY <1>1, <1>2
<1> QED BY <1>1, <1>2, <1>3, KindsAssumption DEF Requests

LEMMA CurrentOpType ==
    ASSUME NEW c \in Clients, Busy, pc[c] # "idle"
    PROVE  CurrentOp(c) \in Op /\ req[c].kind \in AllKinds /\ req[c].ttl \in BOOLEAN
BY RequestShape DEF Busy, CurrentOp

\* The trigger's stamp keeps a row typed and sound.
LEMMA StampedRow ==
    ASSUME TypeOK, NEW r \in Row, r.tx <= seq
    PROVE  /\ Stamp(r, seq + 1) \in Row
           /\ Stamp(r, seq + 1).tx = r.tx /\ Stamp(r, seq + 1).rtx = seq + 1
           /\ seq + 1 \in Nat /\ seq + 1 > r.tx /\ seq + 1 > seq /\ r.tx <= seq + 1
BY DEF TypeOK, Row, Stamp

LEMMA InputsType ==
    ASSUME NEW o \in Op, NEW b \in BOOLEAN, NEW n \in Nat
    PROVE  InputsOf(o, b, n) \in SUBSET (Entities \X AllAttrs \X Nat)
<1> DEFINE A == IF o.op = "delete" THEN {}
                ELSE IF o.op = "insert" \/ (o.op = "upsert" /\ b) THEN o.attrs \cup {TypeAttr}
                ELSE o.attrs
<1>1. A \subseteq AllAttrs
  BY DEF Op, AllAttrs
<1> QED BY <1>1 DEF InputsOf, Op

LEMMA InsertedRows ==
    ASSUME NEW inputs \in SUBSET (Entities \X AllAttrs \X Nat),
           NEW t \in Nat \ {0}, NEW b \in BOOLEAN
    PROVE  /\ Inserted(inputs, t, b) \subseteq Row
           /\ \A r \in Inserted(inputs, t, b) : r.tx = t /\ r.rtx = 0
BY DEF Inserted, Row

\* What a statement sees is typed and sound, and so is what it retracts.
LEMMA SeenRows ==
    ASSUME IInv, NEW c \in Clients, pc[c] # "idle"
    PROVE  LET old == ToRetract(c, CurrentOp(c)) IN
           /\ old \in SUBSET Row /\ Sound(old) /\ old \subseteq View(c)
           /\ \A r \in old : r.rtx = 0 /\ r.ent = CurrentOp(c).ent
           /\ View(c) \in SUBSET Row /\ Sound(View(c))
<1>1. View(c) \in SUBSET Row
  BY DEF IInv, TypeOK, View
<1>3. Sound(View(c))
  BY DEF IInv, AllSound, Sound, View
<1>4. ToRetract(c, CurrentOp(c)) \subseteq get_entity(View(c), CurrentOp(c).ent)
  BY DEF ToRetract
<1>5. get_entity(View(c), CurrentOp(c).ent) \subseteq View(c)
  BY DEF get_entity, Live
<1>6. Sound(ToRetract(c, CurrentOp(c)))
  BY <1>3, <1>4, <1>5 DEF Sound
<1>7. \A r \in ToRetract(c, CurrentOp(c)) : r.rtx = 0 /\ r.ent = CurrentOp(c).ent
  BY <1>4 DEF get_entity, Live
<1> QED BY <1>1, <1>3, <1>4, <1>5, <1>6, <1>7

LEMMA BeginStep ==
    ASSUME IInv, NEW c \in Clients, Begin(c)
    PROVE  IInv'
<1>1. PICK r \in Requests :
        /\ Admissible(r)
        /\ req' = [req EXCEPT ![c] = r]
        /\ Goto(c, IF r.kind \in {"mutate", "ws"} THEN "tx"
                   ELSE IF r.kind = "rewrite" THEN "retract" ELSE "auth")
  BY DEF Begin
<1>2. TypeOK'
  BY <1>1, BoundsAssumption DEF IInv, TypeOK, Begin, Goto, PCs
<1>3. Busy' /\ Closed'
  BY <1>1, RequestShape DEF IInv, TypeOK, Busy, Closed, Begin, Goto
<1>4. AllSound'
  BY DEF IInv, AllSound, Sound, Begin
<1>5. TxDrawn'
  BY <1>1, RequestShape DEF IInv, TypeOK, TxDrawn, Begin, Goto, AllKinds
<1> QED BY <1>2, <1>3, <1>4, <1>5 DEF IInv

LEMMA NextTxIdStep ==
    ASSUME IInv, NEW c \in Clients, NextTxId(c)
    PROVE  IInv'
<1>1. req[c].kind \in AllKinds
  BY CurrentOpType DEF IInv, NextTxId
<1>2. TypeOK'
  BY <1>1 DEF IInv, TypeOK, NextTxId, Goto, PCs, AllKinds, Route
<1>3. Busy' /\ Closed'
  BY <1>1 DEF IInv, TypeOK, Busy, Closed, NextTxId, Goto, AllKinds, Route
<1>4. AllSound'
  BY DEF IInv, TypeOK, AllSound, Sound, NextTxId, Row
<1>5. TxDrawn'
  BY <1>1 DEF IInv, TypeOK, TxDrawn, NextTxId, Goto, AllKinds, Route
<1> QED BY <1>2, <1>3, <1>4, <1>5 DEF IInv

LEMMA AuthorizeStep ==
    ASSUME IInv, NEW c \in Clients, Authorize(c)
    PROVE  IInv'
<1>1. req[c].kind \in AllKinds /\ CurrentOp(c).ent \in Entities
  BY CurrentOpType DEF IInv, Authorize, Op
<1>2. TypeOK'
  BY <1>1 DEF IInv, TypeOK, Authorize, Goto, PCs, AllKinds, Route
<1>3. Busy' /\ Closed'
  BY <1>1 DEF IInv, TypeOK, Busy, Closed, Authorize, Goto, AllKinds, Route
<1>4. AllSound'
  BY DEF IInv, AllSound, Sound, Authorize
<1>5. TxDrawn'
  BY <1>1 DEF IInv, TypeOK, TxDrawn, Authorize, Goto, AllKinds, Route
<1> QED BY <1>2, <1>3, <1>4, <1>5 DEF IInv

\* Where a client goes once it has retracted.
LEMMA AfterRetractShape ==
    ASSUME IInv, NEW c \in Clients, pc[c] = "retract", AfterRetract(c)
    PROVE  \E label \in {"auth", "tx", "insert", "commit"}, n \in Nat :
             /\ pc' = [pc EXCEPT ![c] = label]
             /\ pos' = [pos EXCEPT ![c] = n]
             /\ n \in 1 .. Len(req[c].ops)
             /\ label = "auth" => req[c].kind = "ws"
             /\ label = "insert" => req[c].kind \in {"mutate", "ws"}
<1>1. pos[c] \in 1 .. Len(req[c].ops) /\ Len(req[c].ops) \in Nat
  BY RequestShape DEF IInv, Busy
<1>2. UNCHANGED pos => pos' = [pos EXCEPT ![c] = pos[c]]
  BY DEF IInv, TypeOK
<1>3. pos[c] + 1 \in Nat /\ (~LastOp(c) => pos[c] + 1 \in 1 .. Len(req[c].ops))
  BY <1>1 DEF LastOp
<1> QED BY <1>1, <1>2, <1>3 DEF AfterRetract, Goto

LEMMA RetractRowStep ==
    ASSUME IInv, NEW c \in Clients, RetractRow(c)
    PROVE  IInv'
<1>1. PICK r \in ToRetract(c, CurrentOp(c)) :
        /\ add' = [add EXCEPT ![c] = (@ \ {r}) \cup {Stamp(r, seq + 1)}]
        /\ del' = [del EXCEPT ![c] = @ \cup ({r} \cap triples)]
  BY DEF RetractRow
<1>2. /\ pc[c] = "retract" /\ seq' = seq + 1
      /\ UNCHANGED <<triples, req, pc, pos, tx, creating, buf, locks,
                     notified, roots, served, sweep>>
  BY DEF RetractRow
<1>3. r \in Row /\ r.tx <= seq
  BY <1>1, <1>2, SeenRows DEF Sound
<1> DEFINE s == Stamp(r, seq + 1)
<1>4. /\ s \in Row /\ s.tx = r.tx /\ s.rtx = seq + 1
      /\ seq + 1 \in Nat /\ seq + 1 > r.tx /\ seq + 1 > seq /\ r.tx <= seq + 1
  BY <1>3, StampedRow DEF IInv
<1> HIDE DEF s
<1>5. TypeOK'
  BY <1>1, <1>2, <1>3, <1>4 DEF IInv, TypeOK, s
<1>6. Busy' /\ Closed'
  BY <1>1, <1>2 DEF IInv, TypeOK, Busy, Closed
<1>7. AllSound'
  <2>1. ASSUME NEW rows \in SUBSET Row, Sound(rows)
        PROVE  \A q \in rows : q.tx <= seq' /\ (q.rtx # 0 => q.rtx > q.tx)
    BY <1>2, <1>4, <2>1 DEF Sound, IInv, TypeOK, Row
  <2>2. Sound(triples)' /\ Sound(sweep.add)'
    BY <1>2, <2>1 DEF Sound, IInv, TypeOK, AllSound
  <2>3. ASSUME NEW d \in Clients PROVE Sound(add[d])'
    <3>1. \A q \in add[d] : q.tx <= seq' /\ (q.rtx # 0 => q.rtx > q.tx)
      BY <2>1 DEF IInv, TypeOK, AllSound
    <3>2. s.tx <= seq' /\ s.rtx > s.tx
      BY <1>2, <1>3, <1>4 DEF Row
    <3>3. \A q \in add'[d] : q \in add[d] \/ q = s
      BY <1>1 DEF IInv, TypeOK, s
    <3> QED BY <3>1, <3>2, <3>3 DEF Sound
  <2> QED BY <2>2, <2>3 DEF AllSound
<1>8. TxDrawn'
  BY <1>2, <1>4 DEF IInv, TypeOK, TxDrawn
<1> QED BY <1>5, <1>6, <1>7, <1>8 DEF IInv

LEMMA RetractEndsStep ==
    ASSUME IInv, NEW c \in Clients, RetractEnds(c)
    PROVE  IInv'
<1> DEFINE o == CurrentOp(c)
<1>1. pc[c] = "retract" /\ o \in Op
  BY CurrentOpType DEF IInv, RetractEnds
<1>3. PICK label \in {"auth", "tx", "insert", "commit"}, n \in Nat :
             /\ pc' = [pc EXCEPT ![c] = label]
             /\ pos' = [pos EXCEPT ![c] = n]
             /\ n \in 1 .. Len(req[c].ops)
             /\ label = "auth" => req[c].kind = "ws"
             /\ label = "insert" => req[c].kind \in {"mutate", "ws"}
  BY <1>1, AfterRetractShape DEF RetractEnds
<1>4. /\ buf' = [buf EXCEPT ![c] = @ \cup InputsOf(o, creating[c], pos[c])]
      /\ UNCHANGED <<triples, seq, req, tx, creating, del, add, locks,
                     notified, roots, served, sweep>>
  BY DEF RetractEnds
<1>6. InputsOf(o, creating[c], pos[c]) \in SUBSET (Entities \X AllAttrs \X Nat)
  BY <1>1, InputsType DEF IInv, TypeOK
<1> HIDE DEF o
<1>8. TypeOK'
  BY <1>3, <1>4, <1>6 DEF IInv, TypeOK, PCs
<1>9. Busy' /\ Closed'
  BY <1>1, <1>3, <1>4 DEF IInv, TypeOK, Busy, Closed
<1>11. AllSound'
  BY <1>4 DEF IInv, AllSound, Sound
<1>12. TxDrawn'
  BY <1>1, <1>3, <1>4 DEF IInv, TypeOK, TxDrawn
<1> QED BY <1>8, <1>9, <1>11, <1>12 DEF IInv

LEMMA RetractCommitsStep ==
    ASSUME IInv, NEW c \in Clients, RetractCommits(c)
    PROVE  IInv'
<1> DEFINE o == CurrentOp(c)
<1>1. pc[c] = "retract" /\ o \in Op /\ req[c].kind = "rewrite"
  BY CurrentOpType DEF IInv, RetractCommits
<1>2. /\ triples' = View(c)
      /\ del' = [del EXCEPT ![c] = {}]
      /\ add' = [add EXCEPT ![c] = {}]
      /\ locks' = [locks EXCEPT ![c] = {}]
      /\ pc' = [pc EXCEPT ![c] = "tx"]
      /\ buf' = [buf EXCEPT ![c] = InputsOf(o, FALSE, pos[c])]
      /\ UNCHANGED <<seq, req, pos, tx, creating, notified, roots, served, sweep>>
  BY DEF RetractCommits, EndTransaction, Goto
<1>3. View(c) \in SUBSET Row /\ Sound(View(c))
  BY <1>1, SeenRows
<1>4. InputsOf(o, FALSE, pos[c]) \in SUBSET (Entities \X AllAttrs \X Nat)
  BY <1>1, InputsType DEF IInv, TypeOK
<1> HIDE DEF o
<1>5. TypeOK'
  BY <1>2, <1>3, <1>4 DEF IInv, TypeOK, PCs
<1>6. Busy' /\ Closed'
  BY <1>1, <1>2 DEF IInv, TypeOK, Busy, Closed
<1>7. AllSound'
  BY <1>2, <1>3 DEF IInv, TypeOK, AllSound, Sound
<1>8. TxDrawn'
  BY <1>1, <1>2 DEF IInv, TypeOK, TxDrawn
<1> QED BY <1>5, <1>6, <1>7, <1>8 DEF IInv

LEMMA InsertStep ==
    ASSUME IInv, NEW c \in Clients, Insert(c)
    PROVE  IInv'
<1> DEFINE inputs == InsertInputs(c)
           ttl == req[c].kind = "create" /\ req[c].ttl
           rows == Inserted(inputs, tx[c], ttl)
<1>1. /\ pc[c] = "insert"
      /\ add' = [add EXCEPT ![c] = @ \cup rows]
      /\ buf' = [buf EXCEPT ![c] = {}]
      /\ UNCHANGED <<triples, seq, req, tx, creating, del, locks, notified, roots, served, sweep>>
  BY DEF Insert
<1>2. PICK label \in {"auth", "commit"}, n \in 1 .. Len(req[c].ops) :
        /\ pc' = [pc EXCEPT ![c] = label]
        /\ pos' = [pos EXCEPT ![c] = n]
        /\ label = "auth" => req[c].kind = "mutate"
  <2>1. pos[c] \in 1 .. Len(req[c].ops) /\ Len(req[c].ops) \in Nat
    BY <1>1, RequestShape DEF IInv, Busy
  <2>2. UNCHANGED pos => pos' = [pos EXCEPT ![c] = pos[c]]
    BY DEF IInv, TypeOK
  <2>3. ~LastOp(c) => pos[c] + 1 \in 1 .. Len(req[c].ops)
    BY <2>1 DEF LastOp
  <2> QED BY <2>1, <2>2, <2>3 DEF Insert, Goto
<1>3. inputs \in SUBSET (Entities \X AllAttrs \X Nat)
  <2>1. InputsOf(CurrentOp(c), TRUE, 1) \in SUBSET (Entities \X AllAttrs \X Nat)
    BY <1>1, CurrentOpType, InputsType DEF IInv
  <2>2. buf[c] \in SUBSET (Entities \X AllAttrs \X Nat)
    BY DEF IInv, TypeOK
  <2> QED BY <2>1, <2>2 DEF InsertInputs
<1>4. tx[c] \in Nat \ {0} /\ tx[c] <= seq
  BY <1>1 DEF IInv, TypeOK, TxDrawn
<1>5. ttl \in BOOLEAN
  OBVIOUS
<1> HIDE DEF inputs, ttl
<1>6. /\ rows \subseteq Row
      /\ \A r \in rows : r.tx = tx[c] /\ r.rtx = 0
  BY <1>3, <1>4, <1>5, InsertedRows
<1> HIDE DEF rows
<1>7. n \in Nat
  OBVIOUS
<1>8. TypeOK'
  BY <1>1, <1>2, <1>6, <1>7 DEF IInv, TypeOK, PCs
<1>9. Busy' /\ Closed'
  BY <1>1, <1>2 DEF IInv, TypeOK, Busy, Closed
<1>11. AllSound'
  BY <1>1, <1>4, <1>6 DEF IInv, TypeOK, AllSound, Sound
<1>12. TxDrawn'
  BY <1>1, <1>2, <1>4 DEF IInv, TypeOK, TxDrawn
<1> QED BY <1>8, <1>9, <1>11, <1>12 DEF IInv

\* A client that returns leaves its own part of the invariant in order.
LEMMA ReturnTypes ==
    ASSUME IInv, NEW c \in Clients, Return(c)
    PROVE  /\ req' \in [Clients -> Requests \cup {NoReq}]
           /\ pc' = [pc EXCEPT ![c] = "idle"] /\ pc' \in [Clients -> PCs]
           /\ pos' \in [Clients -> Nat] /\ tx' \in [Clients -> Nat]
           /\ creating' \in [Clients -> BOOLEAN]
           /\ buf' \in [Clients -> SUBSET (Entities \X AllAttrs \X Nat)]
BY DEF Return, Goto, IInv, TypeOK, PCs

LEMMA CommitStep ==
    ASSUME IInv, NEW c \in Clients, Commit(c)
    PROVE  IInv'
<1>1. /\ pc[c] = "commit"
      /\ triples' = View(c)
      /\ del' = [del EXCEPT ![c] = {}]
      /\ add' = [add EXCEPT ![c] = {}]
      /\ locks' = [locks EXCEPT ![c] = {}]
      /\ notified' = notified \cup (IF req[c].kind = "rewrite" THEN {tx[c]} ELSE {})
      /\ UNCHANGED <<seq, roots, served, sweep>>
  BY DEF Commit, EndTransaction
<1>2. View(c) \in SUBSET Row /\ Sound(View(c))
  BY <1>1, SeenRows
<1>3. /\ del' \in [Clients -> SUBSET Row]
      /\ add' \in [Clients -> SUBSET Row]
      /\ locks' \in [Clients -> SUBSET Entities]
      /\ notified' \subseteq Nat
  BY <1>1 DEF IInv, TypeOK
<1>4. AllSound'
  BY <1>1, <1>2 DEF IInv, TypeOK, AllSound, Sound
<1>5. CASE ~Return(c)
  <2>1. PICK label \in {"root", "ttl"} :
          pc' = [pc EXCEPT ![c] = label] /\ UNCHANGED <<req, pos, tx, creating, buf>>
    BY <1>5 DEF Commit, AfterCommit, Goto
  <2>2. TypeOK'
    BY <1>1, <1>2, <1>3, <2>1 DEF IInv, TypeOK, PCs
  <2>3. Busy' /\ Closed'
    BY <1>1, <2>1 DEF IInv, TypeOK, Busy, Closed
  <2>5. TxDrawn'
    BY <1>1, <2>1 DEF IInv, TypeOK, TxDrawn
  <2> QED BY <1>4, <2>2, <2>3, <2>5 DEF IInv
<1>6. CASE Return(c)
  <2>2. TypeOK'
    BY <1>1, <1>2, <1>3, <1>6, ReturnTypes DEF IInv, TypeOK
  <2>3. Busy' /\ Closed'
    BY <1>1, <1>6 DEF IInv, TypeOK, Busy, Closed, Return, Goto
  <2>5. TxDrawn'
    BY <1>1, <1>6 DEF IInv, TypeOK, TxDrawn, Return, Goto
  <2> QED BY <1>4, <2>2, <2>3, <2>5 DEF IInv
<1> QED BY <1>5, <1>6

LEMMA RollbackStep ==
    ASSUME IInv, NEW c \in Clients, Rollback(c)
    PROVE  IInv'
<1>1. /\ del' = [del EXCEPT ![c] = {}]
      /\ add' = [add EXCEPT ![c] = {}]
      /\ locks' = [locks EXCEPT ![c] = {}]
      /\ Return(c)
      /\ UNCHANGED <<triples, seq, notified, roots, served, sweep>>
  BY DEF Rollback, EndTransaction
<1>2. TypeOK'
  BY <1>1, ReturnTypes DEF IInv, TypeOK
<1>3. Busy' /\ Closed'
  BY <1>1 DEF IInv, TypeOK, Busy, Closed, Return, Goto
<1>5. AllSound'
  BY <1>1 DEF IInv, TypeOK, AllSound, Sound
<1>6. TxDrawn'
  BY <1>1 DEF IInv, TypeOK, TxDrawn, Return, Goto
<1> QED BY <1>2, <1>3, <1>5, <1>6 DEF IInv

\* Setting a deadline leaves rows typed and sound.
LEMMA TtlRows ==
    ASSUME NEW rows \in SUBSET Row, NEW ttl \in BOOLEAN
    PROVE  /\ WithTtl(rows, ttl) \subseteq Row
           /\ \A r \in WithTtl(rows, ttl) : \E q \in rows : r = SetTtl(q, ttl)
           /\ \A q \in rows : /\ SetTtl(q, ttl).ent = q.ent /\ SetTtl(q, ttl).attr = q.attr
                              /\ SetTtl(q, ttl).tx = q.tx /\ SetTtl(q, ttl).rtx = q.rtx
<1>1. \A q \in rows :
        /\ SetTtl(q, ttl) \in Row
        /\ SetTtl(q, ttl).ent = q.ent /\ SetTtl(q, ttl).attr = q.attr
        /\ SetTtl(q, ttl).tx = q.tx /\ SetTtl(q, ttl).rtx = q.rtx
  BY DEF Row, SetTtl
<1> QED BY <1>1 DEF WithTtl

LEMMA SetEntityTtlStep ==
    ASSUME IInv, NEW c \in Clients, SetEntityTtl(c)
    PROVE  IInv'
<1> DEFINE rows == get_entity(triples, CurrentOp(c).ent)
<1>1. /\ Return(c)
      /\ sweep' = [sweep EXCEPT !.todo = @ \ rows]
      /\ UNCHANGED <<seq, del, add, locks, notified, roots, served>>
      /\ pc[c] = "ttl"
  BY DEF SetEntityTtl
<1>2. PICK ttl \in BOOLEAN : triples' = (triples \ rows) \cup WithTtl(rows, ttl)
  BY DEF SetEntityTtl
<1>3. rows \subseteq triples
  BY DEF get_entity, Live
<1> HIDE DEF rows
<1>4. rows \in SUBSET Row
  BY <1>3 DEF IInv, TypeOK
<1>5. TypeOK'
  BY <1>1, <1>2, <1>4, TtlRows, ReturnTypes DEF IInv, TypeOK
<1>6. Busy' /\ Closed'
  BY <1>1 DEF IInv, TypeOK, Busy, Closed, Return, Goto
<1>8. AllSound'
  <2>1. \A r \in WithTtl(rows, ttl) : r.tx <= seq /\ (r.rtx # 0 => r.rtx > r.tx)
    BY <1>3, <1>4, TtlRows DEF IInv, AllSound, Sound
  <2> QED BY <1>1, <1>2, <2>1 DEF IInv, AllSound, Sound
<1>9. TxDrawn'
  BY <1>1 DEF IInv, TypeOK, TxDrawn, Return, Goto
<1> QED BY <1>5, <1>6, <1>8, <1>9 DEF IInv

LEMMA RecordRootStep ==
    ASSUME IInv, NEW c \in Clients, RecordRoot(c)
    PROVE  IInv'
<1>1. /\ Return(c)
      /\ roots' = roots \cup {tx[c]}
      /\ UNCHANGED <<triples, seq, del, add, locks, notified, served, sweep>>
  BY DEF RecordRoot
<1>2. TypeOK'
  <2>1. roots' \subseteq Nat
    BY <1>1 DEF IInv, TypeOK
  <2> QED BY <1>1, <2>1, ReturnTypes DEF IInv, TypeOK
<1>3. Busy' /\ Closed'
  BY <1>1 DEF RecordRoot, IInv, TypeOK, Busy, Closed, Return, Goto
<1>5. AllSound'
  BY <1>1 DEF IInv, AllSound, Sound
<1>6. TxDrawn'
  BY <1>1 DEF IInv, TypeOK, TxDrawn, Return, Goto
<1> QED BY <1>2, <1>3, <1>5, <1>6 DEF IInv

\* The steps of the sweeper's UPDATE.
LEMMA ExpireBeginsStep ==
    ASSUME IInv, NEW E \in SUBSET Entities, ExpireBegins(E)
    PROVE  IInv'
<1>1. /\ sweep' = [NoSweep EXCEPT !.todo = {r \in Live(triples) : r.ttl /\ r.ent \in E}]
      /\ served' \in 0 .. MaxRequests
      /\ UNCHANGED <<triples, seq, clientVars, notified, roots>>
  BY BoundsAssumption DEF ExpireBegins, IInv, TypeOK
<1>2. /\ sweep' \in [todo : SUBSET Row, del : SUBSET Row, add : SUBSET Row]
      /\ sweep'.add = {} /\ sweep'.del = {}
  BY <1>1 DEF NoSweep, Live, IInv, TypeOK
<1>3. TypeOK' /\ Busy' /\ Closed' /\ TxDrawn'
  BY <1>1, <1>2 DEF IInv, TypeOK, Busy, Closed, TxDrawn, clientVars
<1>4. AllSound'
  BY <1>1, <1>2 DEF IInv, AllSound, Sound, clientVars
<1> QED BY <1>3, <1>4 DEF IInv

LEMMA ExpireRowStep ==
    ASSUME IInv, ExpireRow
    PROVE  IInv'
<1>1. PICK r \in sweep.todo \cap triples :
        sweep' = [todo |-> sweep.todo \ {r}, del |-> sweep.del \cup {r},
                  add |-> sweep.add \cup {Stamp(r, seq + 1)}]
  BY DEF ExpireRow
<1>2. seq' = seq + 1 /\ UNCHANGED <<triples, clientVars, notified, roots, served>>
  BY DEF ExpireRow
<1>3. r \in Row /\ r.tx <= seq
  BY <1>1 DEF IInv, TypeOK, AllSound, Sound
<1> DEFINE s == Stamp(r, seq + 1)
<1>4. /\ s \in Row /\ s.tx = r.tx /\ s.rtx = seq + 1
      /\ seq + 1 \in Nat /\ seq + 1 > r.tx /\ seq + 1 > seq /\ r.tx <= seq + 1
  BY <1>3, StampedRow DEF IInv
<1>5. /\ sweep'.add = sweep.add \cup {s}
      /\ sweep' \in [todo : SUBSET Row, del : SUBSET Row, add : SUBSET Row]
  BY <1>1, <1>3, <1>4 DEF IInv, TypeOK
<1> HIDE DEF s
<1>6. TypeOK' /\ Busy' /\ Closed' /\ TxDrawn'
  BY <1>2, <1>4, <1>5 DEF IInv, TypeOK, Busy, Closed, TxDrawn, clientVars
<1>7. AllSound'
  <2>1. ASSUME NEW rows \in SUBSET Row, Sound(rows)
        PROVE  \A q \in rows : q.tx <= seq' /\ (q.rtx # 0 => q.rtx > q.tx)
    BY <1>2, <1>4, <2>1 DEF Sound, IInv, TypeOK, Row
  <2>2. Sound(triples)' /\ \A c \in Clients : Sound(add[c])'
    BY <1>2, <2>1 DEF Sound, IInv, TypeOK, AllSound, clientVars
  <2>3. s.tx <= seq' /\ s.rtx > s.tx
    BY <1>2, <1>3, <1>4 DEF Row
  <2>4. \A q \in sweep.add : q.tx <= seq' /\ (q.rtx # 0 => q.rtx > q.tx)
    BY <2>1 DEF IInv, TypeOK, AllSound
  <2> QED BY <1>5, <2>2, <2>3, <2>4 DEF Sound, AllSound
<1> QED BY <1>6, <1>7 DEF IInv

LEMMA ExpireSkipsStep ==
    ASSUME IInv, ExpireSkips
    PROVE  IInv'
<1>1. PICK r \in sweep.todo \ triples : sweep' = [sweep EXCEPT !.todo = @ \ {r}]
  BY DEF ExpireSkips
<1>2. UNCHANGED <<triples, seq, clientVars, notified, roots, served>>
  BY DEF ExpireSkips
<1>3. /\ sweep'.add = sweep.add
      /\ sweep' \in [todo : SUBSET Row, del : SUBSET Row, add : SUBSET Row]
  BY <1>1 DEF IInv, TypeOK
<1> QED BY <1>2, <1>3 DEF IInv, TypeOK, Busy, Closed, TxDrawn, AllSound, Sound, clientVars

LEMMA ExpireCommitsStep ==
    ASSUME IInv, ExpireCommits
    PROVE  IInv'
<1>1. /\ triples' = (triples \ sweep.del) \cup sweep.add
      /\ sweep' = NoSweep
      /\ UNCHANGED <<seq, clientVars, notified, roots, served>>
  BY DEF ExpireCommits
<1>2. /\ sweep'.add = {}
      /\ sweep' \in [todo : SUBSET Row, del : SUBSET Row, add : SUBSET Row]
  BY <1>1 DEF NoSweep
<1>3. triples' \subseteq Row /\ Sound(triples)'
  BY <1>1 DEF IInv, TypeOK, AllSound, Sound
<1> QED BY <1>1, <1>2, <1>3 DEF IInv, TypeOK, Busy, Closed, TxDrawn, AllSound, Sound, clientVars

LEMMA ExpireFailsStep ==
    ASSUME IInv, ExpireFails
    PROVE  IInv'
<1>1. sweep' = NoSweep /\ UNCHANGED <<triples, seq, clientVars, notified, roots, served>>
  BY DEF ExpireFails
<1>2. /\ sweep'.add = {}
      /\ sweep' \in [todo : SUBSET Row, del : SUBSET Row, add : SUBSET Row]
  BY <1>1 DEF NoSweep
<1> QED BY <1>1, <1>2 DEF IInv, TypeOK, Busy, Closed, TxDrawn, AllSound, Sound, clientVars

LEMMA InitIInv == Init => IInv
<1> SUFFICES ASSUME Init PROVE IInv
  OBVIOUS
<1>1. TypeOK
  BY BoundsAssumption DEF Init, TripleStoreInit, TypeOK, PCs, NoSweep
<1>2. Busy /\ Closed
  BY DEF Init, TripleStoreInit, Busy, Closed
<1>3. AllSound /\ TxDrawn
  BY DEF Init, TripleStoreInit, AllSound, Sound, TxDrawn, NoReq, NoSweep
<1> QED BY <1>1, <1>2, <1>3 DEF IInv

LEMMA NextIInv == IInv /\ [Next]_vars => IInv'
<1> SUFFICES ASSUME IInv, [Next]_vars PROVE IInv'
  OBVIOUS
<1>1. CASE Next
  <2>1. ASSUME NEW c \in Clients, ClientStep(c) PROVE IInv'
    BY <2>1, BeginStep, NextTxIdStep, AuthorizeStep, RetractRowStep, RetractEndsStep,
       RetractCommitsStep, InsertStep, CommitStep, RollbackStep, SetEntityTtlStep, RecordRootStep DEF ClientStep
  <2>2. ASSUME SweepStep PROVE IInv'
    BY <2>2, ExpireBeginsStep, ExpireRowStep, ExpireSkipsStep, ExpireCommitsStep,
       ExpireFailsStep DEF SweepStep
  <2> QED BY <1>1, <2>1, <2>2 DEF Next
<1>2. CASE UNCHANGED vars
  BY <1>2 DEF vars, clientVars, IInv, TypeOK, Busy, Closed, AllSound, Sound, TxDrawn
<1> QED BY <1>1, <1>2

\* The inductive invariant holds, for every number of clients and every mix of
\* write paths.
THEOREM IInvHolds == Spec => []IInv
BY InitIInv, NextIInv, PTL DEF Spec

\* The store and the request handlers keep their types, for every number of
\* clients and every mix of write paths.
THEOREM TypeCorrect == Spec => []TypeOK
<1>1. IInv => TypeOK
  BY DEF IInv
<1> QED BY <1>1, IInvHolds, PTL

\* A retraction stamp is later than the tx_id of the row it retracts, for every
\* mix of write paths and sweeps: a row is visible at the transaction that
\* asserted it.
THEOREM RetractionsAreLater == Spec => []RetractedLater
<1>1. IInv => RetractedLater
  BY DEF IInv, AllSound, Sound, RetractedLater
<1> QED BY <1>1, IInvHolds, PTL

-----------------------------------------------------------------------------
(* History and announcements *)

\* What a transaction, or the sweeper, has updated was live, and it holds the new
\* version.
Kept ==
    /\ \A c \in Clients : \A r \in del[c] :
        r.rtx = 0 /\ \E q \in add[c] : SameAssertion(q, r)
    /\ \A r \in sweep.del : r.rtx = 0 /\ \E q \in sweep.add : SameAssertion(q, r)
    /\ \A r \in sweep.todo : r.rtx = 0

\* A metadata rewrite has something to insert once it has retracted, inserts it
\* under its tx_id, and records a root only once its commit has been announced.
Announcing ==
    \A c \in Clients :
        /\ req[c].kind = "rewrite" => CurrentOp(c).op = "update" /\ CurrentOp(c).attrs # {}
        /\ req[c].kind = "rewrite" /\ pc[c] \in {"tx", "insert"} => buf[c] # {}
        /\ req[c].kind = "rewrite" /\ pc[c] = "commit" => \E r \in add[c] : r.tx = tx[c]
        /\ req[c].kind = "rewrite" => pc[c] # "auth"
        /\ pc[c] = "root" => tx[c] \in notified

HInv == IInv /\ Kept /\ Announcing /\ AnnouncedIsCommitted

\* Every row has a successor that asserts the same and keeps its stamp.
Carried(rows, new) ==
    \A r \in rows : \E q \in new : SameAssertion(q, r) /\ (r.rtx # 0 => q.rtx = r.rtx)

LEMMA CarriedTxs ==
    ASSUME NEW rows, NEW new, Carried(rows, new)
    PROVE  {r.tx : r \in rows} \subseteq {r.tx : r \in new}
BY DEF Carried, SameAssertion

\* A stamped row asserts what it did.
LEMMA StampSame ==
    ASSUME NEW r \in Row, NEW n PROVE SameAssertion(Stamp(r, n), r)
BY DEF Row, Stamp, SameAssertion

\* The rows a statement retracts are live ones of its view.
LEMMA RetractsLive ==
    ASSUME NEW c, NEW o
    PROVE  ToRetract(c, o) \subseteq View(c) /\ \A r \in ToRetract(c, o) : r.rtx = 0
BY DEF ToRetract, get_entity, Live

LEMMA TtlCarries ==
    ASSUME NEW all \in SUBSET Row, NEW rows \in SUBSET all, NEW ttl \in BOOLEAN
    PROVE  Carried(all, (all \ rows) \cup WithTtl(rows, ttl))
<1>1. \A r \in rows : SameAssertion(SetTtl(r, ttl), r) /\ SetTtl(r, ttl).rtx = r.rtx
  BY DEF Row, SetTtl, SameAssertion
<1>2. \A r \in all : SameAssertion(r, r)
  BY DEF SameAssertion
<1>3. \A r \in rows : SetTtl(r, ttl) \in WithTtl(rows, ttl)
  BY DEF WithTtl
<1> QED BY <1>1, <1>2, <1>3 DEF Carried

\* No step erases a row: one that changes the table replaces rows by versions
\* that assert the same.
LEMMA StepCarries ==
    ASSUME HInv, [Next]_vars
    PROVE  Carried(triples, triples')
<1> USE DEF HInv
<1>1. triples \in SUBSET Row
  BY DEF IInv, TypeOK
<1>2. CASE UNCHANGED triples
  BY <1>2 DEF Carried, SameAssertion
<1>4. ASSUME NEW c \in Clients, Commit(c) \/ RetractCommits(c) PROVE Carried(triples, triples')
  <2>1. triples' = (triples \ del[c]) \cup add[c]
    BY <1>4 DEF Commit, RetractCommits, View
  <2>2. \A r \in triples : SameAssertion(r, r)
    BY DEF SameAssertion
  <2> QED BY <2>1, <2>2 DEF Kept, Carried
<1>5. ASSUME NEW c \in Clients, SetEntityTtl(c) PROVE Carried(triples, triples')
  <2> DEFINE rows == get_entity(triples, CurrentOp(c).ent)
  <2>1. PICK ttl \in BOOLEAN : triples' = (triples \ rows) \cup WithTtl(rows, ttl)
    BY <1>5 DEF SetEntityTtl
  <2>2. rows \in SUBSET triples
    BY DEF get_entity, Live
  <2> HIDE DEF rows
  <2> QED BY <1>1, <2>1, <2>2, TtlCarries
<1>6. ASSUME ExpireCommits PROVE Carried(triples, triples')
  <2>1. triples' = (triples \ sweep.del) \cup sweep.add
    BY <1>6 DEF ExpireCommits
  <2>2. \A r \in triples : SameAssertion(r, r)
    BY DEF SameAssertion
  <2> QED BY <2>1, <2>2 DEF Kept, Carried
<1>7. ASSUME NEW c \in Clients,
             \/ Begin(c) \/ NextTxId(c) \/ Authorize(c) \/ RetractRow(c) \/ RetractEnds(c)
             \/ Insert(c) \/ Rollback(c) \/ RecordRoot(c)
      PROVE  UNCHANGED triples
  BY <1>7 DEF Begin, NextTxId, Authorize, RetractRow, RetractEnds, Insert, Rollback, RecordRoot
<1>8. UNCHANGED vars => UNCHANGED triples
  BY DEF vars
<1>9. SweepStep /\ ~ExpireCommits => UNCHANGED triples
  BY DEF SweepStep, ExpireBegins, ExpireRow, ExpireSkips, ExpireFails
<1> QED BY <1>2, <1>4, <1>5, <1>6, <1>7, <1>8, <1>9 DEF Next, ClientStep

\* A transaction keeps, of every row it has updated, a version of its own.
LEMMA KeptStep ==
    ASSUME HInv, Next
    PROVE  Kept'
<1> USE DEF HInv
<1> DEFINE KeptBy(D, A) == \A r \in D : r.rtx = 0 /\ \E q \in A : SameAssertion(q, r)
           Clear(T) == \A r \in T : r.rtx = 0
<1>a. KeptBy(sweep.del, sweep.add) /\ Clear(sweep.todo) /\ \A c \in Clients : KeptBy(del[c], add[c])
  BY DEF Kept
<1>b. SUFFICES /\ KeptBy(sweep'.del, sweep'.add) /\ Clear(sweep'.todo)
               /\ \A c \in Clients : KeptBy(del'[c], add'[c])
  BY DEF Kept
<1>1. ASSUME NEW c \in Clients, RetractRow(c)
      PROVE  \A d \in Clients : KeptBy(del'[d], add'[d])
  <2>1. PICK r \in ToRetract(c, CurrentOp(c)) :
          /\ add' = [add EXCEPT ![c] = (@ \ {r}) \cup {Stamp(r, seq + 1)}]
          /\ del' = [del EXCEPT ![c] = @ \cup ({r} \cap triples)]
    BY <1>1 DEF RetractRow
  <2>2. r \in View(c) /\ r.rtx = 0
    BY RetractsLive
  <2>3. r \in Row
    BY <2>2 DEF View, IInv, TypeOK
  <2> DEFINE s == Stamp(r, seq + 1)
  <2>4. SameAssertion(s, r)
    BY <2>3, StampSame
  <2>5. /\ add'[c] = (add[c] \ {r}) \cup {s}
        /\ del'[c] = del[c] \cup ({r} \cap triples)
        /\ \A d \in Clients \ {c} : add'[d] = add[d] /\ del'[d] = del[d]
    BY <2>1 DEF IInv, TypeOK
  <2> HIDE DEF s
  <2>6. ASSUME NEW p \in del[c] PROVE p.rtx = 0 /\ \E q \in add'[c] : SameAssertion(q, p)
    <3>1. p.rtx = 0
      BY <1>a
    <3>2. PICK q \in add[c] : SameAssertion(q, p)
      BY <1>a
    <3>3. CASE q = r
      BY <2>4, <2>5, <3>1, <3>2, <3>3 DEF SameAssertion
    <3>4. CASE q # r
      BY <2>5, <3>1, <3>2, <3>4
    <3> QED BY <3>3, <3>4
  <2>7. KeptBy(del'[c], add'[c])
    BY <2>2, <2>4, <2>5, <2>6
  <2> QED BY <1>a, <2>5, <2>7
<1>2. ASSUME NEW c \in Clients, Insert(c) PROVE \A d \in Clients : KeptBy(del'[d], add'[d])
  <2>1. PICK rows : add' = [add EXCEPT ![c] = @ \cup rows]
    BY <1>2 DEF Insert
  <2>2. UNCHANGED del
    BY <1>2 DEF Insert
  <2>3. \A d \in Clients : add[d] \subseteq add'[d]
    BY <2>1 DEF IInv, TypeOK
  <2> QED BY <1>a, <2>2, <2>3
<1>3. ASSUME NEW c \in Clients, Commit(c) \/ Rollback(c) \/ RetractCommits(c)
      PROVE  \A d \in Clients : KeptBy(del'[d], add'[d])
  <2>1. del' = [del EXCEPT ![c] = {}] /\ add' = [add EXCEPT ![c] = {}]
    BY <1>3 DEF Commit, Rollback, RetractCommits, EndTransaction
  <2> QED BY <1>a, <2>1 DEF IInv, TypeOK
<1>4. ASSUME NEW c \in Clients,
             \/ Begin(c) \/ NextTxId(c) \/ Authorize(c) \/ RetractEnds(c)
             \/ SetEntityTtl(c) \/ RecordRoot(c)
      PROVE  \A d \in Clients : KeptBy(del'[d], add'[d])
  <2>1. UNCHANGED <<add, del>>
    BY <1>4 DEF Begin, NextTxId, Authorize, RetractEnds, SetEntityTtl, RecordRoot
  <2> QED BY <1>a, <2>1
<1>5. ASSUME SweepStep PROVE \A d \in Clients : KeptBy(del'[d], add'[d])
  <2>1. UNCHANGED <<add, del>>
    BY <1>5 DEF SweepStep, ExpireBegins, ExpireRow, ExpireSkips, ExpireCommits, ExpireFails,
                clientVars
  <2> QED BY <1>a, <2>1
<1>6. ASSUME NEW c \in Clients, ClientStep(c)
      PROVE  sweep'.del = sweep.del /\ sweep'.add = sweep.add /\ sweep'.todo \subseteq sweep.todo
  <2>1. SetEntityTtl(c) \/ UNCHANGED sweep
    BY <1>6 DEF ClientStep, Begin, NextTxId, Authorize, RetractRow, RetractEnds, RetractCommits,
                Insert, Commit, Rollback, RecordRoot
  <2>2. SetEntityTtl(c) => \E rows : sweep' = [sweep EXCEPT !.todo = @ \ rows]
    BY DEF SetEntityTtl
  <2> QED BY <2>1, <2>2 DEF IInv, TypeOK
<1>7. ASSUME SweepStep PROVE KeptBy(sweep'.del, sweep'.add) /\ Clear(sweep'.todo)
  <2>1. CASE \E E \in SUBSET Entities : ExpireBegins(E)
    BY <2>1 DEF ExpireBegins, NoSweep, Live
  <2>2. CASE ExpireRow
    <3>1. PICK r \in sweep.todo \cap triples :
            sweep' = [todo |-> sweep.todo \ {r}, del |-> sweep.del \cup {r},
                      add |-> sweep.add \cup {Stamp(r, seq + 1)}]
      BY <2>2 DEF ExpireRow
    <3>2. r.rtx = 0 /\ SameAssertion(Stamp(r, seq + 1), r)
      BY <1>a, StampSame DEF IInv, TypeOK
    <3>3. /\ sweep'.todo = sweep.todo \ {r} /\ sweep'.del = sweep.del \cup {r}
          /\ sweep'.add = sweep.add \cup {Stamp(r, seq + 1)}
      BY <3>1
    <3> QED BY <1>a, <3>2, <3>3
  <2>3. CASE ExpireSkips
    <3>1. \E r : sweep' = [sweep EXCEPT !.todo = @ \ {r}]
      BY <2>3 DEF ExpireSkips
    <3>2. sweep'.del = sweep.del /\ sweep'.add = sweep.add /\ sweep'.todo \subseteq sweep.todo
      BY <3>1 DEF IInv, TypeOK
    <3> QED BY <1>a, <3>2
  <2>4. CASE ExpireCommits \/ ExpireFails
    BY <2>4 DEF ExpireCommits, ExpireFails, NoSweep
  <2> QED BY <1>7, <2>1, <2>2, <2>3, <2>4 DEF SweepStep
<1>8. ASSUME NEW c \in Clients, ClientStep(c)
      PROVE  \A d \in Clients : KeptBy(del'[d], add'[d])
  BY <1>8, <1>1, <1>2, <1>3, <1>4 DEF ClientStep
<1> HIDE DEF KeptBy, Clear
<1>9. ASSUME NEW c \in Clients, ClientStep(c) PROVE KeptBy(sweep'.del, sweep'.add) /\ Clear(sweep'.todo)
  <2>1. sweep'.del = sweep.del /\ sweep'.add = sweep.add /\ sweep'.todo \subseteq sweep.todo
    BY <1>6, <1>9
  <2> QED BY <1>a, <2>1 DEF KeptBy, Clear
<1> QED BY <1>5, <1>7, <1>8, <1>9 DEF Next

\* A step of one client leaves the others' request, position and transaction
\* alone.
LEMMA OthersUntouched ==
    ASSUME IInv, NEW c \in Clients, ClientStep(c), NEW d \in Clients, d # c
    PROVE  /\ req'[d] = req[d] /\ pc'[d] = pc[d] /\ pos'[d] = pos[d] /\ tx'[d] = tx[d]
           /\ buf'[d] = buf[d] /\ add'[d] = add[d] /\ del'[d] = del[d] /\ locks'[d] = locks[d]
<1> USE DEF IInv, TypeOK, Goto
<1>1. CASE Begin(c) \/ NextTxId(c) \/ Authorize(c)
  BY <1>1 DEF Begin, NextTxId, Authorize
<1>2. CASE RetractRow(c) \/ RetractEnds(c) \/ RetractCommits(c)
  BY <1>2 DEF RetractRow, RetractEnds, RetractCommits, AfterRetract, EndTransaction
<1>3. CASE Insert(c)
  BY <1>3 DEF Insert
<1>4. CASE Commit(c)
  BY <1>4 DEF Commit, AfterCommit, Return, EndTransaction
<1>5. CASE Rollback(c) \/ SetEntityTtl(c) \/ RecordRoot(c)
  BY <1>5 DEF Rollback, SetEntityTtl, RecordRoot, Return, EndTransaction
<1> QED BY <1>1, <1>2, <1>3, <1>4, <1>5 DEF ClientStep

\* One client's part of Announcing is preserved by its own steps, the others' by
\* all, because the notifications only grow.
LEMMA AnnouncingStep ==
    ASSUME HInv, Next
    PROVE  Announcing'
<1> USE DEF HInv
<1>1. notified \subseteq notified'
  BY DEF Next, ClientStep, Begin, NextTxId, Authorize, RetractRow, RetractEnds, RetractCommits,
         Insert, Commit, Rollback, SetEntityTtl, RecordRoot,
         SweepStep, ExpireBegins, ExpireRow, ExpireSkips, ExpireCommits, ExpireFails
<1>2. ASSUME NEW d \in Clients,
             req'[d] = req[d], pc'[d] = pc[d], pos'[d] = pos[d], tx'[d] = tx[d],
             buf'[d] = buf[d], add'[d] = add[d]
      PROVE  Announcing!(d)'
  BY <1>1, <1>2 DEF Announcing, CurrentOp
<1>3. ASSUME NEW c \in Clients, ClientStep(c), NEW d \in Clients, d # c
      PROVE  Announcing!(d)'
  <2>1. /\ req'[d] = req[d] /\ pc'[d] = pc[d] /\ pos'[d] = pos[d] /\ tx'[d] = tx[d]
        /\ buf'[d] = buf[d] /\ add'[d] = add[d]
    BY <1>3, OthersUntouched
  <2> QED BY <1>2, <2>1
<1>4. ASSUME NEW c \in Clients, Begin(c) PROVE Announcing!(c)'
  <2>1. PICK r \in Requests :
          /\ Admissible(r)
          /\ req' = [req EXCEPT ![c] = r]
          /\ Goto(c, IF r.kind \in {"mutate", "ws"} THEN "tx"
                     ELSE IF r.kind = "rewrite" THEN "retract" ELSE "auth")
    BY <1>4 DEF Begin
  <2>2. req'[c] = r /\ pos'[c] = 1 /\ pc'[c] \in {"tx", "retract", "auth"}
        /\ (r.kind = "rewrite" => pc'[c] = "retract")
    BY <1>4, <2>1 DEF IInv, TypeOK, Busy, Begin, Goto
  <2>3. r.kind = "rewrite" => r.ops[1].op = "update" /\ r.ops[1].attrs # {}
    BY <2>1 DEF Admissible
  <2> QED BY <2>2, <2>3 DEF CurrentOp
<1>5. ASSUME NEW c \in Clients, NextTxId(c) PROVE Announcing!(c)'
  <2>1. req[c].kind \in AllKinds
    BY <1>5, CurrentOpType DEF IInv, NextTxId
  <2>2. /\ pc[c] = "tx" /\ UNCHANGED <<req, pos, buf, add>>
        /\ pc'[c] = Route[req[c].kind].tx
    BY <1>5 DEF NextTxId, Goto, IInv, TypeOK
  <2>3. pc'[c] \in {"auth", "insert", "retract"} /\ (req[c].kind = "rewrite" => pc'[c] = "insert")
    BY <2>1, <2>2 DEF Route, AllKinds
  <2> QED BY <2>2, <2>3 DEF Announcing, CurrentOp
<1>6. ASSUME NEW c \in Clients, Authorize(c) PROVE Announcing!(c)'
  <2>1. req[c].kind \in AllKinds
    BY <1>6, CurrentOpType DEF IInv, Authorize
  <2>2. /\ pc[c] = "auth" /\ UNCHANGED <<req, pos, buf, add, tx>>
        /\ pc'[c] = Route[req[c].kind].auth
    BY <1>6 DEF Authorize, Goto, IInv, TypeOK
  <2>3. pc'[c] \in {"tx", "retract"} /\ (req[c].kind = "rewrite" => pc'[c] = "retract")
    BY <2>1, <2>2 DEF Route, AllKinds
  <2> QED BY <2>2, <2>3 DEF Announcing, CurrentOp
<1>7. ASSUME NEW c \in Clients, RetractRow(c) PROVE Announcing!(c)'
  <2>1. UNCHANGED <<req, pc, pos>> /\ pc[c] = "retract"
    BY <1>7 DEF RetractRow
  <2> QED BY <2>1 DEF Announcing, CurrentOp
<1>15. ASSUME NEW c \in Clients, RetractEnds(c) PROVE Announcing!(c)'
  <2>1. req'[c].kind # "rewrite" /\ pc'[c] # "root"
    BY <1>15 DEF RetractEnds, AfterRetract, Goto, IInv, TypeOK
  <2> QED BY <2>1
<1>8. ASSUME NEW c \in Clients, RetractCommits(c) PROVE Announcing!(c)'
  <2>1. /\ req[c].kind = "rewrite" /\ UNCHANGED <<req, pos>>
        /\ pc'[c] = "tx"
        /\ buf'[c] = InputsOf(CurrentOp(c), FALSE, pos[c])
    BY <1>8 DEF RetractCommits, Goto, IInv, TypeOK
  <2>2. CurrentOp(c).op = "update" /\ CurrentOp(c).attrs # {}
    BY <2>1 DEF Announcing
  <2>3. buf'[c] # {}
    BY <2>1, <2>2 DEF InputsOf
  <2> QED BY <2>1, <2>2, <2>3 DEF CurrentOp
<1>9. ASSUME NEW c \in Clients, Insert(c) PROVE Announcing!(c)'
  <2>1. CASE req[c].kind # "rewrite"
    BY <1>9, <2>1 DEF Insert, Goto, IInv, TypeOK
  <2>2. CASE req[c].kind = "rewrite"
    <3>1. /\ pc'[c] = "commit" /\ UNCHANGED <<req, pos, tx>>
          /\ add'[c] = add[c] \cup Inserted(buf[c], tx[c], FALSE)
          /\ pc[c] = "insert"
      BY <1>9, <2>2 DEF Insert, InsertInputs, Goto, IInv, TypeOK
    <3>2. PICK i \in buf[c] : TRUE
      BY <2>2, <3>1 DEF Announcing
    <3>3. \E r \in Inserted(buf[c], tx[c], FALSE) : r.tx = tx[c]
      <4> DEFINE r == [ent |-> i[1], attr |-> i[2], val |-> i[3],
                       tx |-> tx[c], rtx |-> 0, ttl |-> FALSE]
      <4>1. r \in Inserted(buf[c], tx[c], FALSE)
        BY <3>2 DEF Inserted
      <4>2. r.tx = tx[c]
        OBVIOUS
      <4> QED BY <4>1, <4>2
    <3> QED BY <2>2, <3>1, <3>3 DEF Announcing, CurrentOp
  <2> QED BY <2>1, <2>2
<1>10. ASSUME NEW c \in Clients, Return(c) PROVE Announcing!(c)'
  <2>1. req'[c].kind = "none" /\ pc'[c] = "idle"
    BY <1>10 DEF Return, Goto, NoReq, IInv, TypeOK
  <2> QED BY <2>1
<1>11. ASSUME NEW c \in Clients, Commit(c), ~Return(c) PROVE Announcing!(c)'
  <2>1. UNCHANGED <<req, pos, tx>> /\ pc'[c] \in {"root", "ttl"}
        /\ (pc'[c] = "root" => tx[c] \in notified')
    BY <1>11 DEF Commit, AfterCommit, Goto, IInv, TypeOK
  <2> QED BY <2>1 DEF Announcing, CurrentOp
<1>12. ASSUME NEW c \in Clients, Rollback(c) \/ SetEntityTtl(c) \/ RecordRoot(c)
       PROVE  Return(c)
  BY <1>12 DEF Rollback, SetEntityTtl, RecordRoot
<1>13. ASSUME NEW c \in Clients, ClientStep(c) PROVE Announcing'
  <2>1. Announcing!(c)'
    BY <1>13, <1>4, <1>5, <1>6, <1>7, <1>8, <1>9, <1>10, <1>11, <1>12, <1>15 DEF ClientStep
  <2> QED BY <1>3, <1>13, <2>1 DEF Announcing
<1>14. ASSUME SweepStep PROVE Announcing'
  <2>1. UNCHANGED <<req, pc, pos, tx, buf, add>>
    BY <1>14 DEF SweepStep, ExpireBegins, ExpireRow, ExpireSkips, ExpireCommits, ExpireFails,
                 clientVars
  <2> QED BY <1>2, <2>1 DEF Announcing
<1> QED BY <1>13, <1>14 DEF Next

\* Listeners hear of committed transactions only, and roots follow them.
LEMMA AnnouncedStep ==
    ASSUME HInv, Next
    PROVE  AnnouncedIsCommitted'
<1> USE DEF HInv
<1>1. {r.tx : r \in triples} \subseteq {r.tx : r \in triples'}
  BY StepCarries, CarriedTxs
<1>2. ASSUME NEW c \in Clients, Commit(c) PROVE AnnouncedIsCommitted'
  <2>1. /\ triples' = View(c) /\ pc[c] = "commit" /\ UNCHANGED roots
        /\ notified' = notified \cup (IF req[c].kind = "rewrite" THEN {tx[c]} ELSE {})
    BY <1>2 DEF Commit
  <2>2. req[c].kind = "rewrite" => tx[c] \in {r.tx : r \in triples'}
    BY <2>1 DEF Announcing, View
  <2> QED BY <1>1, <2>1, <2>2 DEF AnnouncedIsCommitted
<1>3. ASSUME NEW c \in Clients, RecordRoot(c) PROVE AnnouncedIsCommitted'
  <2>1. tx[c] \in notified /\ roots' = roots \cup {tx[c]} /\ UNCHANGED <<triples, notified>>
    BY <1>3 DEF RecordRoot, Announcing
  <2> QED BY <2>1 DEF AnnouncedIsCommitted
<1>4. ASSUME UNCHANGED <<notified, roots>> PROVE AnnouncedIsCommitted'
  BY <1>1, <1>4 DEF AnnouncedIsCommitted
<1>5. ASSUME NEW c \in Clients,
             \/ Begin(c) \/ NextTxId(c) \/ Authorize(c) \/ RetractRow(c) \/ RetractEnds(c)
             \/ RetractCommits(c) \/ Insert(c) \/ Rollback(c) \/ SetEntityTtl(c)
      PROVE  UNCHANGED <<notified, roots>>
  BY <1>5 DEF Begin, NextTxId, Authorize, RetractRow, RetractEnds, RetractCommits, Insert,
              Rollback, SetEntityTtl
<1>6. ASSUME SweepStep PROVE UNCHANGED <<notified, roots>>
  BY <1>6 DEF SweepStep, ExpireBegins, ExpireRow, ExpireSkips, ExpireCommits, ExpireFails
<1> QED BY <1>2, <1>3, <1>4, <1>5, <1>6 DEF Next, ClientStep

LEMMA InitHInv == Init => HInv
<1> SUFFICES ASSUME Init PROVE HInv
  OBVIOUS
<1>1. Kept /\ Announcing
  BY DEF Init, Kept, Announcing, NoReq, NoSweep
<1>2. AnnouncedIsCommitted
  BY DEF Init, TripleStoreInit, AnnouncedIsCommitted
<1> QED BY <1>1, <1>2, InitIInv DEF HInv

LEMMA NextHInv == HInv /\ [Next]_vars => HInv'
<1> SUFFICES ASSUME HInv, [Next]_vars PROVE HInv'
  OBVIOUS
<1>1. CASE Next
  BY <1>1, NextIInv, KeptStep, AnnouncingStep, AnnouncedStep DEF HInv
<1>2. CASE UNCHANGED vars
  <2>1. IInv'
    BY NextIInv DEF HInv
  <2>2. Kept' /\ Announcing' /\ AnnouncedIsCommitted'
    BY <1>2 DEF vars, clientVars, HInv, Kept, Announcing, AnnouncedIsCommitted, CurrentOp
  <2> QED BY <2>1, <2>2 DEF HInv
<1> QED BY <1>1, <1>2

\* A transaction that listeners were told of, or that has a Merkle root, is a
\* committed one, for every mix of write paths, failures and sweeps.
THEOREM AnnouncementsAreTrue == Spec => []AnnouncedIsCommitted
<1>1. HInv => AnnouncedIsCommitted
  BY DEF HInv
<1> QED BY <1>1, InitHInv, NextHInv, PTL DEF Spec

\* Nothing is erased: every step of every write path, and every sweep, keeps a
\* version of each committed row, with its value, its tx and its stamp.
THEOREM NothingErased == Spec => HistoryKept
<1> DEFINE Step == \A r \in triples : \E q \in triples' :
                     SameAssertion(q, r) /\ (r.rtx # 0 => q.rtx = r.rtx)
<1>1. HInv /\ [Next]_vars => [Step]_vars
  BY StepCarries DEF Carried
<1>2. HistoryKept <=> [][Step]_vars
  BY DEF HistoryKept
<1> HIDE DEF Step
<1> QED BY <1>1, <1>2, InitHInv, NextHInv, PTL DEF Spec

-----------------------------------------------------------------------------
(* Point-in-time reads *)

\* What a transaction, or the sweeper's UPDATE, has updated it has locked: the
\* row is still in the table, and is nobody else's.
RowsApart ==
    /\ sweep.del \subseteq triples
    /\ \A c \in Clients : del[c] \subseteq triples /\ del[c] \cap sweep.del = {}
    /\ \A c, d \in Clients : c # d => del[c] \cap del[d] = {}

\* What a transaction has written is asserted under its own tx_id or is a new
\* version of a row it has updated.
Versions ==
    /\ \A c \in Clients : \A q \in add[c] :
        q.tx = tx[c] \/ \E r \in del[c] : SameAssertion(q, r)
    /\ \A q \in sweep.add : q.rtx # 0 /\ \E r \in sweep.del : SameAssertion(q, r)

\* The tx_id is drawn once.
DrawnOnce ==
    \A c \in Clients :
        \/ pc[c] = "tx"
        \/ pc[c] = "auth" /\ req[c].kind \notin {"mutate", "ws"}
        \/ pc[c] = "retract" /\ req[c].kind \in {"patch", "rewrite"}
        => tx[c] = 0

PInv == HInv /\ RowsApart /\ Versions /\ DrawnOnce

\* What a point-in-time read at t considers.
Seen(rows, e, t) == {r \in rows : r.ent = e /\ r.tx <= t /\ (r.rtx = 0 \/ r.rtx > t)}

\* The rows that a point-in-time read at t chooses from, one per attribute.
Newest(rows, e, t) ==
    {<<r.attr, r.val, r.tx>> : r \in
        {r \in Seen(rows, e, t) : \A q \in Seen(rows, e, t) : q.attr = r.attr => q.tx <= r.tx}}

\* What a read may answer depends on these alone.
LEMMA NewestDecides ==
    ASSUME NEW A, NEW B, NEW e, NEW t, Newest(A, e, t) = Newest(B, e, t)
    PROVE  get_entity_at(A, e, t) = get_entity_at(B, e, t)
<1> DEFINE Answers(N) == {X \in SUBSET N : \A x \in N : Cardinality({y \in X : y[1] = x[1]}) = 1}
<1>1. \A rows : get_entity_at(rows, e, t) = Answers(Newest(rows, e, t))
  BY DEF get_entity_at, Newest, Seen
<1> HIDE DEF Answers
<1> QED BY <1>1

LEMMA NewestIncluded ==
    ASSUME NEW A, NEW B, NEW e, NEW t,
           \A r \in Seen(A, e, t) : \E q \in Seen(B, e, t) : SameAssertion(q, r),
           \A q \in Seen(B, e, t) : \E r \in Seen(A, e, t) : SameAssertion(q, r)
    PROVE  Newest(A, e, t) \subseteq Newest(B, e, t)
<1> SUFFICES ASSUME NEW r \in Seen(A, e, t),
                    \A p \in Seen(A, e, t) : p.attr = r.attr => p.tx <= r.tx
             PROVE  <<r.attr, r.val, r.tx>> \in Newest(B, e, t)
  BY DEF Newest
<1>2. PICK q \in Seen(B, e, t) : SameAssertion(q, r)
  OBVIOUS
<1>3. \A p \in Seen(B, e, t) : p.attr = q.attr => p.tx <= q.tx
  BY <1>2 DEF SameAssertion
<1>5. <<r.attr, r.val, r.tx>> = <<q.attr, q.val, q.tx>>
  BY <1>2 DEF SameAssertion
<1> QED BY <1>3, <1>5 DEF Newest

\* The rows N that replace the rows S of T are, as far as t can see, versions of
\* them: those visible at t stay visible, and no others become so.
Replaces(N, S, T, e, t) ==
    /\ \A r \in T \cap S : r \in Seen(T, e, t) => \E q \in Seen(N, e, t) : SameAssertion(q, r)
    /\ \A q \in N : q \in Seen(N, e, t) => \E r \in Seen(T, e, t) : SameAssertion(q, r)

\* Such a replacement does not change what is read at t.
LEMMA ReplacedRows ==
    ASSUME NEW T, NEW S, NEW N, NEW e, NEW t, Replaces(N, S, T, e, t)
    PROVE  get_entity_at((T \ S) \cup N, e, t) = get_entity_at(T, e, t)
<1> DEFINE U == (T \ S) \cup N
<1>1. \A r \in U : SameAssertion(r, r)
  BY DEF SameAssertion
<1>2. \A r \in T : SameAssertion(r, r)
  BY DEF SameAssertion
<1>3. \A r \in Seen(T, e, t) : \E q \in Seen(U, e, t) : SameAssertion(q, r)
  BY <1>2 DEF Replaces, Seen
<1>4. \A q \in Seen(U, e, t) : \E r \in Seen(T, e, t) : SameAssertion(q, r)
  BY <1>2 DEF Replaces, Seen
<1>5. \A p, r : SameAssertion(p, r) <=> SameAssertion(r, p)
  BY DEF SameAssertion
<1> HIDE DEF U
<1>6. Newest(T, e, t) \subseteq Newest(U, e, t)
  BY <1>3, <1>4, NewestIncluded
<1>7. Newest(U, e, t) \subseteq Newest(T, e, t)
  <2>1. \A r \in Seen(U, e, t) : \E q \in Seen(T, e, t) : SameAssertion(q, r)
    BY <1>4, <1>5
  <2>2. \A q \in Seen(T, e, t) : \E r \in Seen(U, e, t) : SameAssertion(q, r)
    BY <1>3, <1>5
  <2> QED BY <2>1, <2>2, NewestIncluded
<1>8. Newest(U, e, t) = Newest(T, e, t)
  BY <1>6, <1>7
<1> QED BY <1>8, NewestDecides DEF U

LEMMA TtlPast ==
    ASSUME triples \in SUBSET Row, NEW rows \in SUBSET triples, NEW ttl \in BOOLEAN, NEW e, NEW t
    PROVE  get_entity_at((triples \ rows) \cup WithTtl(rows, ttl), e, t) = get_entity_at(triples, e, t)
<1>1. \A r \in rows : SameAssertion(SetTtl(r, ttl), r) /\ SetTtl(r, ttl).rtx = r.rtx
  BY DEF Row, SetTtl, SameAssertion
<1>2. \A r \in rows : SetTtl(r, ttl) \in WithTtl(rows, ttl)
  BY DEF WithTtl
<1>3. ASSUME NEW r \in triples \cap rows, r \in Seen(triples, e, t)
      PROVE  \E q \in Seen(WithTtl(rows, ttl), e, t) : SameAssertion(q, r)
  BY <1>1, <1>2, <1>3 DEF Seen, SameAssertion
<1>4. ASSUME NEW q \in WithTtl(rows, ttl), q \in Seen(WithTtl(rows, ttl), e, t)
      PROVE  \E r \in Seen(triples, e, t) : SameAssertion(q, r)
  <2>1. PICK r \in rows : q = SetTtl(r, ttl)
    BY DEF WithTtl
  <2>2. SameAssertion(q, r) /\ q.rtx = r.rtx
    BY <1>1, <2>1
  <2>3. r \in Seen(triples, e, t)
    BY <1>4, <2>2 DEF Seen, SameAssertion
  <2> QED BY <2>2, <2>3
<1>5. Replaces(WithTtl(rows, ttl), rows, triples, e, t)
  BY <1>3, <1>4 DEF Replaces
<1> QED BY <1>5, ReplacedRows

\* A commit at a settled t: what it adds is later, or a version of what it
\* replaces.
LEMMA CommitPast ==
    ASSUME PInv, NEW c \in Clients, triples' = View(c), NEW t \in 1 .. seq, Settled(t), NEW e
    PROVE  get_entity_at(triples', e, t) = get_entity_at(triples, e, t)
<1> USE DEF PInv, HInv
<1>1. triples' = (triples \ del[c]) \cup add[c] /\ add[c] \in SUBSET Row /\ tx[c] \in Nat
  BY DEF View, IInv, TypeOK
<1>2. ASSUME NEW r \in triples \cap del[c], r \in Seen(triples, e, t)
      PROVE  \E q \in Seen(add[c], e, t) : SameAssertion(q, r)
  <2>1. PICK q \in add[c] : SameAssertion(q, r)
    BY DEF Kept
  <2>2. q.rtx = 0 \/ q.rtx > t
    BY DEF Settled
  <2> QED BY <1>2, <2>1, <2>2 DEF Seen, SameAssertion
<1>3. ASSUME NEW q \in add[c], q \in Seen(add[c], e, t)
      PROVE  \E r \in Seen(triples, e, t) : SameAssertion(q, r)
  <2>1. q.tx <= t /\ q.ent = e /\ q.tx \in Nat \ {0} /\ t \in Nat
    BY <1>1, <1>3 DEF Seen, Row, IInv, TypeOK
  <2>2. q.tx # tx[c]
    BY <1>1, <2>1 DEF Settled
  <2>3. PICK r \in del[c] : SameAssertion(q, r)
    BY <2>2 DEF Versions
  <2>4. r \in triples /\ r.rtx = 0
    BY DEF RowsApart, Kept
  <2> QED BY <2>1, <2>3, <2>4 DEF Seen, SameAssertion
<1>4. Replaces(add[c], del[c], triples, e, t)
  BY <1>2, <1>3 DEF Replaces
<1> QED BY <1>1, <1>4, ReplacedRows

\* The commit of a sweep at a settled t: the rows it stamps stay visible there.
LEMMA SweepPast ==
    ASSUME PInv, ExpireCommits, NEW t \in 1 .. seq, Settled(t), NEW e
    PROVE  get_entity_at(triples', e, t) = get_entity_at(triples, e, t)
<1> USE DEF PInv, HInv
<1>1. triples' = (triples \ sweep.del) \cup sweep.add
  BY DEF ExpireCommits
<1>2. ASSUME NEW r \in triples \cap sweep.del, r \in Seen(triples, e, t)
      PROVE  \E q \in Seen(sweep.add, e, t) : SameAssertion(q, r)
  <2>1. PICK q \in sweep.add : SameAssertion(q, r)
    BY DEF Kept
  <2>2. q.rtx > t
    BY DEF Settled
  <2> QED BY <1>2, <2>1, <2>2 DEF Seen, SameAssertion
<1>3. ASSUME NEW q \in sweep.add, q \in Seen(sweep.add, e, t)
      PROVE  \E r \in Seen(triples, e, t) : SameAssertion(q, r)
  <2>3. PICK r \in sweep.del : SameAssertion(q, r)
    BY DEF Versions
  <2>4. r \in triples /\ r.rtx = 0
    BY DEF RowsApart, Kept
  <2> QED BY <1>3, <2>3, <2>4 DEF Seen, SameAssertion
<1>4. Replaces(sweep.add, sweep.del, triples, e, t)
  BY <1>2, <1>3 DEF Replaces
<1> QED BY <1>1, <1>4, ReplacedRows

\* No step changes what may be read at a settled t.
LEMMA StepKeepsPast ==
    ASSUME PInv, Next, NEW t \in 1 .. seq, Settled(t), NEW e
    PROVE  get_entity_at(triples', e, t) = get_entity_at(triples, e, t)
<1> USE DEF PInv, HInv
<1>1. triples \in SUBSET Row
  BY DEF IInv, TypeOK
<1>2. ASSUME NEW c \in Clients, RetractCommits(c) \/ Commit(c)
      PROVE  get_entity_at(triples', e, t) = get_entity_at(triples, e, t)
  BY <1>2, CommitPast DEF Commit, RetractCommits
<1>3. ASSUME NEW c \in Clients, SetEntityTtl(c)
      PROVE  get_entity_at(triples', e, t) = get_entity_at(triples, e, t)
  <2> DEFINE rows == get_entity(triples, CurrentOp(c).ent)
  <2>1. PICK ttl \in BOOLEAN : triples' = (triples \ rows) \cup WithTtl(rows, ttl)
    BY <1>3 DEF SetEntityTtl
  <2>2. rows \in SUBSET triples
    BY DEF get_entity, Live
  <2> HIDE DEF rows
  <2> QED BY <1>1, <2>1, <2>2, TtlPast
<1>5. ASSUME NEW c \in Clients,
             \/ Begin(c) \/ NextTxId(c) \/ Authorize(c) \/ RetractRow(c) \/ RetractEnds(c)
             \/ Insert(c) \/ Rollback(c) \/ RecordRoot(c)
      PROVE  UNCHANGED triples
  BY <1>5 DEF Begin, NextTxId, Authorize, RetractRow, RetractEnds, Insert, Rollback, RecordRoot
<1>6. UNCHANGED triples => get_entity_at(triples', e, t) = get_entity_at(triples, e, t)
  BY DEF get_entity_at
<1>7. SweepStep /\ ~ExpireCommits => UNCHANGED triples
  BY DEF SweepStep, ExpireBegins, ExpireRow, ExpireSkips, ExpireFails
<1> QED BY <1>2, <1>3, <1>5, <1>6, <1>7, SweepPast DEF Next, ClientStep

\* A client's step leaves the rows of the sweeper's UPDATE alone.
LEMMA SweepUntouched ==
    ASSUME IInv, NEW c \in Clients, ClientStep(c)
    PROVE  sweep'.del = sweep.del /\ sweep'.add = sweep.add
<1>1. SetEntityTtl(c) \/ UNCHANGED sweep
  BY DEF ClientStep, Begin, NextTxId, Authorize, RetractRow, RetractEnds, RetractCommits,
         Insert, Commit, Rollback, RecordRoot
<1>2. SetEntityTtl(c) => \E rows : sweep' = [sweep EXCEPT !.todo = @ \ rows]
  BY DEF SetEntityTtl
<1> QED BY <1>1, <1>2 DEF IInv, TypeOK

\* The sweeper's steps leave the clients' rows alone.
LEMMA ClientsUntouched ==
    ASSUME SweepStep PROVE UNCHANGED clientVars
BY DEF SweepStep, ExpireBegins, ExpireRow, ExpireSkips, ExpireCommits, ExpireFails

\* An UPDATE waits for the lock of a row, and a commit replaces only rows its
\* transaction has locked.
LEMMA RowsApartStep == ASSUME PInv, Next PROVE RowsApart'
<1> USE DEF PInv, HInv
<1>1. ASSUME NEW c \in Clients, RetractRow(c) PROVE RowsApart'
  <2>1. PICK r :
          /\ r \notin RowsLocked
          /\ del' = [del EXCEPT ![c] = @ \cup ({r} \cap triples)]
    BY <1>1 DEF RetractRow
  <2>2. UNCHANGED <<triples, sweep>>
    BY <1>1 DEF RetractRow
  <2>3. r \notin sweep.del /\ \A d \in Clients : r \notin del[d]
    BY <2>1 DEF RowsLocked
  <2> QED BY <2>1, <2>2, <2>3 DEF RowsApart, IInv, TypeOK
<1>2. ASSUME NEW c \in Clients, Commit(c) \/ RetractCommits(c) PROVE RowsApart'
  <2>1. /\ triples' = (triples \ del[c]) \cup add[c] /\ UNCHANGED sweep
        /\ del' = [del EXCEPT ![c] = {}]
    BY <1>2 DEF Commit, RetractCommits, View, EndTransaction
  <2> QED BY <2>1 DEF RowsApart, IInv, TypeOK
<1>3. ASSUME NEW c \in Clients, Rollback(c) PROVE RowsApart'
  <2>1. UNCHANGED <<triples, sweep>> /\ del' = [del EXCEPT ![c] = {}]
    BY <1>3 DEF Rollback, EndTransaction
  <2> QED BY <2>1 DEF RowsApart, IInv, TypeOK
<1>4. ASSUME NEW c \in Clients, SetEntityTtl(c) PROVE RowsApart'
  <2>1. PICK rows, new : rows \cap RowsLocked = {} /\ triples' = (triples \ rows) \cup new
    BY <1>4 DEF SetEntityTtl
  <2>2. UNCHANGED del /\ sweep'.del = sweep.del
    BY <1>4, SweepUntouched DEF SetEntityTtl, ClientStep
  <2> QED BY <2>1, <2>2 DEF RowsApart, RowsLocked
<1>5. ASSUME NEW c \in Clients,
             \/ Begin(c) \/ NextTxId(c) \/ Authorize(c) \/ RetractEnds(c) \/ Insert(c)
             \/ RecordRoot(c)
      PROVE  RowsApart'
  <2>1. UNCHANGED <<triples, del, sweep>>
    BY <1>5 DEF Begin, NextTxId, Authorize, RetractEnds, Insert, RecordRoot
  <2> QED BY <2>1 DEF RowsApart
<1>6. ASSUME ExpireRow PROVE RowsApart'
  <2>1. PICK r \in triples :
          /\ r \notin RowsLocked
          /\ sweep' = [todo |-> sweep.todo \ {r}, del |-> sweep.del \cup {r},
                       add |-> sweep.add \cup {Stamp(r, seq + 1)}]
    BY <1>6 DEF ExpireRow
  <2>2. UNCHANGED <<triples, del>> /\ sweep'.del = sweep.del \cup {r}
    BY <1>6, <2>1 DEF ExpireRow, clientVars
  <2>3. \A d \in Clients : r \notin del[d]
    BY <2>1 DEF RowsLocked
  <2> QED BY <2>2, <2>3 DEF RowsApart
<1>7. ASSUME ExpireCommits PROVE RowsApart'
  <2>1. triples' = (triples \ sweep.del) \cup sweep.add /\ sweep'.del = {} /\ UNCHANGED del
    BY <1>7 DEF ExpireCommits, NoSweep, clientVars
  <2> QED BY <2>1 DEF RowsApart
<1>8. ASSUME \/ \E E \in SUBSET Entities : ExpireBegins(E)
             \/ ExpireSkips
             \/ ExpireFails
      PROVE  RowsApart'
  <2>1. UNCHANGED <<triples, del>> /\ (sweep'.del = sweep.del \/ sweep'.del = {})
    BY <1>8 DEF ExpireBegins, ExpireSkips, ExpireFails, NoSweep, clientVars, IInv, TypeOK
  <2> QED BY <2>1 DEF RowsApart
<1> QED BY <1>1, <1>2, <1>3, <1>4, <1>5, <1>6, <1>7, <1>8 DEF Next, ClientStep, SweepStep

\* What a transaction writes carries its tx_id or replaces what it has updated.
LEMMA VersionsStep == ASSUME PInv, Next PROVE Versions'
<1> USE DEF PInv, HInv
<1> DEFINE Part(c) == \A q \in add[c] : q.tx = tx[c] \/ \E r \in del[c] : SameAssertion(q, r)
           Swept == \A q \in sweep.add : q.rtx # 0 /\ \E r \in sweep.del : SameAssertion(q, r)
<1>1. Swept /\ \A c \in Clients : Part(c)
  BY DEF Versions
<1>2. ASSUME NEW c \in Clients, ClientStep(c), NEW d \in Clients, d # c PROVE Part(d)'
  BY <1>1, <1>2, OthersUntouched
<1>3. ASSUME NEW c \in Clients, NextTxId(c) PROVE Part(c)'
  <2>1. tx[c] = 0 /\ UNCHANGED <<add, del>> /\ add[c] \in SUBSET Row
    BY <1>3 DEF NextTxId, DrawnOnce, IInv, TypeOK
  <2>2. \A q \in add[c] : q.tx # tx[c]
    BY <2>1 DEF Row
  <2> QED BY <1>1, <2>1, <2>2
<1>4. ASSUME NEW c \in Clients, RetractRow(c) PROVE Part(c)'
  <2>1. PICK p \in ToRetract(c, CurrentOp(c)) :
          /\ add' = [add EXCEPT ![c] = (@ \ {p}) \cup {Stamp(p, seq + 1)}]
          /\ del' = [del EXCEPT ![c] = @ \cup ({p} \cap triples)]
    BY <1>4 DEF RetractRow
  <2>2. p \in View(c) /\ p \in Row /\ UNCHANGED tx
    BY <1>4, RetractsLive DEF RetractRow, View, IInv, TypeOK
  <2> DEFINE q == Stamp(p, seq + 1)
  <2>3. /\ add'[c] = (add[c] \ {p}) \cup {q}
        /\ del'[c] = del[c] \cup ({p} \cap triples)
    BY <2>1 DEF IInv, TypeOK
  <2>4. SameAssertion(q, p)
    BY <2>2, StampSame
  <2> HIDE DEF q
  <2>5. q.tx = tx[c] \/ \E r \in del'[c] : SameAssertion(q, r)
    <3>3. CASE p \in add[c]
      BY <1>1, <2>3, <2>4, <3>3 DEF SameAssertion
    <3>4. CASE p \notin add[c]
      BY <2>2, <2>3, <2>4, <3>4 DEF View
    <3> QED BY <3>3, <3>4
  <2> QED BY <1>1, <2>2, <2>3, <2>5
<1>5. ASSUME NEW c \in Clients, Insert(c) PROVE Part(c)'
  <2>1. PICK inputs, b :
          /\ add' = [add EXCEPT ![c] = @ \cup Inserted(inputs, tx[c], b)]
          /\ UNCHANGED <<tx, del>>
    BY <1>5 DEF Insert
  <2>2. \A q \in Inserted(inputs, tx[c], b) : q.tx = tx[c]
    BY DEF Inserted
  <2>3. add'[c] = add[c] \cup Inserted(inputs, tx[c], b)
    BY <2>1 DEF IInv, TypeOK
  <2> QED BY <1>1, <2>1, <2>2, <2>3
<1>6. ASSUME NEW c \in Clients, Commit(c) \/ Rollback(c) \/ RetractCommits(c) PROVE Part(c)'
  <2>1. add'[c] = {}
    BY <1>6 DEF Commit, Rollback, RetractCommits, EndTransaction, IInv, TypeOK
  <2> QED BY <2>1
<1>7. ASSUME NEW c \in Clients, SetEntityTtl(c) \/ RecordRoot(c) PROVE Part(c)'
  <2>1. add'[c] = {}
    BY <1>7 DEF SetEntityTtl, RecordRoot, IInv, Closed
  <2> QED BY <2>1
<1>8. ASSUME NEW c \in Clients, Begin(c) \/ Authorize(c) \/ RetractEnds(c) PROVE Part(c)'
  <2>1. UNCHANGED <<add, del, tx>>
    BY <1>8 DEF Begin, Authorize, RetractEnds
  <2> QED BY <1>1, <2>1
<1>9. ASSUME NEW c \in Clients, ClientStep(c) PROVE Versions'
  <2>1. Part(c)'
    <3> HIDE DEF Part
    <3> QED BY <1>9, <1>3, <1>4, <1>5, <1>6, <1>7, <1>8 DEF ClientStep
  <2>2. \A d \in Clients : Part(d)'
    <3> HIDE DEF Part
    <3> QED BY <1>2, <1>9, <2>1
  <2>3. Swept'
    BY <1>1, <1>9, SweepUntouched
  <2> QED BY <2>2, <2>3 DEF Versions
<1>10. ASSUME SweepStep PROVE Versions'
  <2>1. \A d \in Clients : Part(d)'
    BY <1>1, <1>10, ClientsUntouched DEF clientVars
  <2>2. CASE ExpireRow
    <3>1. PICK r \in triples :
            sweep' = [todo |-> sweep.todo \ {r}, del |-> sweep.del \cup {r},
                      add |-> sweep.add \cup {Stamp(r, seq + 1)}]
      BY <2>2 DEF ExpireRow
    <3>2. SameAssertion(Stamp(r, seq + 1), r) /\ Stamp(r, seq + 1).rtx # 0
      <4>1. r \in Row /\ seq \in Nat
        BY DEF PInv, HInv, IInv, TypeOK
      <4>2. Stamp(r, seq + 1).rtx = seq + 1
        BY <4>1 DEF Stamp, Row
      <4> QED BY <4>1, <4>2, StampSame
    <3>3. sweep'.del = sweep.del \cup {r} /\ sweep'.add = sweep.add \cup {Stamp(r, seq + 1)}
      BY <3>1
    <3> QED BY <1>1, <2>1, <3>2, <3>3 DEF Versions
  <2>3. CASE ~ExpireRow
    <3>1. sweep'.add = {} \/ (sweep'.add = sweep.add /\ sweep'.del = sweep.del)
      BY <1>10, <2>3 DEF SweepStep, ExpireBegins, ExpireSkips, ExpireCommits, ExpireFails,
                         NoSweep, IInv, TypeOK
    <3> QED BY <1>1, <2>1, <3>1 DEF Versions
  <2> QED BY <2>2, <2>3
<1> QED BY <1>9, <1>10 DEF Next

\* No path draws a second tx_id.
LEMMA DrawnOnceStep == ASSUME IInv, DrawnOnce, Next PROVE DrawnOnce'
<1> DEFINE Part(c) ==
             \/ pc[c] = "tx"
             \/ pc[c] = "auth" /\ req[c].kind \notin {"mutate", "ws"}
             \/ pc[c] = "retract" /\ req[c].kind \in {"patch", "rewrite"}
             => tx[c] = 0
<1>1. \A c \in Clients : Part(c)
  BY DEF DrawnOnce
<1>2. ASSUME NEW c \in Clients, ClientStep(c), NEW d \in Clients, d # c PROVE Part(d)'
  BY <1>1, <1>2, OthersUntouched
<1>3. ASSUME NEW c \in Clients, Begin(c) PROVE Part(c)'
  BY <1>3 DEF Begin, IInv, Busy
<1>4. ASSUME NEW c \in Clients, NextTxId(c) PROVE Part(c)'
  <2>1. req[c].kind \in AllKinds
    BY <1>4, CurrentOpType DEF IInv, NextTxId
  <2>2. UNCHANGED req /\ pc'[c] = Route[req[c].kind].tx
    BY <1>4 DEF NextTxId, Goto, IInv, TypeOK
  <2> QED BY <2>1, <2>2 DEF Route, AllKinds
<1>5. ASSUME NEW c \in Clients, Authorize(c) PROVE Part(c)'
  <2>1. req[c].kind \in AllKinds
    BY <1>5, CurrentOpType DEF IInv, Authorize
  <2>2. UNCHANGED <<req, tx>> /\ pc[c] = "auth" /\ pc'[c] = Route[req[c].kind].auth
    BY <1>5 DEF Authorize, Goto, IInv, TypeOK
  <2> QED BY <1>1, <2>1, <2>2 DEF Route, AllKinds
<1>11. ASSUME NEW c \in Clients, RetractRow(c) PROVE Part(c)'
  <2>1. UNCHANGED <<req, pc, tx>>
    BY <1>11 DEF RetractRow
  <2> QED BY <1>1, <2>1
<1>6. ASSUME NEW c \in Clients, RetractEnds(c) \/ RetractCommits(c) PROVE Part(c)'
  <2>1. /\ UNCHANGED <<req, tx>> /\ pc[c] = "retract"
        /\ pc'[c] \in {"insert", "auth", "tx", "commit"}
        /\ pc'[c] = "auth" => req[c].kind = "ws"
        /\ pc'[c] = "tx" => req[c].kind \in {"patch", "rewrite"}
    BY <1>6 DEF RetractEnds, RetractCommits, AfterRetract, Goto, IInv, TypeOK
  <2> QED BY <1>1, <2>1
<1>7. ASSUME NEW c \in Clients, Insert(c) PROVE Part(c)'
  <2>1. UNCHANGED req /\ pc'[c] \in {"auth", "commit"} /\ (pc'[c] = "auth" => req[c].kind = "mutate")
    BY <1>7 DEF Insert, Goto, IInv, TypeOK
  <2> QED BY <2>1
<1>8. ASSUME NEW c \in Clients,
             Commit(c) \/ Rollback(c) \/ SetEntityTtl(c) \/ RecordRoot(c)
      PROVE  Part(c)'
  <2>1. pc'[c] \in {"idle", "root", "ttl"}
    BY <1>8 DEF Commit, AfterCommit, Rollback, SetEntityTtl, RecordRoot, Return, Goto,
                IInv, TypeOK
  <2> QED BY <2>1
<1>9. ASSUME NEW c \in Clients, ClientStep(c) PROVE DrawnOnce'
  <2>1. Part(c)'
    <3> HIDE DEF Part
    <3> QED BY <1>9, <1>3, <1>4, <1>5, <1>6, <1>7, <1>8, <1>11 DEF ClientStep
  <2>2. \A d \in Clients : Part(d)'
    <3> HIDE DEF Part
    <3> QED BY <1>2, <1>9, <2>1
  <2> QED BY <2>2 DEF DrawnOnce
<1>10. ASSUME SweepStep PROVE DrawnOnce'
  <2>1. UNCHANGED <<req, pc, tx>>
    BY <1>10, ClientsUntouched DEF clientVars
  <2> QED BY <2>1 DEF DrawnOnce
<1> QED BY <1>9, <1>10 DEF Next

LEMMA InitPInv == Init => PInv
<1> SUFFICES ASSUME Init PROVE PInv
  OBVIOUS
<1>1. RowsApart /\ Versions /\ DrawnOnce
  BY DEF Init, NoSweep, RowsApart, Versions, DrawnOnce
<1> QED BY <1>1, InitHInv DEF PInv

LEMMA NextPInv == PInv /\ [Next]_vars => PInv'
<1> SUFFICES ASSUME PInv, [Next]_vars PROVE PInv'
  OBVIOUS
<1>1. HInv' /\ IInv
  BY NextHInv DEF PInv, HInv
<1>2. CASE Next
  BY <1>1, <1>2, RowsApartStep, VersionsStep, DrawnOnceStep DEF PInv
<1>3. CASE UNCHANGED vars
  BY <1>1, <1>3 DEF vars, clientVars, PInv, RowsApart, Versions, DrawnOnce
<1> QED BY <1>2, <1>3

\* Point-in-time reads are repeatable, for every mix of write paths and sweeps:
\* what get_entity_at may answer for t never changes once no open transaction and
\* no sweep in progress has a tx_id or a stamp at or below t.
THEOREM SettledPastIsStable == Spec => PastIsStable
<1> DEFINE Step == \A t \in 1 .. seq : Settled(t) =>
                     \A e \in Entities : get_entity_at(triples', e, t) = get_entity_at(triples, e, t)
<1>1. PInv /\ [Next]_vars => [Step]_vars
  BY StepKeepsPast
<1>2. PastIsStable <=> [][Step]_vars
  BY DEF PastIsStable
<1> HIDE DEF Step
<1> QED BY <1>1, <1>2, InitPInv, NextPInv, PTL DEF Spec

-----------------------------------------------------------------------------
(* The REST handlers.  The argument is that of the advisory lock: a          *)
(* transaction writes only entities whose lock it holds, so what it has read *)
(* and cleared stays so until it inserts.                                    *)

RestKinds == {"mutate", "create", "patch", "delete"}

\* An entity's advisory lock has one holder.
LocksApart == \A c, d \in Clients : c # d => locks[c] \cap locks[d] = {}

\* Of the live rows among these, no two give a value to the same attribute.
KeyUnique(rows) ==
    \A r, q \in rows :
        r.rtx = 0 /\ q.rtx = 0 /\ r.ent = q.ent /\ r.attr = q.attr => r = q

\* No live row among these gives a value to attribute a of entity e.
Absent(rows, e, a) == \A r \in rows : ~(r.rtx = 0 /\ r.ent = e /\ r.attr = a)

Empty(rows, e) == \A r \in rows : ~(r.rtx = 0 /\ r.ent = e)

\* A transaction writes, and prepares to write, entities it holds the lock of.
Within ==
    \A c \in Clients :
        /\ \A r \in add[c] \cup del[c] : r.ent \in locks[c]
        /\ \A i \in buf[c] : i[1] \in locks[c]

\* A tx_id belongs to one transaction until it commits.
TxOwned ==
    \A c \in Clients :
        tx[c] # 0 /\ pc[c] \notin {"ttl", "root"} =>
            /\ \A r \in triples : r.tx # tx[c]
            /\ \A d \in Clients \ {c} : tx[d] # tx[c] /\ \A r \in add[d] : r.tx # tx[c]

\* The live rows a transaction has written are those it has inserted.
OwnRows == \A c \in Clients : \A r \in add[c] : r.rtx = 0 => r.tx = tx[c]

\* The tx_id is drawn once.
TxLate ==
    \A c \in Clients :
        \/ pc[c] = "tx"
        \/ pc[c] = "auth" /\ req[c].kind \in {"create", "patch", "delete"}
        \/ pc[c] = "retract" /\ req[c].kind = "patch"
        => tx[c] = 0

\* A create is one insert, a patch one update.
SingleOps ==
    \A c \in Clients :
        /\ req[c].kind \in {"create", "patch"} => Len(req[c].ops) = 1
        /\ req[c].kind = "create" => req[c].ops[1].op = "insert"
        /\ req[c].kind = "patch" => req[c].ops[1].op = "update"

\* What authorize_mutation found about the entity is still so.
AuthorizedStill ==
    \A c \in Clients :
        \/ pc[c] = "retract"
        \/ pc[c] \in {"tx", "insert"} /\ req[c].kind = "create"
        \/ pc[c] = "tx" /\ req[c].kind = "delete"
        => /\ CurrentOp(c).ent \in locks[c]
           /\ CurrentOp(c).op = "insert" => creating[c]
           /\ creating[c] => Empty(View(c), CurrentOp(c).ent)

\* What is about to be inserted has no live value, and occurs once.  (A delete
\* inserts nothing.)
Cleared ==
    \A c \in Clients :
        \/ buf[c] = {}
        \/ pc[c] = "commit" /\ req[c].kind = "delete"
        \/ /\ pc[c] = "insert" \/ (pc[c] = "tx" /\ req[c].kind = "patch")
           /\ \A i \in buf[c] : Absent(View(c), i[1], i[2])
           /\ \A i, j \in buf[c] : i[1] = j[1] /\ i[2] = j[2] => i = j

Unique == KeyUnique(triples) /\ \A c \in Clients : KeyUnique(View(c))

RInv ==
    /\ LocksApart /\ Within
    /\ TxOwned /\ OwnRows /\ TxLate
    /\ SingleOps /\ AuthorizedStill /\ Cleared
    /\ Unique

-----------------------------------------------------------------------------

\* The request of a busy client comes through one of the REST handlers.
LEMMA RestKind ==
    ASSUME Kinds \subseteq RestKinds, IInv, NEW c \in Clients, pc[c] # "idle"
    PROVE  req[c].kind \in RestKinds /\ req[c].ttl \in BOOLEAN
BY RequestShape DEF IInv, Busy, Requests

LEMMA RestBegin ==
    ASSUME Kinds \subseteq RestKinds, IInv, RInv, NEW c \in Clients, Begin(c)
    PROVE  RInv'
<1>1. PICK r \in Requests :
        /\ Admissible(r)
        /\ req' = [req EXCEPT ![c] = r]
        /\ pc' = [pc EXCEPT ![c] = IF r.kind \in {"mutate", "ws"} THEN "tx"
                                   ELSE IF r.kind = "rewrite" THEN "retract" ELSE "auth"]
  BY DEF Begin, Goto
<1>2. /\ pc[c] = "idle"
      /\ UNCHANGED <<triples, seq, pos, tx, creating, buf, del, add, locks, notified, roots>>
  BY DEF Begin
<1>3. r.kind \in RestKinds
  BY DEF Requests
<1>4. tx[c] = 0 /\ buf[c] = {}
  BY <1>2 DEF IInv, Busy
<1>5. \A d \in Clients : View(d)' = View(d)
  BY <1>2 DEF View
<1>6. LocksApart' /\ Within' /\ OwnRows'
  BY <1>2 DEF RInv, LocksApart, Within, OwnRows
<1>7. TxOwned' /\ TxLate'
  BY <1>1, <1>2, <1>3, <1>4 DEF RInv, IInv, TypeOK, TxOwned, TxLate, RestKinds
<1>8. SingleOps'
  BY <1>1, <1>3 DEF RInv, IInv, TypeOK, SingleOps, Admissible, RestKinds
<1>9. AuthorizedStill'
  <2>1. \A d \in Clients \ {c} : CurrentOp(d)' = CurrentOp(d)
    BY <1>1, <1>2 DEF CurrentOp, IInv, TypeOK
  <2> QED BY <1>1, <1>2, <1>3, <1>5, <2>1 DEF RInv, IInv, TypeOK, AuthorizedStill, Empty, RestKinds
<1>10. Cleared'
  BY <1>1, <1>2, <1>3, <1>4, <1>5 DEF RInv, IInv, TypeOK, Cleared, Absent, RestKinds
<1>11. Unique'
  BY <1>2, <1>5 DEF RInv, Unique, KeyUnique
<1> QED BY <1>6, <1>7, <1>8, <1>9, <1>10, <1>11 DEF RInv

LEMMA RestNextTxId ==
    ASSUME Kinds \subseteq RestKinds, IInv, RInv, NEW c \in Clients, NextTxId(c)
    PROVE  RInv'
<1>1. /\ pc[c] = "tx"
      /\ seq' = seq + 1
      /\ tx' = [tx EXCEPT ![c] = seq + 1]
      /\ pc' = [pc EXCEPT ![c] = Route[req[c].kind].tx]
      /\ UNCHANGED <<triples, req, pos, creating, buf, del, add, locks>>
  BY DEF NextTxId, Goto
<1>2. req[c].kind \in RestKinds
  BY <1>1, RestKind
<1>3. \A d \in Clients : View(d)' = View(d) /\ CurrentOp(d)' = CurrentOp(d)
  BY <1>1 DEF View, CurrentOp
<1>4. LocksApart' /\ Within'
  BY <1>1 DEF RInv, LocksApart, Within
<1>5. tx[c] = 0
  BY <1>1 DEF RInv, TxLate
<1>6. \A d \in Clients : tx[d] \in Nat /\ tx[d] < seq + 1 /\ seq + 1 \in Nat
  BY DEF IInv, TypeOK, TxDrawn
<1>7. \A r \in triples : r.tx # seq + 1
  BY DEF IInv, TypeOK, AllSound, Sound, Row
<1>8. \A d \in Clients : \A r \in add[d] : r.tx # seq + 1 /\ r.tx # 0
  BY DEF IInv, TypeOK, AllSound, Sound, Row
<1>9. TxOwned'
  BY <1>1, <1>2, <1>6, <1>7, <1>8 DEF RInv, IInv, TypeOK, TxOwned
<1>10. OwnRows'
  BY <1>1, <1>5, <1>8 DEF RInv, IInv, TypeOK, OwnRows
<1>11. TxLate'
  BY <1>1, <1>2 DEF RInv, IInv, TypeOK, TxLate, RestKinds, Route
<1>12. SingleOps'
  BY <1>1 DEF RInv, SingleOps
<1>13. AuthorizedStill'
  BY <1>1, <1>2, <1>3 DEF RInv, IInv, TypeOK, AuthorizedStill, Empty, RestKinds, Route
<1>14. Cleared'
  BY <1>1, <1>2, <1>3 DEF RInv, IInv, TypeOK, Cleared, Absent, RestKinds, Route
<1>15. Unique'
  BY <1>1, <1>3 DEF RInv, Unique, KeyUnique
<1> QED BY <1>4, <1>9, <1>10, <1>11, <1>12, <1>13, <1>14, <1>15 DEF RInv

LEMMA RestAuthorize ==
    ASSUME Kinds \subseteq RestKinds, IInv, RInv, NEW c \in Clients, Authorize(c)
    PROVE  RInv'
<1> DEFINE o == CurrentOp(c)
<1>1. /\ pc[c] = "auth"
      /\ \A d \in Clients \ {c} : o.ent \notin locks[d]
      /\ Authorized(c, o)
      /\ locks' = [locks EXCEPT ![c] = @ \cup {o.ent}]
      /\ creating' = [creating EXCEPT ![c] = (get_entity(View(c), o.ent) = {})]
      /\ pc' = [pc EXCEPT ![c] = Route[req[c].kind].auth]
      /\ UNCHANGED <<triples, seq, req, pos, tx, buf, del, add>>
  BY DEF Authorize, Goto
<1>2. req[c].kind \in RestKinds
  BY <1>1, RestKind
<1>3. \A d \in Clients : View(d)' = View(d) /\ CurrentOp(d)' = CurrentOp(d)
  BY <1>1 DEF View, CurrentOp
<1>4. (get_entity(View(c), o.ent) = {}) <=> Empty(View(c), o.ent)
  BY DEF get_entity, Live, Empty
<1>5. o.op = "insert" => get_entity(View(c), o.ent) = {}
  BY <1>1 DEF Authorized
<1> HIDE DEF o
<1>6. LocksApart' /\ Within'
  BY <1>1 DEF RInv, IInv, TypeOK, LocksApart, Within
<1>7. TxOwned' /\ OwnRows' /\ TxLate' /\ SingleOps'
  BY <1>1, <1>2 DEF RInv, IInv, TypeOK, TxOwned, OwnRows, TxLate, SingleOps, RestKinds, Route
<1>8. AuthorizedStill'
  <2> SUFFICES ASSUME NEW d \in Clients PROVE AuthorizedStill!(d)'
    BY DEF AuthorizedStill
  <2>1. CASE d = c
    BY <1>1, <1>3, <1>4, <1>5, <2>1 DEF o, IInv, TypeOK, Empty
  <2>2. CASE d # c
    BY <1>1, <1>3, <2>2 DEF RInv, IInv, TypeOK, AuthorizedStill, Empty
  <2> QED BY <2>1, <2>2
<1>9. Cleared'
  BY <1>1, <1>2, <1>3 DEF RInv, IInv, TypeOK, Cleared, Absent, RestKinds, Route
<1>10. Unique'
  BY <1>1, <1>3 DEF RInv, Unique, KeyUnique
<1> QED BY <1>6, <1>7, <1>8, <1>9, <1>10 DEF RInv

\* A stamped row is the row it stamps, no longer live.
LEMMA StampedKey ==
    ASSUME TypeOK, NEW r \in Row
    PROVE  LET s == Stamp(r, seq + 1) IN
           s.rtx # 0 /\ s.ent = r.ent /\ s.attr = r.attr /\ s.tx = r.tx
BY DEF TypeOK, Row, Stamp

LEMMA RestRetractRow ==
    ASSUME Kinds \subseteq RestKinds, IInv, RInv, NEW c \in Clients, RetractRow(c)
    PROVE  RInv'
<1> DEFINE o == CurrentOp(c)
<1>1. pc[c] = "retract" /\ req[c].kind \in RestKinds
  BY RestKind DEF RetractRow
<1>2. PICK r \in ToRetract(c, o) :
        /\ add' = [add EXCEPT ![c] = (@ \ {r}) \cup {Stamp(r, seq + 1)}]
        /\ del' = [del EXCEPT ![c] = @ \cup ({r} \cap triples)]
  BY DEF RetractRow
<1>3. UNCHANGED <<triples, req, pc, pos, tx, creating, buf, locks>>
  BY DEF RetractRow
<1>4. r \in View(c) /\ r \in Row /\ r.ent = o.ent /\ r.rtx = 0
  BY <1>1, <1>2, SeenRows
<1> DEFINE s == Stamp(r, seq + 1)
<1>5. s.rtx # 0 /\ s.ent = r.ent /\ s.attr = r.attr /\ s.tx = r.tx
  BY <1>4, StampedKey DEF IInv
<1>6. o.ent \in locks[c] /\ buf[c] = {}
  BY <1>1 DEF RInv, AuthorizedStill, Cleared
<1> HIDE DEF o, s
<1>7. /\ add'[c] = (add[c] \ {r}) \cup {s}
      /\ del'[c] = del[c] \cup ({r} \cap triples)
      /\ \A d \in Clients \ {c} : add'[d] = add[d] /\ del'[d] = del[d]
  BY <1>2 DEF IInv, TypeOK, s
<1>8. \A q \in View(c)' : q.rtx = 0 => q \in View(c)
  BY <1>3, <1>5, <1>7 DEF View
<1>9. /\ \A d \in Clients \ {c} : View(d)' = View(d)
      /\ \A d \in Clients : CurrentOp(d)' = CurrentOp(d)
  BY <1>3, <1>7 DEF View, CurrentOp
<1>10. LocksApart' /\ Within' /\ OwnRows'
  BY <1>3, <1>4, <1>5, <1>6, <1>7 DEF RInv, LocksApart, Within, OwnRows
<1>11. TxOwned'
  <2>1. ASSUME NEW d \in Clients \ {c}, tx[d] # 0, pc[d] \notin {"ttl", "root"}, NEW q \in add'[c]
        PROVE  q.tx # tx[d]
    <3>1. \A p \in View(c) : p.tx # tx[d]
      BY <2>1 DEF RInv, TxOwned, View
    <3>2. \A p \in add[c] : p.tx # tx[d]
      BY <2>1 DEF RInv, TxOwned
    <3> QED BY <1>4, <1>5, <1>7, <3>1, <3>2
  <2> QED BY <1>3, <1>7, <2>1 DEF RInv, TxOwned
<1>12. TxLate' /\ SingleOps'
  BY <1>3 DEF RInv, TxLate, SingleOps
<1>13. AuthorizedStill'
  BY <1>3, <1>8, <1>9 DEF RInv, AuthorizedStill, Empty
<1>14. Cleared'
  BY <1>3, <1>6, <1>9 DEF RInv, Cleared, Absent
<1>15. Unique'
  BY <1>3, <1>8, <1>9 DEF RInv, Unique, KeyUnique
<1> QED BY <1>10, <1>11, <1>12, <1>13, <1>14, <1>15 DEF RInv

LEMMA RestRetractEnds ==
    ASSUME Kinds \subseteq RestKinds, IInv, RInv, NEW c \in Clients, RetractEnds(c)
    PROVE  RInv'
<1> DEFINE o == CurrentOp(c)
           new == InputsOf(o, creating[c], pos[c])
<1>1. pc[c] = "retract" /\ o \in Op /\ req[c].kind \in RestKinds
  BY CurrentOpType, RestKind DEF IInv, RetractEnds
<1>3. /\ buf' = [buf EXCEPT ![c] = @ \cup new]
      /\ UNCHANGED <<triples, req, tx, creating, del, add, locks>>
  BY DEF RetractEnds
<1>4. PICK label \in {"tx", "insert", "commit"} :
        /\ pc' = [pc EXCEPT ![c] = label] /\ UNCHANGED pos
        /\ label = "tx" => req[c].kind = "patch"
        /\ label = "commit" => req[c].kind = "delete" \/ (req[c].kind = "patch" /\ o.attrs = {})
  BY <1>1 DEF RetractEnds, AfterRetract, Goto, RestKinds
<1>5. ToRetract(c, o) = {}
  BY DEF RetractEnds
<1>7. /\ o.ent \in locks[c] /\ buf[c] = {}
      /\ o.op = "insert" => creating[c]
      /\ creating[c] => Empty(View(c), o.ent)
  BY <1>1 DEF RInv, AuthorizedStill, Cleared
<1>8. \A i \in new : i[1] = o.ent /\ Absent(View(c), i[1], i[2])
  <2>1. \A i \in new : i[1] = o.ent /\ o.op # "delete" /\ (creating[c] \/ i[2] \in o.attrs)
    BY <1>7 DEF InputsOf
  <2>2. o.op # "delete" /\ ~creating[c] =>
          \A r \in View(c) : ~(r.rtx = 0 /\ r.ent = o.ent /\ r.attr \in o.attrs)
    BY <1>5, <1>7 DEF ToRetract, get_entity, Live
  <2> QED BY <1>7, <2>1, <2>2 DEF Empty, Absent
<1>9. \A i, j \in new : i[1] = j[1] /\ i[2] = j[2] => i = j
  BY DEF InputsOf
<1>9a. req[c].kind = "patch" /\ o.attrs = {} => new = {}
  <2> SUFFICES ASSUME req[c].kind = "patch", o.attrs = {} PROVE new = {}
    OBVIOUS
  <2>1. pos[c] \in 1 .. Len(req[c].ops)
    BY <1>1 DEF IInv, Busy
  <2>2. Len(req[c].ops) = 1
    BY DEF RInv, SingleOps
  <2>3. pos[c] = 1
    BY <2>1, <2>2
  <2>4. o.op = "update"
    BY <2>3 DEF RInv, SingleOps, CurrentOp
  <2> QED BY <2>4 DEF InputsOf
<1> HIDE DEF o, new
<1>10. \A d \in Clients : View(d)' = View(d) /\ CurrentOp(d)' = CurrentOp(d)
  BY <1>3, <1>4 DEF View, CurrentOp
<1>12. LocksApart' /\ Within'
  <2>2. \A i \in buf'[c] : i[1] \in locks[c]
    BY <1>3, <1>7, <1>8 DEF RInv, Within, IInv, TypeOK
  <2> QED BY <1>3, <2>2 DEF RInv, LocksApart, Within, IInv, TypeOK
<1>13. OwnRows'
  BY <1>3 DEF RInv, OwnRows
<1>14. TxOwned'
  BY <1>1, <1>3, <1>4 DEF RInv, TxOwned, IInv, TypeOK
<1>15. TxLate' /\ SingleOps'
  BY <1>1, <1>3, <1>4 DEF RInv, TxLate, SingleOps, IInv, TypeOK
<1>16. AuthorizedStill'
  <2> SUFFICES ASSUME NEW d \in Clients PROVE AuthorizedStill!(d)'
    BY DEF AuthorizedStill
  <2>1. CASE d = c
    <3>1. req[c].kind # "create"
      BY <1>1 DEF RetractEnds, AfterRetract, RestKinds
    <3>2. req[c].kind = "delete" => label # "tx"
      BY <1>4
    <3> QED BY <1>3, <1>4, <2>1, <3>1, <3>2 DEF IInv, TypeOK
  <2>2. CASE d # c
    BY <1>3, <1>4, <1>10, <2>2 DEF RInv, AuthorizedStill, Empty, IInv, TypeOK
  <2> QED BY <2>1, <2>2
<1>17. Cleared'
  <2> SUFFICES ASSUME NEW d \in Clients PROVE Cleared!(d)'
    BY DEF Cleared
  <2>1. CASE d = c
    <3>1. buf'[c] = new
      BY <1>3, <1>7 DEF IInv, TypeOK
    <3>2. \A i \in new : Absent(View(c)', i[1], i[2])
      BY <1>8, <1>10 DEF Absent
    <3> QED BY <1>1, <1>3, <1>4, <1>9, <1>9a, <2>1, <3>1, <3>2 DEF Absent, IInv, TypeOK
  <2>2. CASE d # c
    BY <1>3, <1>4, <1>10, <2>2 DEF RInv, Cleared, Absent, IInv, TypeOK
  <2> QED BY <2>1, <2>2
<1>18. Unique'
  BY <1>3, <1>10 DEF RInv, Unique, KeyUnique
<1> QED BY <1>12, <1>13, <1>14, <1>15, <1>16, <1>17, <1>18 DEF RInv

LEMMA RestInsert ==
    ASSUME Kinds \subseteq RestKinds, IInv, RInv, NEW c \in Clients, Insert(c)
    PROVE  RInv'
<1> DEFINE inputs == InsertInputs(c)
           rows == Inserted(inputs, tx[c], req[c].kind = "create" /\ req[c].ttl)
<1>1. /\ pc[c] = "insert"
      /\ add' = [add EXCEPT ![c] = @ \cup rows]
      /\ buf' = [buf EXCEPT ![c] = {}]
      /\ UNCHANGED <<triples, seq, req, tx, creating, del, locks, notified, roots, served, sweep>>
  BY DEF Insert
<1>2. PICK label \in {"auth", "commit"} :
        /\ pc' = [pc EXCEPT ![c] = label]
        /\ label = "auth" => req[c].kind = "mutate"
        /\ \E n \in Nat : pos' = [pos EXCEPT ![c] = n]
  BY DEF Insert, Goto, IInv, TypeOK
<1>3. /\ \A i \in inputs : i[1] \in locks[c] /\ Absent(View(c), i[1], i[2])
      /\ \A i, j \in inputs : i[1] = j[1] /\ i[2] = j[2] => i = j
  <2>1. CASE req[c].kind = "create"
    <3>1. pos[c] = 1
      <4>1. pos[c] \in 1 .. Len(req[c].ops)
        BY <1>1 DEF IInv, Busy
      <4>2. Len(req[c].ops) = 1
        BY <2>1 DEF RInv, SingleOps
      <4> QED BY <4>1, <4>2
    <3>2. CurrentOp(c).ent \in locks[c] /\ Empty(View(c), CurrentOp(c).ent)
      BY <1>1, <2>1, <3>1 DEF RInv, AuthorizedStill, SingleOps, CurrentOp
    <3> QED BY <2>1, <3>2 DEF InsertInputs, InputsOf, Empty, Absent
  <2>2. CASE req[c].kind # "create"
    BY <1>1, <2>2 DEF RInv, Within, Cleared, InsertInputs
  <2> QED BY <2>1, <2>2
<1>4. \A r \in rows : /\ r.tx = tx[c] /\ r.rtx = 0
                      /\ \E i \in inputs : r.ent = i[1] /\ r.attr = i[2]
  BY DEF Inserted
<1>5. \A r, q \in rows : r.ent = q.ent /\ r.attr = q.attr => r = q
  BY <1>3 DEF Inserted
<1>6. tx[c] # 0
  BY <1>1 DEF IInv, TxDrawn
<1> HIDE DEF inputs, rows
<1>7. View(c)' = View(c) \cup rows
  BY <1>1 DEF View, IInv, TypeOK
<1>8. \A d \in Clients \ {c} : View(d)' = View(d) /\ CurrentOp(d)' = CurrentOp(d)
  BY <1>1, <1>2 DEF View, CurrentOp, IInv, TypeOK
<1>9. LocksApart' /\ Within'
  BY <1>1, <1>3, <1>4 DEF RInv, LocksApart, Within, IInv, TypeOK
<1>10. OwnRows' /\ TxLate' /\ SingleOps'
  BY <1>1, <1>2, <1>4 DEF RInv, OwnRows, TxLate, SingleOps, IInv, TypeOK
<1>11. TxOwned'
  BY <1>1, <1>2, <1>4, <1>6 DEF RInv, TxOwned, IInv, TypeOK
<1>12. AuthorizedStill'
  BY <1>1, <1>2, <1>8 DEF RInv, AuthorizedStill, Empty, IInv, TypeOK
<1>13. Cleared'
  BY <1>1, <1>2, <1>8 DEF RInv, Cleared, Absent, IInv, TypeOK
<1>14. Unique'
  <2>1. KeyUnique(View(c))'
    BY <1>3, <1>4, <1>5, <1>7 DEF RInv, Unique, KeyUnique, Absent
  <2> QED BY <1>1, <1>8, <2>1 DEF RInv, Unique, KeyUnique
<1> QED BY <1>9, <1>10, <1>11, <1>12, <1>13, <1>14 DEF RInv

\* Rows of entities another client has locked do not change when c commits.
LEMMA CommittedViews ==
    ASSUME IInv, RInv, NEW c \in Clients, Commit(c), NEW d \in Clients \ {c}
    PROVE  \A r \in View(d)' : IF r.ent \in locks[d] THEN r \in View(d) ELSE r \in View(c)
<1>1. /\ triples' = (triples \ del[c]) \cup add[c]
      /\ add'[d] = add[d] /\ del'[d] = del[d]
  BY DEF Commit, EndTransaction, View, IInv, TypeOK
<1>2. \A r \in add[c] : r.ent \notin locks[d]
  BY DEF RInv, Within, LocksApart
<1>3. \A r \in add[d] : r.ent \in locks[d]
  BY DEF RInv, Within
<1> QED BY <1>1, <1>2, <1>3 DEF View

LEMMA RestCommit ==
    ASSUME Kinds \subseteq RestKinds, IInv, RInv, NEW c \in Clients, Commit(c)
    PROVE  RInv'
<1>1. /\ pc[c] = "commit"
      /\ triples' = View(c)
      /\ del' = [del EXCEPT ![c] = {}]
      /\ add' = [add EXCEPT ![c] = {}]
      /\ locks' = [locks EXCEPT ![c] = {}]
  BY DEF Commit, EndTransaction
<1>2. req[c].kind \in RestKinds
  BY <1>1, RestKind
<1>3. \/ /\ pc' = [pc EXCEPT ![c] = "ttl"] /\ req[c].kind = "patch"
         /\ UNCHANGED <<req, pos, tx, creating, buf>>
      \/ Return(c)
  BY <1>2 DEF Commit, AfterCommit, Goto, RestKinds
<1>4. /\ pc'[c] \in {"ttl", "idle"}
      /\ req'[c] = req[c] \/ req'[c] = NoReq
      /\ tx'[c] = tx[c] \/ tx'[c] = 0
      /\ buf'[c] = buf[c] \/ buf'[c] = {}
      /\ pc'[c] = "idle" => buf'[c] = {} /\ tx'[c] = 0
  BY <1>3 DEF Return, Goto, IInv, TypeOK
<1>5. \A d \in Clients \ {c} :
        /\ pc'[d] = pc[d] /\ req'[d] = req[d] /\ pos'[d] = pos[d] /\ tx'[d] = tx[d]
        /\ creating'[d] = creating[d] /\ buf'[d] = buf[d] /\ locks'[d] = locks[d]
        /\ add'[d] = add[d] /\ del'[d] = del[d] /\ CurrentOp(d)' = CurrentOp(d)
  BY <1>1, <1>3 DEF Return, Goto, CurrentOp, IInv, TypeOK
<1>6. add'[c] = {} /\ del'[c] = {} /\ locks'[c] = {}
  BY <1>1 DEF IInv, TypeOK
<1>7. buf'[c] = {}
  <2>1. Return(c) \/ req[c].kind = "patch"
    BY <1>3
  <2>2. req[c].kind = "patch" => buf[c] = {}
    BY <1>1 DEF RInv, Cleared
  <2> QED BY <1>4, <2>1, <2>2 DEF Return, IInv, TypeOK
<1>8. LocksApart' /\ Within' /\ OwnRows'
  BY <1>5, <1>6, <1>7 DEF RInv, LocksApart, Within, OwnRows
<1>9. TxOwned'
  <2>1. ASSUME NEW d \in Clients \ {c}, tx[d] # 0, pc[d] \notin {"ttl", "root"}, NEW r \in View(c)
        PROVE  r.tx # tx[d]
    BY <2>1 DEF RInv, TxOwned, View
  <2> QED BY <1>1, <1>4, <1>5, <1>6, <2>1 DEF RInv, TxOwned
<1>10. TxLate' /\ SingleOps'
  BY <1>4, <1>5 DEF RInv, TxLate, SingleOps, NoReq
<1>11. \A d \in Clients \ {c} :
         \A r \in View(d)' : IF r.ent \in locks[d] THEN r \in View(d) ELSE r \in View(c)
  BY CommittedViews
<1>12. AuthorizedStill'
  BY <1>4, <1>5, <1>11 DEF RInv, AuthorizedStill, Empty
<1>13. Cleared'
  BY <1>4, <1>5, <1>7, <1>11 DEF RInv, Cleared, Within, Absent
<1>14. Unique'
  <2>1. View(c)' = triples'
    BY <1>6 DEF View
  <2> QED BY <1>1, <1>11, <2>1 DEF RInv, Unique, KeyUnique
<1> QED BY <1>8, <1>9, <1>10, <1>12, <1>13, <1>14 DEF RInv

LEMMA RestRollback ==
    ASSUME Kinds \subseteq RestKinds, IInv, RInv, NEW c \in Clients, Rollback(c)
    PROVE  RInv'
<1>1. /\ pc' = [pc EXCEPT ![c] = "idle"]
      /\ req' = [req EXCEPT ![c] = NoReq]
      /\ pos' = [pos EXCEPT ![c] = 1]
      /\ tx' = [tx EXCEPT ![c] = 0]
      /\ creating' = [creating EXCEPT ![c] = FALSE]
      /\ buf' = [buf EXCEPT ![c] = {}]
      /\ del' = [del EXCEPT ![c] = {}]
      /\ add' = [add EXCEPT ![c] = {}]
      /\ locks' = [locks EXCEPT ![c] = {}]
      /\ UNCHANGED triples
  BY DEF Rollback, EndTransaction, Return, Goto
<1>2. \A d \in Clients \ {c} : View(d)' = View(d) /\ CurrentOp(d)' = CurrentOp(d)
  BY <1>1 DEF View, CurrentOp, IInv, TypeOK
<1>3. View(c)' = triples
  BY <1>1 DEF View, IInv, TypeOK
<1>4. LocksApart' /\ Within' /\ OwnRows'
  BY <1>1 DEF RInv, LocksApart, Within, OwnRows, IInv, TypeOK
<1>5. TxOwned' /\ TxLate' /\ SingleOps'
  BY <1>1 DEF RInv, TxOwned, TxLate, SingleOps, NoReq, IInv, TypeOK
<1>6. AuthorizedStill'
  BY <1>1, <1>2 DEF RInv, AuthorizedStill, Empty, IInv, TypeOK
<1>7. Cleared'
  BY <1>1, <1>2 DEF RInv, Cleared, Absent, IInv, TypeOK
<1>8. Unique'
  BY <1>1, <1>2, <1>3 DEF RInv, Unique, KeyUnique
<1> QED BY <1>4, <1>5, <1>6, <1>7, <1>8 DEF RInv

\* A client that has committed returns; the others see no difference.
LEMMA RestRecordRoot ==
    ASSUME Kinds \subseteq RestKinds, IInv, RInv, NEW c \in Clients, RecordRoot(c)
    PROVE  RInv'
<1>1. /\ pc[c] = "root"
      /\ pc' = [pc EXCEPT ![c] = "idle"]
      /\ req' = [req EXCEPT ![c] = NoReq]
      /\ pos' = [pos EXCEPT ![c] = 1]
      /\ tx' = [tx EXCEPT ![c] = 0]
      /\ creating' = [creating EXCEPT ![c] = FALSE]
      /\ buf' = [buf EXCEPT ![c] = {}]
      /\ UNCHANGED <<triples, del, add, locks>>
  BY DEF RecordRoot, Return, Goto
<1>2. \A d \in Clients : View(d)' = View(d)
  BY <1>1 DEF View
<1>3. \A d \in Clients \ {c} : CurrentOp(d)' = CurrentOp(d)
  BY <1>1 DEF CurrentOp, IInv, TypeOK
<1>4. add[c] = {}
  BY <1>1 DEF IInv, Closed
<1>5. LocksApart' /\ Within' /\ OwnRows'
  BY <1>1, <1>4 DEF RInv, LocksApart, Within, OwnRows, IInv, TypeOK
<1>6. TxOwned' /\ TxLate' /\ SingleOps'
  BY <1>1 DEF RInv, TxOwned, TxLate, SingleOps, NoReq, IInv, TypeOK
<1>7. AuthorizedStill'
  BY <1>1, <1>2, <1>3 DEF RInv, AuthorizedStill, Empty, IInv, TypeOK
<1>8. Cleared'
  BY <1>1, <1>2 DEF RInv, Cleared, Absent, IInv, TypeOK
<1>9. Unique'
  BY <1>1, <1>2 DEF RInv, Unique, KeyUnique
<1> QED BY <1>5, <1>6, <1>7, <1>8, <1>9 DEF RInv

LEMMA RestSetEntityTtl ==
    ASSUME Kinds \subseteq RestKinds, IInv, RInv, NEW c \in Clients, SetEntityTtl(c)
    PROVE  RInv'
<1> DEFINE rows == get_entity(triples, CurrentOp(c).ent)
<1>1. /\ pc[c] = "ttl"
      /\ pc' = [pc EXCEPT ![c] = "idle"]
      /\ req' = [req EXCEPT ![c] = NoReq]
      /\ pos' = [pos EXCEPT ![c] = 1]
      /\ tx' = [tx EXCEPT ![c] = 0]
      /\ creating' = [creating EXCEPT ![c] = FALSE]
      /\ buf' = [buf EXCEPT ![c] = {}]
      /\ UNCHANGED <<del, add, locks>>
  BY DEF SetEntityTtl, Return, Goto
<1>2. PICK ttl \in BOOLEAN : triples' = (triples \ rows) \cup WithTtl(rows, ttl)
  BY DEF SetEntityTtl
<1>3. /\ rows \subseteq triples /\ \A r \in rows : r.rtx = 0
      /\ \A d \in Clients : rows \cap del[d] = {}
  BY DEF SetEntityTtl, RowsLocked, get_entity, Live
<1> HIDE DEF rows
<1>4. rows \in SUBSET Row
  BY <1>3 DEF IInv, TypeOK
<1>5. /\ \A r \in WithTtl(rows, ttl) : \E q \in rows : r = SetTtl(q, ttl)
      /\ \A q \in rows : /\ SetTtl(q, ttl).ent = q.ent /\ SetTtl(q, ttl).attr = q.attr
                         /\ SetTtl(q, ttl).tx = q.tx /\ SetTtl(q, ttl).rtx = q.rtx
  BY <1>4, TtlRows
<1>6. add[c] = {} /\ del[c] = {}
  BY <1>1 DEF IInv, Closed
<1>7. \A d \in Clients \ {c} : CurrentOp(d)' = CurrentOp(d)
  BY <1>1 DEF CurrentOp, IInv, TypeOK
\* Every row a client sees now stands for one it saw, under the same key.
<1>8. ASSUME NEW d \in Clients, NEW r \in View(d)'
      PROVE  \/ r \in View(d) /\ r \notin rows
             \/ \E q \in rows : q \in View(d) /\ r = SetTtl(q, ttl)
  <2>1. CASE r \in add[d]
    <3>1. r \notin triples \/ r.rtx # 0
      <4>1. d # c
        BY <1>6, <2>1
      <4>2. pc[d] \notin {"ttl", "root"} /\ r.tx # 0
        BY <2>1 DEF IInv, TypeOK, Closed, Row
      <4> QED BY <2>1, <4>2 DEF RInv, OwnRows, TxOwned
    <3> QED BY <1>3, <2>1, <3>1 DEF View
  <2>2. CASE r \notin add[d]
    BY <1>1, <1>2, <1>3, <1>5, <1>8, <2>2 DEF View
  <2> QED BY <2>1, <2>2
<1>9. \A d \in Clients : \A e : Empty(View(d), e) => Empty(View(d), e)'
  BY <1>5, <1>8 DEF Empty
<1>10. \A d \in Clients : \A e, a : Absent(View(d), e, a) => Absent(View(d), e, a)'
  BY <1>5, <1>8 DEF Absent
<1>11. \A d \in Clients : KeyUnique(View(d))'
  BY <1>5, <1>8 DEF RInv, Unique, KeyUnique
<1>12. View(c)' = triples'
  BY <1>1, <1>6 DEF View
<1>13. LocksApart' /\ Within' /\ OwnRows'
  BY <1>1, <1>6 DEF RInv, LocksApart, Within, OwnRows, IInv, TypeOK
<1>14. TxOwned'
  <2>1. \A r \in triples' : \E q \in triples : r.tx = q.tx
    BY <1>2, <1>3, <1>5
  <2> QED BY <1>1, <2>1 DEF RInv, TxOwned, IInv, TypeOK
<1>15. TxLate' /\ SingleOps'
  BY <1>1 DEF RInv, TxLate, SingleOps, NoReq, IInv, TypeOK
<1>16. AuthorizedStill'
  BY <1>1, <1>7, <1>9 DEF RInv, AuthorizedStill, IInv, TypeOK
<1>17. Cleared'
  BY <1>1, <1>10 DEF RInv, Cleared, IInv, TypeOK
<1>18. Unique'
  BY <1>11, <1>12 DEF Unique, KeyUnique
<1> QED BY <1>13, <1>14, <1>15, <1>16, <1>17, <1>18 DEF RInv

\* The commit of a sweep retracts rows; its other steps change no table row.
LEMMA RestSweep ==
    ASSUME PInv, RInv, SweepStep
    PROVE  RInv'
<1>1. UNCHANGED clientVars
  BY ClientsUntouched
<1>2. \A r \in triples' : /\ r.rtx = 0 => r \in triples
                          /\ \E q \in triples : r.tx = q.tx
  <2>1. CASE ExpireCommits
    <3>1. triples' = (triples \ sweep.del) \cup sweep.add
      BY <2>1 DEF ExpireCommits
    <3>2. \A r \in sweep.add : r.rtx # 0 /\ \E q \in triples : r.tx = q.tx
      BY DEF PInv, Versions, RowsApart, SameAssertion
    <3> QED BY <3>1, <3>2
  <2>2. CASE ~ExpireCommits
    <3>1. UNCHANGED triples
      BY <2>2 DEF SweepStep, ExpireBegins, ExpireRow, ExpireSkips, ExpireFails
    <3> QED BY <3>1
  <2> QED BY <2>1, <2>2
<1>6. \A d \in Clients : \A r \in View(d)' : r.rtx = 0 => r \in View(d)
  BY <1>1, <1>2 DEF View, clientVars
<1>7. \A d \in Clients : CurrentOp(d)' = CurrentOp(d)
  BY <1>1 DEF CurrentOp, clientVars
<1>8. LocksApart' /\ Within' /\ OwnRows' /\ TxLate' /\ SingleOps'
  BY <1>1 DEF RInv, LocksApart, Within, OwnRows, TxLate, SingleOps, clientVars
<1>9. TxOwned'
  BY <1>1, <1>2 DEF RInv, TxOwned, clientVars
<1>10. AuthorizedStill'
  BY <1>1, <1>6, <1>7 DEF RInv, AuthorizedStill, Empty, clientVars
<1>11. Cleared'
  BY <1>1, <1>6 DEF RInv, Cleared, Absent, clientVars
<1>12. Unique'
  BY <1>1, <1>2, <1>6 DEF RInv, Unique, KeyUnique
<1> QED BY <1>8, <1>9, <1>10, <1>11, <1>12 DEF RInv

LEMMA RestInit == Init => RInv
<1> SUFFICES ASSUME Init PROVE RInv
  OBVIOUS
<1>1. \A c \in Clients : View(c) = {}
  BY DEF Init, TripleStoreInit, View
<1> QED BY <1>1 DEF Init, TripleStoreInit, NoReq, RInv, LocksApart, Within, TxOwned, OwnRows,
           TxLate, SingleOps, AuthorizedStill, Cleared, Unique, KeyUnique

\* The metadata writers do not run: a rewrite is none of the REST handlers'.
LEMMA RestNoRewrite ==
    ASSUME Kinds \subseteq RestKinds, IInv, NEW c \in Clients
    PROVE  ~RetractCommits(c)
BY RestKind DEF RetractCommits, RestKinds

LEMMA RestNext ==
    ASSUME Kinds \subseteq RestKinds
    PROVE  PInv /\ RInv /\ [Next]_vars => RInv'
<1> SUFFICES ASSUME PInv, RInv, [Next]_vars PROVE RInv'
  OBVIOUS
<1>0. IInv
  BY DEF PInv, HInv
<1>1. CASE Next
  <2>1. ASSUME NEW c \in Clients, ClientStep(c) PROVE RInv'
    BY <1>0, <2>1, RestBegin, RestNextTxId, RestAuthorize, RestRetractRow, RestRetractEnds,
       RestNoRewrite, RestInsert, RestCommit, RestRollback, RestSetEntityTtl, RestRecordRoot DEF ClientStep
  <2>2. ASSUME SweepStep PROVE RInv'
    BY <2>2, RestSweep
  <2> QED BY <1>1, <2>1, <2>2 DEF Next
<1>2. CASE UNCHANGED vars
  <2>1. \A c \in Clients : View(c)' = View(c) /\ CurrentOp(c)' = CurrentOp(c)
    BY <1>2 DEF vars, clientVars, View, CurrentOp
  <2> QED BY <1>2, <2>1 DEF vars, clientVars, RInv, LocksApart, Within, TxOwned, OwnRows, TxLate,
             SingleOps, AuthorizedStill, Cleared, Unique, KeyUnique, Empty, Absent
<1> QED BY <1>1, <1>2

\* The lock argument as an inductive invariant of the REST handlers.
THEOREM RestInvariant ==
    ASSUME Kinds \subseteq RestKinds
    PROVE  Spec => []RInv
BY InitPInv, NextPInv, RestInit, RestNext, PTL DEF Spec

\* When every write goes through the REST handlers, an attribute of an entity
\* has at most one live value, for every number of clients and entities.
THEOREM RestSingleValued ==
    ASSUME Kinds \subseteq RestKinds
    PROVE  Spec => []SingleValued
<1>1. RInv => SingleValued
  BY DEF RInv, Unique, KeyUnique, SingleValued, Live
<1> QED BY <1>1, RestInvariant, PTL

\* And no two open transactions have written the same entity.
THEOREM RestWritersApart ==
    ASSUME Kinds \subseteq RestKinds
    PROVE  Spec => []WritersApart
<1>1. RInv => WritersApart
  BY DEF RInv, Within, LocksApart, WritersApart
<1> QED BY <1>1, RestInvariant, PTL

-----------------------------------------------------------------------------
(* The REST handlers implement the abstract store, as long as no deadline is *)
(* set.  An open transaction has gone through the abstract states of the     *)
(* operations it has finished; what others commit meanwhile concerns         *)
(* entities it has not locked, and can be put into all these states.         *)

\* An object: a value, marked by tx_id and operation, for some attributes.
Object == UNION {[A -> Nat \X Nat] : A \in SUBSET AllAttrs}

Stores == [Entities -> Object]

\* Of e, these rows have live values for the attributes in A, those of s.
Shows(rows, s, e, A) ==
    /\ {r.attr : r \in get_entity(rows, e)} = A
    /\ \A r \in get_entity(rows, e) : s[e][r.attr] = <<r.tx, r.val>>

\* g takes the store behind these rows through the first n operations, which
\* are of entities in L.
Run(g, rows, ops, n, v, L) ==
    /\ g \in [0 .. n -> Stores]
    /\ \A e \in Entities : Shows(rows, g[0], e, DOMAIN g[0][e])
    /\ \A m \in 1 .. n :
        /\ Abstract!Possible(g[m - 1], ops[m])
        /\ g[m] = Abstract!After(g[m - 1], ops[m], <<v, m>>)
        /\ ops[m].ent \in L

\* The operations of c that are finished.
Done(c) == IF pc[c] = "commit" THEN pos[c] ELSE pos[c] - 1

\* The current operation has been authorized, and its retractions made.
Decided(c) ==
    \/ pc[c] \in {"retract", "insert"}
    \/ pc[c] = "tx" /\ req[c].kind \in {"create", "delete", "patch"}

Retracted(c) ==
    \/ pc[c] = "insert" /\ req[c].kind # "create"
    \/ pc[c] = "tx" /\ req[c].kind = "patch"

\* The attributes an operation clears in s.
Clears(s, o) == IF o.op = "delete" THEN DOMAIN s[o.ent] ELSE Abstract!Sets(s, o)

\* The attributes of e that the transaction still shows: between two of its
\* retractions, some of those that the operation clears.
Left(c, s, e) ==
    IF e # CurrentOp(c).ent THEN DOMAIN s[e]
    ELSE IF Retracted(c) THEN DOMAIN s[e] \ Clears(s, CurrentOp(c))
    ELSE IF pc[c] = "retract"
    THEN {a \in DOMAIN s[e] : \/ a \notin Clears(s, CurrentOp(c))
                             \/ a \in {r.attr : r \in get_entity(View(c), e)}}
    ELSE DOMAIN s[e]

\* How far c is with its current operation, s being the store it began with.
Stage(c, s) ==
    /\ \A e \in Entities : Shows(View(c), s, e, Left(c, s, e))
    /\ Decided(c) =>
        /\ Abstract!Possible(s, CurrentOp(c))
        /\ creating[c] <=> s[CurrentOp(c).ent] = Abstract!Absent
        /\ CurrentOp(c).ent \in locks[c]
    /\ Retracted(c) => buf[c] = InputsOf(CurrentOp(c), creating[c], pos[c])

OnPath(c) ==
    \E g : /\ Run(g, triples, req[c].ops, Done(c), tx[c], locks[c])
           /\ Stage(c, g[Done(c)])

\* A request has the shape of its path, and no deadlines.
Shaped(c) ==
    /\ ~req[c].ttl
    /\ pc[c] \in {"tx", "auth", "retract", "insert", "commit"}
    /\ req[c].kind # "mutate" => Len(req[c].ops) = 1
    /\ req[c].kind = "patch" => req[c].ops[1].attrs # {}
    /\ req[c].kind = "delete" => req[c].ops[1].op = "delete"
    /\ pc[c] = "tx" => pos[c] = 1
    /\ pc[c] = "commit" => pos[c] = Len(req[c].ops) /\ tx[c] # 0
    /\ pc[c] = "retract" /\ req[c].kind = "delete" => tx[c] # 0

NoTtl == (\A r \in triples : ~r.ttl) /\ \A c \in Clients : \A r \in add[c] : ~r.ttl

SInv ==
    /\ NoTtl
    /\ sweep = NoSweep
    /\ \A c \in Clients : pc[c] # "idle" => Shaped(c) /\ OnPath(c)

-----------------------------------------------------------------------------

LEMMA ObjectType ==
    ASSUME NEW h \in Object
    PROVE  h \in [DOMAIN h -> Nat \X Nat] /\ DOMAIN h \subseteq AllAttrs
BY DEF Object

LEMMA NoObject ==
    ASSUME NEW h \in Object
    PROVE  h = Abstract!Absent <=> DOMAIN h = {}
BY DEF Object, Abstract!Absent

\* What the rows show is the object that readers build from them.
LEMMA ShownObject ==
    ASSUME NEW T, NEW e \in Entities, NEW s \in Stores, Shows(T, s, e, DOMAIN s[e])
    PROVE  ObjectOf(get_entity(T, e)) = s[e]
<1> DEFINE rows == get_entity(T, e)
           chosen(a) == CHOOSE r \in rows : r.attr = a
<1>1. s[e] \in Object /\ s[e] \in [DOMAIN s[e] -> Nat \X Nat]
  BY ObjectType DEF Stores
<1>2. ASSUME NEW a \in DOMAIN s[e] PROVE s[e][a] = <<chosen(a).tx, chosen(a).val>>
  <2>1. \E r \in rows : r.attr = a
    BY DEF Shows
  <2>2. chosen(a) \in rows /\ chosen(a).attr = a
    BY <2>1
  <2> QED BY <2>2 DEF Shows
<1>3. ObjectOf(rows) = [a \in DOMAIN s[e] |-> <<chosen(a).tx, chosen(a).val>>]
  BY DEF ObjectOf, Shows
<1> HIDE DEF chosen
<1> QED BY <1>1, <1>2, <1>3

\* And every table of typed rows shows a store.
LEMMA SomeStore ==
    ASSUME IInv, KeyUnique(triples)
    PROVE  objects \in Stores /\ \A e \in Entities : Shows(triples, objects, e, DOMAIN objects[e])
<1> SUFFICES ASSUME NEW e \in Entities
             PROVE  ObjectOf(get_entity(triples, e)) \in Object /\ Shows(triples, objects, e, DOMAIN objects[e])
  BY DEF Stores, objects
<1> DEFINE rows == get_entity(triples, e)
           chosen(a) == CHOOSE r \in rows : r.attr = a
           A == {r.attr : r \in rows}
<1>1. ObjectOf(rows) = [a \in A |-> <<chosen(a).tx, chosen(a).val>>]
  BY DEF ObjectOf
<1>2. \A r \in rows : r \in Row /\ r.rtx = 0 /\ r.ent = e /\ r \in triples
  BY DEF get_entity, Live, IInv, TypeOK
<1>3. \A a \in A : chosen(a) \in rows /\ chosen(a).attr = a
  OBVIOUS
<1>4. \A r \in rows : chosen(r.attr) = r
  BY <1>2, <1>3 DEF KeyUnique
<1> HIDE DEF chosen
<1>5. A \in SUBSET AllAttrs /\ \A a \in A : <<chosen(a).tx, chosen(a).val>> \in Nat \X Nat
  BY <1>2, <1>3 DEF Row
<1>6. ObjectOf(rows) \in Object
  <2>1. ObjectOf(rows) \in [A -> Nat \X Nat]
    BY <1>1, <1>5
  <2> QED BY <1>5, <2>1 DEF Object
<1>7. objects[e] = ObjectOf(rows)
  BY DEF objects
<1>8. \A r \in rows : ObjectOf(rows)[r.attr] = <<r.tx, r.val>>
  BY <1>1, <1>4
<1>9. DOMAIN ObjectOf(rows) = A
  BY <1>1
<1> QED BY <1>6, <1>7, <1>8, <1>9 DEF Shows

\* A set of numbers that is not empty has a least one.
LEMMA LeastOf ==
    ASSUME NEW S \in SUBSET Nat, S # {}
    PROVE  \E i \in S : \A j \in S : ~(j < i)
<1>1. PICK i \in S : \A j \in S : ~(<<j, i>> \in OpToRel(<, Nat))
  BY NatLessThanWellFounded, WFMin
<1>2. \A j \in S : j < i => <<j, i>> \in OpToRel(<, Nat)
  <2> SUFFICES ASSUME NEW j \in S, j < i PROVE <<j, i>> \in OpToRel(<, Nat)
    OBVIOUS
  <2> QED BY DEF OpToRel
<1> QED BY <1>1, <1>2

\* g takes the current objects through the operations.
Steps(g, ops, v) ==
    g = [n \in 0 .. Len(ops) |->
           IF n = 0 THEN objects ELSE Abstract!After(g[n - 1], ops[n], <<v, n>>)]

\* The states of a request are determined: a function that follows the
\* operations is the one that Apply speaks of.
LEMMA RunIsStates ==
    ASSUME NEW ops, Len(ops) \in Nat, NEW v, NEW g, Steps(g, ops, v)
    PROVE  Abstract!States(ops, v) = g
<1> DEFINE F(f) == [n \in 0 .. Len(ops) |->
                      IF n = 0 THEN objects ELSE Abstract!After(f[n - 1], ops[n], <<v, n>>)]
           f == CHOOSE h : h = F(h)
<1>1. Abstract!States(ops, v) = f
  BY DEF Abstract!States
<1>2. f = F(f)
  <2>1. \E h : h = F(h)
    BY DEF Steps
  <2> HIDE DEF F
  <2> QED BY <2>1
<1> HIDE DEF f
<1>3. g = F(g)
  BY DEF Steps
<1>4. ASSUME NEW n \in 0 .. Len(ops), f[n] # g[n] PROVE FALSE
  <2> DEFINE B == {i \in 0 .. Len(ops) : f[i] # g[i]}
  <2>1. B \subseteq Nat
    OBVIOUS
  <2>2. n \in B
    BY <1>4
  <2>3. PICK i \in B : \A j \in B : ~(j < i)
    <3> HIDE DEF B
    <3> QED BY <2>1, <2>2, LeastOf
  <2>4. i # 0
    BY <1>2, <1>3
  <2>5. i - 1 \in 0 .. Len(ops) /\ i - 1 < i
    BY <2>4
  <2>6. f[i - 1] = g[i - 1]
    BY <2>3, <2>5
  <2> QED BY <1>2, <1>3, <2>4, <2>6
<1> QED BY <1>1, <1>2, <1>3, <1>4


\* A transaction that commits applies its request to the abstract store.
LEMMA CommitApplies ==
    ASSUME Kinds \subseteq RestKinds, Nat \ {0} \subseteq TxIds,
           IInv, SInv, NEW c \in Clients, Commit(c)
    PROVE  Abstract!Next
<1> DEFINE ops == req[c].ops
           n == Len(ops)
<1>1. pc[c] = "commit" /\ triples' = View(c) /\ Shaped(c) /\ OnPath(c)
  BY DEF Commit, SInv
<1>2. Done(c) = n /\ tx[c] \in TxIds
  BY <1>1 DEF Shaped, Done, IInv, TypeOK
<1>3. PICK g : Run(g, triples, ops, n, tx[c], locks[c]) /\ Stage(c, g[n])
  BY <1>1, <1>2 DEF OnPath
<1>4. ops \in UNION {[1 .. i -> Op] : i \in 1 .. MaxOps} /\ n \in Nat \ {0}
  BY <1>1, RequestShape DEF IInv, Busy, Requests
<1>5. objects = g[0]
  <2>1. g[0] \in Stores
    BY <1>3, <1>4 DEF Run
  <2>2. \A e \in Entities : ObjectOf(get_entity(triples, e)) = g[0][e]
    BY <1>3, <2>1, ShownObject DEF Run
  <2> QED BY <2>1, <2>2 DEF objects, Stores
<1>6. objects' = g[n]
  <2>1. g[n] \in Stores
    BY <1>3, <1>4 DEF Run
  <2>2. \A e \in Entities : Shows(triples', g[n], e, DOMAIN g[n][e])
    BY <1>1, <1>3 DEF Stage, Left, Retracted
  <2>3. \A e \in Entities : ObjectOf(get_entity(triples', e)) = g[n][e]
    BY <2>1, <2>2, ShownObject
  <2> QED BY <2>1, <2>3 DEF objects, Stores
<1>7. g = [i \in 0 .. n |->
             IF i = 0 THEN objects ELSE Abstract!After(g[i - 1], ops[i], <<tx[c], i>>)]
  <2>1. \A i \in 0 .. n : g[i] = IF i = 0 THEN objects ELSE Abstract!After(g[i - 1], ops[i], <<tx[c], i>>)
    BY <1>3, <1>4, <1>5 DEF Run
  <2>2. g = [i \in 0 .. n |-> g[i]]
    BY <1>3 DEF Run
  <2> QED BY <2>1, <2>2
<1>8. Abstract!States(ops, tx[c]) = g
  <2>1. Len(ops) \in Nat
    BY <1>4
  <2>2. Steps(g, ops, tx[c])
    BY <1>7 DEF Steps
  <2> HIDE DEF ops
  <2> QED BY <2>1, <2>2, RunIsStates
<1>9. \A i \in 1 .. n : Abstract!Possible(g[i - 1], ops[i])
  BY <1>3 DEF Run
<1>10. Abstract!Apply(ops, tx[c])
  BY <1>6, <1>8, <1>9 DEF Abstract!Apply
<1> QED BY <1>2, <1>4, <1>10 DEF Abstract!Next


-----------------------------------------------------------------------------
(* Every step keeps the clients on their paths. *)

\* What c has in hand.
Locals(c) ==
    <<req[c], pc[c], pos[c], tx[c], creating[c], buf[c], del[c], add[c], locks[c]>>

\* A client that nothing is changed for.
LEMMA Undisturbed ==
    ASSUME NEW d \in Clients, Locals(d)' = Locals(d), triples' = triples
    PROVE  /\ Shaped(d) => Shaped(d)'
           /\ OnPath(d) => OnPath(d)'
<1>1. View(d)' = View(d) /\ Done(d)' = Done(d) /\ CurrentOp(d)' = CurrentOp(d)
  BY DEF Locals, View, Done, CurrentOp
<1>2. Decided(d)' = Decided(d) /\ Retracted(d)' = Retracted(d)
  BY DEF Locals, Decided, Retracted
<1>3. \A s : Stage(d, s) => Stage(d, s)'
  BY <1>1, <1>2 DEF Locals, Stage, Left
<1> QED BY <1>1, <1>3 DEF Locals, Shaped, OnPath

LEMMA Others ==
    ASSUME SInv, NEW c \in Clients, triples' = triples, sweep' = sweep,
           \A d \in Clients \ {c} : Locals(d)' = Locals(d),
           pc'[c] # "idle" => Shaped(c)' /\ OnPath(c)',
           \A r \in add'[c] : ~r.ttl
    PROVE  SInv'
<1>1. \A d \in Clients \ {c} : pc'[d] = pc[d] /\ add'[d] = add[d]
  BY DEF Locals
<1>2. NoTtl'
  BY <1>1 DEF SInv, NoTtl
<1>3. \A d \in Clients \ {c} : pc'[d] # "idle" => Shaped(d)' /\ OnPath(d)'
  BY <1>1, Undisturbed DEF SInv
<1> QED BY <1>2, <1>3 DEF SInv

LEMMA PathBegin ==
    ASSUME Kinds \subseteq RestKinds, UseTtl \subseteq {FALSE},
           IInv, RInv, SInv, NEW c \in Clients, Begin(c)
    PROVE  SInv'
<1>1. PICK r \in Requests :
        /\ Admissible(r)
        /\ req' = [req EXCEPT ![c] = r]
        /\ pc' = [pc EXCEPT ![c] = IF r.kind \in {"mutate", "ws"} THEN "tx"
                                   ELSE IF r.kind = "rewrite" THEN "retract" ELSE "auth"]
  BY DEF Begin, Goto
<1>2. /\ pc[c] = "idle"
      /\ UNCHANGED <<triples, seq, pos, tx, creating, buf, del, add, locks, notified, roots, sweep>>
  BY DEF Begin
<1>3. r.kind \in RestKinds /\ ~r.ttl
  BY DEF Requests
<1>4. req'[c] = r /\ pc'[c] = IF r.kind = "mutate" THEN "tx" ELSE "auth"
  BY <1>1, <1>3 DEF IInv, TypeOK, RestKinds
<1>5. pos'[c] = 1 /\ View(c)' = triples' /\ add'[c] = {}
  BY <1>2 DEF IInv, Busy, Closed, View
<1>6. \A d \in Clients \ {c} : Locals(d)' = Locals(d)
  BY <1>1, <1>2 DEF Locals, IInv, TypeOK
<1>7. Shaped(c)'
  <2>1. r.kind = "patch" => r.ops[1].attrs # {}
    <3>1. 1 \in DOMAIN r.ops
      BY RequestShape DEF Requests
    <3>2. r.kind = "patch" => r.ops[1].op = "update"
      BY <1>1 DEF Admissible
    <3> QED BY <1>1, <1>3, <3>1, <3>2 DEF Admissible
  <2> QED BY <1>1, <1>3, <1>4, <1>5, <2>1 DEF Shaped, Admissible, RestKinds
<1>8. OnPath(c)'
  <2>1. Done(c)' = 0 /\ ~Decided(c)' /\ ~Retracted(c)'
    BY <1>3, <1>4, <1>5 DEF Done, Decided, Retracted, RestKinds
  <2>2. PICK s \in Stores : \A e \in Entities : Shows(triples, s, e, DOMAIN s[e])
    BY SomeStore DEF RInv, Unique
  <2> DEFINE g == [m \in 0 .. 0 |-> s]
  <2>3. Run(g, triples', req'[c].ops, 0, tx'[c], locks'[c])
    BY <1>2, <2>2 DEF Run
  <2>4. Stage(c, s)' /\ g[0] = s
    <3>1. pc'[c] # "retract"
      BY <1>4
    <3> QED BY <1>2, <1>5, <2>1, <2>2, <3>1 DEF Stage, Left
  <2> HIDE DEF g
  <2> QED BY <2>1, <2>3, <2>4 DEF OnPath
<1> QED BY <1>2, <1>5, <1>6, <1>7, <1>8, Others


\* Only a mutate request goes beyond its first operation.
LEMMA FirstOp ==
    ASSUME IInv, NEW c \in Clients, pc[c] # "idle", Shaped(c), req[c].kind # "mutate"
    PROVE  pos[c] = 1
<1>1. pos[c] \in 1 .. Len(req[c].ops)
  BY DEF IInv, Busy
<1>2. Len(req[c].ops) = 1
  BY DEF Shaped
<1> QED BY <1>1, <1>2

LEMMA PathNextTxId ==
    ASSUME Kinds \subseteq RestKinds, IInv, SInv, NEW c \in Clients, NextTxId(c)
    PROVE  SInv'
<1>1. /\ pc[c] = "tx"
      /\ tx'[c] = seq + 1
      /\ pc'[c] = Route[req[c].kind].tx
      /\ UNCHANGED <<triples, req, pos, creating, buf, del, add, locks, sweep>>
      /\ \A d \in Clients \ {c} : Locals(d)' = Locals(d)
  BY DEF NextTxId, Goto, Locals, IInv, TypeOK
<1>2. req[c].kind \in RestKinds /\ Shaped(c) /\ OnPath(c)
  BY <1>1, RestKind DEF SInv
<1>3. pc'[c] = IF req[c].kind = "mutate" THEN "auth"
               ELSE IF req[c].kind = "delete" THEN "retract" ELSE "insert"
  BY <1>1, <1>2 DEF Route, RestKinds
<1>4. seq + 1 # 0
  BY DEF IInv, TypeOK
<1>5. Shaped(c)'
  BY <1>1, <1>2, <1>3, <1>4 DEF Shaped
<1>6. Done(c) = 0 /\ Done(c)' = 0
  BY <1>1, <1>2, <1>3 DEF Done, Shaped
<1>7. Decided(c)' = Decided(c) /\ Retracted(c)' = Retracted(c)
  BY <1>1, <1>2, <1>3 DEF Decided, Retracted, RestKinds
<1>8. View(c)' = View(c) /\ CurrentOp(c)' = CurrentOp(c)
  BY <1>1 DEF View, CurrentOp
<1>9. \A s : Stage(c, s) => Stage(c, s)'
  <2> SUFFICES ASSUME NEW s, Stage(c, s) PROVE Stage(c, s)'
    OBVIOUS
  <2>1. ASSUME NEW e \in Entities PROVE Shows(View(c)', s, e, Left(c, s, e)')
    <3>1. Shows(View(c), s, e, Left(c, s, e))
      BY DEF Stage
    <3>2. CASE Retracted(c) \/ pc'[c] # "retract"
      BY <1>1, <1>7, <1>8, <3>1, <3>2 DEF Left
    <3>3. CASE ~Retracted(c) /\ pc'[c] = "retract"
      <4>1. Left(c, s, e) = DOMAIN s[e]
        BY <1>1, <3>3 DEF Left
      <4>2. Left(c, s, e)' = DOMAIN s[e]
        BY <1>7, <1>8, <3>1, <3>3, <4>1 DEF Left, Shows
      <4> QED BY <1>8, <3>1, <4>1, <4>2
    <3> QED BY <3>2, <3>3
  <2> QED BY <1>1, <1>7, <1>8, <2>1 DEF Stage
<1>10. OnPath(c)'
  <2>1. PICK g : Run(g, triples, req[c].ops, 0, tx[c], locks[c]) /\ Stage(c, g[0])
    BY <1>2, <1>6 DEF OnPath
  <2>2. Run(g, triples', req'[c].ops, 0, tx'[c], locks'[c])
    BY <1>1, <2>1 DEF Run
  <2> QED BY <1>6, <1>9, <2>1, <2>2 DEF OnPath
<1>11. \A r \in add'[c] : ~r.ttl
  BY <1>1 DEF SInv, NoTtl
<1> QED BY <1>1, <1>5, <1>10, <1>11, Others

LEMMA PathAuthorize ==
    ASSUME Kinds \subseteq RestKinds, IInv, SInv, NEW c \in Clients, Authorize(c)
    PROVE  SInv'
<1> DEFINE o == CurrentOp(c)
           n == Done(c)
<1>1. /\ pc[c] = "auth"
      /\ Authorized(c, o)
      /\ locks'[c] = locks[c] \cup {o.ent}
      /\ creating'[c] = (get_entity(View(c), o.ent) = {})
      /\ pc'[c] = Route[req[c].kind].auth
      /\ UNCHANGED <<triples, seq, req, pos, tx, buf, del, add, sweep>>
      /\ \A d \in Clients \ {c} : Locals(d)' = Locals(d)
  BY DEF Authorize, Goto, Locals, IInv, TypeOK
<1>2. req[c].kind \in RestKinds /\ Shaped(c) /\ OnPath(c) /\ o \in Op
  BY <1>1, RestKind, CurrentOpType DEF SInv, IInv
<1>3. pc'[c] = IF req[c].kind \in {"create", "delete"} THEN "tx" ELSE "retract"
  BY <1>1, <1>2 DEF Route, RestKinds
<1>4. pos[c] \in 1 .. Len(req[c].ops)
  BY <1>1 DEF IInv, Busy
<1>5. Shaped(c)'
  <2>1. req[c].kind # "mutate" => pos[c] = 1
    BY <1>1, <1>2, FirstOp
  <2> QED BY <1>1, <1>2, <1>3, <2>1 DEF Shaped
<1>6. Done(c)' = n /\ ~Retracted(c) /\ ~Retracted(c)' /\ n \in Nat
  BY <1>1, <1>3, <1>4 DEF Done, Retracted
<1>7. View(c)' = View(c) /\ CurrentOp(c)' = o
  BY <1>1 DEF View, CurrentOp
<1>8. PICK g, s : Run(g, triples, req[c].ops, n, tx[c], locks[c]) /\ Stage(c, s) /\ s = g[n]
  BY <1>2 DEF OnPath
<1>9. Run(g, triples', req'[c].ops, n, tx'[c], locks'[c])
  BY <1>1, <1>8 DEF Run
<1>10. Stage(c, s)'
  <2>1. \A e \in Entities : Shows(View(c), s, e, DOMAIN s[e])
    BY <1>1, <1>6, <1>8 DEF Stage, Left
  <2>2. o.ent \in Entities /\ s[o.ent] \in Object
    BY <1>2, <1>6, <1>8 DEF Op, Run, Stores
  <2>3. get_entity(View(c), o.ent) = {} <=> s[o.ent] = Abstract!Absent
    <3>1. {r.attr : r \in get_entity(View(c), o.ent)} = DOMAIN s[o.ent]
      BY <2>1, <2>2 DEF Shows
    <3>2. s[o.ent] = Abstract!Absent <=> DOMAIN s[o.ent] = {}
      BY <2>2, NoObject
    <3> HIDE DEF o
    <3> QED BY <3>1, <3>2
  <2>4. Abstract!Possible(s, o)
    BY <1>1, <2>3 DEF Authorized, Abstract!Possible
  <2>5. ASSUME NEW e \in Entities PROVE Left(c, s, e)' = DOMAIN s[e]
    <3>1. {r.attr : r \in get_entity(View(c)', e)} = DOMAIN s[e]
      BY <1>7, <2>1 DEF Shows
    <3> QED BY <1>6, <3>1 DEF Left
  <2> HIDE DEF o, n
  <2> QED BY <1>1, <1>6, <1>7, <2>1, <2>3, <2>4, <2>5 DEF Stage
<1>11. OnPath(c)'
  BY <1>6, <1>8, <1>9, <1>10 DEF OnPath
<1>12. \A r \in add'[c] : ~r.ttl
  BY <1>1 DEF SInv, NoTtl
<1> QED BY <1>1, <1>5, <1>11, <1>12, Others

LEMMA PathRollback ==
    ASSUME IInv, SInv, NEW c \in Clients, Rollback(c)
    PROVE  SInv'
<1>1. /\ pc'[c] = "idle" /\ add'[c] = {} /\ triples' = triples /\ sweep' = sweep
      /\ \A d \in Clients \ {c} : Locals(d)' = Locals(d)
  BY DEF Rollback, EndTransaction, Return, Goto, Locals, IInv, TypeOK
<1> QED BY <1>1, Others


\* What an operation makes of a store.
LEMMA AfterOp ==
    ASSUME NEW s \in Stores, NEW o \in Op, NEW w \in Nat \X Nat
    PROVE  LET t == Abstract!After(s, o, w) IN
           /\ t \in Stores
           /\ \A e \in Entities \ {o.ent} : t[e] = s[e]
           /\ o.op = "delete" => DOMAIN t[o.ent] = {}
           /\ o.op # "delete" =>
                /\ DOMAIN t[o.ent] = DOMAIN s[o.ent] \cup Abstract!Sets(s, o)
                /\ \A a \in DOMAIN t[o.ent] :
                     t[o.ent][a] = IF a \in Abstract!Sets(s, o) THEN w ELSE s[o.ent][a]
<1> DEFINE t == Abstract!After(s, o, w)
           D == DOMAIN s[o.ent] \cup Abstract!Sets(s, o)
           h == IF o.op = "delete" THEN Abstract!Absent
                ELSE [a \in D |-> IF a \in Abstract!Sets(s, o) THEN w ELSE s[o.ent][a]]
<1>1. o.ent \in Entities /\ o.attrs \subseteq Attrs
  BY DEF Op
<1>2. s[o.ent] \in [DOMAIN s[o.ent] -> Nat \X Nat] /\ DOMAIN s[o.ent] \subseteq AllAttrs
  BY <1>1, ObjectType DEF Stores
<1>3. Abstract!Sets(s, o) \subseteq AllAttrs
  BY <1>1 DEF Abstract!Sets, AllAttrs
<1>4. t = [s EXCEPT ![o.ent] = h]
  BY DEF Abstract!After
<1>5. h \in Object
  <2>1. CASE o.op = "delete"
    <3>1. Abstract!Absent \in [{} -> Nat \X Nat] /\ {} \in SUBSET AllAttrs
      BY DEF Abstract!Absent
    <3>2. h = Abstract!Absent
      BY <2>1
    <3> HIDE DEF h
    <3> QED BY <3>1, <3>2 DEF Object
  <2>2. CASE o.op # "delete"
    <3>1. h \in [D -> Nat \X Nat] /\ D \in SUBSET AllAttrs
      BY <1>2, <1>3, <2>2
    <3> HIDE DEF h, D
    <3> QED BY <3>1 DEF Object
  <2> QED BY <2>1, <2>2
<1>6. t \in Stores /\ t[o.ent] = h /\ \A e \in Entities \ {o.ent} : t[e] = s[e]
  <2> HIDE DEF h
  <2> QED BY <1>1, <1>4, <1>5 DEF Stores
<1>7. o.op = "delete" => DOMAIN h = {}
  BY DEF Abstract!Absent
<1> HIDE DEF t
<1> QED BY <1>6, <1>7 DEF t

\* One more operation.
LEMMA RunExtends ==
    ASSUME NEW n \in Nat, NEW v \in Nat, NEW rows, NEW ops, NEW L, NEW g,
           Run(g, rows, ops, n, v, L),
           ops[n + 1] \in Op, ops[n + 1].ent \in L, Abstract!Possible(g[n], ops[n + 1])
    PROVE  \E h : /\ Run(h, rows, ops, n + 1, v, L)
                  /\ h[n + 1] = Abstract!After(g[n], ops[n + 1], <<v, n + 1>>)
<1> DEFINE t == Abstract!After(g[n], ops[n + 1], <<v, n + 1>>)
           h == [m \in 0 .. (n + 1) |-> IF m = n + 1 THEN t ELSE g[m]]
<1>1. g[n] \in Stores /\ \A m \in 0 .. n : g[m] \in Stores
  BY DEF Run
<1>2. t \in Stores
  BY <1>1, AfterOp
<1>3. h \in [0 .. (n + 1) -> Stores]
  BY <1>1, <1>2
<1>4. h[n + 1] = t /\ h[0] = g[0] /\ \A m \in 0 .. n : h[m] = g[m]
  OBVIOUS
<1> HIDE DEF t, h
<1>5. ASSUME NEW m \in 1 .. (n + 1)
      PROVE  /\ Abstract!Possible(h[m - 1], ops[m])
             /\ h[m] = Abstract!After(h[m - 1], ops[m], <<v, m>>)
             /\ ops[m].ent \in L
  <2>1. CASE m = n + 1
    BY <1>4, <2>1 DEF t
  <2>2. CASE m # n + 1
    <3>1. m \in 1 .. n /\ m - 1 \in 0 .. n /\ m \in 0 .. n
      BY <2>2
    <3>2. h[m] = g[m] /\ h[m - 1] = g[m - 1]
      BY <1>4, <3>1
    <3> QED BY <3>1, <3>2 DEF Run
  <2> QED BY <2>1, <2>2
<1>6. Run(h, rows, ops, n + 1, v, L)
  BY <1>3, <1>4, <1>5 DEF Run
<1> QED BY <1>4, <1>6 DEF t


\* The live rows of a transaction's view after it has retracted one.
LEMMA RetractedView ==
    ASSUME IInv, NEW c \in Clients, NEW r \in Live(View(c)),
           add'[c] = (add[c] \ {r}) \cup {Stamp(r, seq + 1)},
           del'[c] = del[c] \cup ({r} \cap triples),
           triples' = triples
    PROVE  \A e : get_entity(View(c)', e) = get_entity(View(c), e) \ {r}
<1>1. r \in View(c) /\ r \in Row /\ seq \in Nat
  BY SeenRows DEF Live, View, IInv, TypeOK
<1>2. Stamp(r, seq + 1).rtx # 0
  <2>1. Stamp(r, seq + 1).rtx = seq + 1
    BY <1>1 DEF Stamp, Row
  <2> QED BY <1>1, <2>1
<1>3. \A q : q \in View(c)' /\ q.rtx = 0 <=> q \in View(c) \ {r} /\ q.rtx = 0
  BY <1>2 DEF View
<1> QED BY <1>3 DEF get_entity, Live

LEMMA PathRetractRow ==
    ASSUME Kinds \subseteq RestKinds, IInv, RInv, SInv, NEW c \in Clients, RetractRow(c)
    PROVE  SInv'
<1> DEFINE o == CurrentOp(c)
           n == Done(c)
<1>1. PICK r \in ToRetract(c, o) :
        /\ add' = [add EXCEPT ![c] = (@ \ {r}) \cup {Stamp(r, seq + 1)}]
        /\ del' = [del EXCEPT ![c] = @ \cup ({r} \cap triples)]
  BY DEF RetractRow
<1>2. /\ pc[c] = "retract"
      /\ UNCHANGED <<triples, req, pc, pos, tx, creating, buf, locks, notified, roots, served, sweep>>
  BY DEF RetractRow
<1>3. /\ add'[c] = (add[c] \ {r}) \cup {Stamp(r, seq + 1)}
      /\ del'[c] = del[c] \cup ({r} \cap triples)
      /\ \A d \in Clients \ {c} : Locals(d)' = Locals(d)
  BY <1>1, <1>2 DEF IInv, TypeOK, Locals
<1>4. Shaped(c) /\ OnPath(c) /\ o \in Op
  BY <1>2, CurrentOpType DEF SInv, IInv
<1>5. Shaped(c)'
  BY <1>2, <1>4 DEF Shaped
<1>6. /\ Done(c)' = n /\ CurrentOp(c)' = o
      /\ Decided(c)' = Decided(c) /\ ~Retracted(c) /\ ~Retracted(c)'
  BY <1>2 DEF Done, CurrentOp, Decided, Retracted
<1>7. PICK g, s : Run(g, triples, req[c].ops, n, tx[c], locks[c]) /\ Stage(c, s) /\ s = g[n]
  BY <1>4 DEF OnPath
<1>8. r \in Live(View(c)) /\ r.ent = o.ent /\ r \in get_entity(View(c), o.ent)
  BY <1>1 DEF ToRetract, get_entity, Live
<1>9. \A e : get_entity(View(c)', e) = get_entity(View(c), e) \ {r}
  BY <1>2, <1>3, <1>8, RetractedView
<1>10. \A e \in Entities : Shows(View(c), s, e, Left(c, s, e))
  BY <1>7 DEF Stage
<1>11. ASSUME NEW e \in Entities \ {o.ent} PROVE Shows(View(c)', s, e, Left(c, s, e)')
  <2>1. get_entity(View(c)', e) = get_entity(View(c), e)
    BY <1>8, <1>9 DEF get_entity
  <2>2. Left(c, s, e)' = Left(c, s, e)
    BY <1>6 DEF Left
  <2> QED BY <1>10, <2>1, <2>2 DEF Shows
<1>12. Shows(View(c)', s, o.ent, Left(c, s, o.ent)')
  <2> DEFINE live == get_entity(View(c), o.ent)
             D == DOMAIN s[o.ent]
             C == Clears(s, o)
  <2>1. o.ent \in Entities
    BY <1>4 DEF Op
  <2>2. Left(c, s, o.ent) = {a \in D : a \notin C \/ a \in {q.attr : q \in live}}
    BY <1>2, <1>6 DEF Left
  <2>3. {q.attr : q \in live} = Left(c, s, o.ent) /\ \A q \in live : s[o.ent][q.attr] = <<q.tx, q.val>>
    BY <1>10, <2>1 DEF Shows
  <2>4. r.attr \in C
    <3>1. CASE o.op = "delete"
      BY <1>8, <2>2, <2>3, <3>1 DEF Clears
    <3>2. CASE o.op # "delete"
      <4>1. r.attr \in o.attrs
        BY <1>1, <3>2 DEF ToRetract
      <4> QED BY <3>2, <4>1 DEF Clears, Abstract!Sets
    <3> QED BY <3>1, <3>2
  <2>5. get_entity(View(c)', o.ent) = live \ {r}
    BY <1>9
  <2>6. Left(c, s, o.ent)' = {a \in D : a \notin C \/ a \in {q.attr : q \in live \ {r}}}
    BY <1>2, <1>6, <2>5 DEF Left
  <2> HIDE DEF live, D, C, o
  <2>7. {q.attr : q \in live \ {r}} = {a \in D : a \notin C \/ a \in {q.attr : q \in live \ {r}}}
    <3>1. ASSUME NEW q \in live \ {r} PROVE q.attr \in D
      BY <2>2, <2>3
    <3>2. ASSUME NEW a \in D, a \notin C PROVE \E q \in live \ {r} : q.attr = a
      <4>1. a \in {q.attr : q \in live}
        BY <2>2, <2>3, <3>2
      <4>2. PICK q \in live : q.attr = a
        BY <4>1
      <4> QED BY <2>4, <3>2, <4>2
    <3> QED BY <3>1, <3>2
  <2> QED BY <2>3, <2>5, <2>6, <2>7 DEF Shows
<1> HIDE DEF o, n
<1>13. Stage(c, s)'
  BY <1>2, <1>6, <1>7, <1>11, <1>12 DEF Stage, o
<1>14. OnPath(c)'
  BY <1>2, <1>6, <1>7, <1>13 DEF OnPath
<1>15. \A q \in add'[c] : ~q.ttl
  <2>1. r \in Row /\ ~r.ttl
    BY <1>8, SeenRows DEF SInv, NoTtl, View, Live, IInv, TypeOK
  <2>2. ~Stamp(r, seq + 1).ttl
    BY <2>1 DEF Stamp, Row
  <2> QED BY <1>3, <2>2 DEF SInv, NoTtl
<1> QED BY <1>2, <1>3, <1>5, <1>14, <1>15, Others

LEMMA PathRetractEnds ==
    ASSUME Kinds \subseteq RestKinds, IInv, RInv, SInv, NEW c \in Clients, RetractEnds(c)
    PROVE  SInv'
<1> DEFINE o == CurrentOp(c)
           n == Done(c)
<1>1. /\ pc[c] = "retract"
      /\ ToRetract(c, o) = {}
      /\ buf'[c] = buf[c] \cup InputsOf(o, creating[c], pos[c])
      /\ AfterRetract(c)
      /\ UNCHANGED <<triples, req, tx, creating, del, add, locks, notified, roots, served, sweep>>
  BY DEF RetractEnds, IInv, TypeOK
<1>4. req[c].kind \in RestKinds /\ Shaped(c) /\ OnPath(c) /\ o \in Op /\ buf[c] = {}
  BY <1>1, RestKind, CurrentOpType DEF SInv, IInv, RInv, Cleared
<1>5. pos[c] \in 1 .. Len(req[c].ops) /\ (req[c].kind # "mutate" => pos[c] = 1)
  BY <1>1, <1>4, FirstOp DEF IInv, Busy
<1>6. /\ pc'[c] = IF req[c].kind = "mutate" THEN "insert"
                  ELSE IF req[c].kind = "patch" THEN "tx" ELSE "commit"
      /\ pos' = pos
      /\ req[c].kind # "create"
      /\ req[c].kind = "delete" => o.op = "delete"
  BY <1>1, <1>4, <1>5 DEF AfterRetract, Goto, RestKinds, Shaped, CurrentOp, IInv, TypeOK
<1>7. \A d \in Clients \ {c} : Locals(d)' = Locals(d)
  BY <1>1 DEF RetractEnds, AfterRetract, Goto, Locals, IInv, TypeOK
<1>8. Shaped(c)'
  BY <1>1, <1>4, <1>5, <1>6 DEF Shaped, RestKinds
<1>9. n \in Nat /\ n + 1 = pos[c] /\ o = req[c].ops[n + 1] /\ tx[c] \in Nat
  BY <1>1, <1>5 DEF Done, CurrentOp, IInv, TypeOK
<1>10. PICK g, s : Run(g, triples, req[c].ops, n, tx[c], locks[c]) /\ Stage(c, s) /\ s = g[n]
  BY <1>4 DEF OnPath
<1>11. s \in Stores /\ o.ent \in Entities /\ s[o.ent] \in Object
  BY <1>4, <1>9, <1>10 DEF Run, Stores, Op
<1>12. /\ \A e \in Entities : Shows(View(c), s, e, Left(c, s, e))
       /\ Abstract!Possible(s, o)
       /\ creating[c] <=> s[o.ent] = Abstract!Absent
       /\ o.ent \in locks[c]
  BY <1>1, <1>10 DEF Stage, Decided
<1>13. View(c)' = View(c)
  BY <1>1 DEF View
<1>15. \A e \in Entities \ {o.ent} : Shows(View(c)', s, e, DOMAIN s[e])
  BY <1>12, <1>13 DEF Left
<1>16. Shows(View(c)', s, o.ent, DOMAIN s[o.ent] \ Clears(s, o))
  <2> DEFINE live == get_entity(View(c), o.ent)
             D == DOMAIN s[o.ent]
             C == Clears(s, o)
  <2>1. Left(c, s, o.ent) = {a \in D : a \notin C \/ a \in {q.attr : q \in live}}
    BY <1>1 DEF Left, Retracted
  <2>2. {q.attr : q \in live} = Left(c, s, o.ent) /\ \A q \in live : s[o.ent][q.attr] = <<q.tx, q.val>>
    BY <1>11, <1>12 DEF Shows
  <2>3. ASSUME NEW q \in live, q.attr \in C PROVE FALSE
    <3>1. s[o.ent] # Abstract!Absent
      BY <1>11, <2>1, <2>2, <2>3, NoObject
    <3>2. o.op # "insert"
      BY <1>12, <3>1 DEF Abstract!Possible
    <3>3. C = IF o.op = "delete" THEN D ELSE o.attrs
      BY <3>1, <3>2 DEF Clears, Abstract!Sets
    <3> QED BY <1>1, <2>3, <3>2, <3>3 DEF ToRetract
  <2> HIDE DEF live, D, C, o
  <2>4. {q.attr : q \in live} = D \ C
    BY <2>1, <2>2, <2>3
  <2> QED BY <1>13, <2>2, <2>4 DEF Shows, live, D, C
<1> HIDE DEF o, n
<1>17. CurrentOp(c)' = o
  BY <1>1, <1>6 DEF CurrentOp, o
<1>18. OnPath(c)'
  <2>1. CASE req[c].kind = "delete"
    <3>1. Done(c)' = n + 1 /\ ~Retracted(c)' /\ ~Decided(c)'
      BY <1>1, <1>6, <1>9, <2>1 DEF Done, Retracted, Decided
    <3>2. PICK h : /\ Run(h, triples, req[c].ops, n + 1, tx[c], locks[c])
                   /\ h[n + 1] = Abstract!After(s, o, <<tx[c], n + 1>>)
      BY <1>4, <1>9, <1>10, <1>12, RunExtends
    <3>3. PICK t : t = h[n + 1]
      OBVIOUS
    <3>4. /\ \A e \in Entities \ {o.ent} : t[e] = s[e]
          /\ DOMAIN t[o.ent] = {}
      <4>1. <<tx[c], n + 1>> \in Nat \X Nat
        BY <1>9
      <4>2. t = Abstract!After(s, o, <<tx[c], n + 1>>) /\ o.op = "delete"
        BY <1>6, <2>1, <3>2, <3>3
      <4> QED BY <1>4, <1>11, <4>1, <4>2, AfterOp
    <3>5. \A e \in Entities : Shows(View(c)', t, e, DOMAIN t[e])
      <4>1. DOMAIN s[o.ent] \ Clears(s, o) = {}
        BY <1>6, <2>1 DEF Clears
      <4> QED BY <1>15, <1>16, <3>4, <4>1 DEF Shows
    <3>6. Stage(c, t)'
      <4>1. pc'[c] # "retract"
        BY <1>6, <2>1
      <4> QED BY <3>1, <3>5, <4>1 DEF Stage, Left
    <3> QED BY <1>1, <3>1, <3>2, <3>3, <3>6 DEF OnPath
  <2>2. CASE req[c].kind # "delete"
    <3>1. Done(c)' = n /\ Retracted(c)' /\ Decided(c)'
      BY <1>1, <1>4, <1>6, <1>9, <2>2 DEF Done, Retracted, Decided, RestKinds
    <3>2. Stage(c, s)'
      BY <1>1, <1>4, <1>6, <1>12, <1>15, <1>16, <1>17, <3>1 DEF Stage, Left
    <3> QED BY <1>1, <1>10, <3>1, <3>2 DEF OnPath
  <2> QED BY <2>1, <2>2
<1>19. \A r \in add'[c] : ~r.ttl
  BY <1>1 DEF SInv, NoTtl
<1> QED BY <1>1, <1>7, <1>8, <1>18, <1>19, Others


\* What an insert writes is what the operation sets.
LEMMA InsertsSets ==
    ASSUME NEW s, NEW o \in Op, NEW n, Abstract!Possible(s, o)
    PROVE  InputsOf(o, s[o.ent] = Abstract!Absent, n) =
             {<<o.ent, a, n>> : a \in IF o.op = "delete" THEN {} ELSE Abstract!Sets(s, o)}
<1>1. o.op \in {"insert", "update", "upsert", "delete"}
  BY DEF Op
<1> QED BY <1>1 DEF InputsOf, Abstract!Possible, Abstract!Sets

LEMMA PathInsert ==
    ASSUME Kinds \subseteq RestKinds, IInv, RInv, SInv, NEW c \in Clients, Insert(c)
    PROVE  SInv'
<1> DEFINE o == CurrentOp(c)
           n == Done(c)
           rows == Inserted(InsertInputs(c), tx[c], req[c].kind = "create" /\ req[c].ttl)
<1>1. /\ pc[c] = "insert"
      /\ add' = [add EXCEPT ![c] = @ \cup rows]
      /\ UNCHANGED <<triples, seq, req, tx, creating, del, locks, notified, roots, served, sweep>>
      /\ \A d \in Clients \ {c} : Locals(d)' = Locals(d)
  BY DEF Insert, Goto, Locals, IInv, TypeOK
<1>2. req[c].kind \in RestKinds /\ Shaped(c) /\ OnPath(c) /\ o \in Op
  BY <1>1, RestKind, CurrentOpType DEF SInv, IInv
<1>3. /\ pos[c] \in 1 .. Len(req[c].ops)
      /\ req[c].kind # "mutate" => pos[c] = 1 /\ Len(req[c].ops) = 1
  BY <1>1, <1>2, FirstOp DEF IInv, Busy, Shaped
<1>4. \/ pc'[c] = "auth" /\ pos'[c] = pos[c] + 1 /\ req[c].kind = "mutate"
      \/ pc'[c] = "commit" /\ pos'[c] = pos[c] /\ pos[c] = Len(req[c].ops)
  BY <1>3 DEF Insert, Goto, LastOp, IInv, TypeOK
<1>5. tx[c] \in Nat \ {0}
  BY <1>1 DEF IInv, TypeOK, TxDrawn
<1>6. Shaped(c)'
  BY <1>1, <1>2, <1>4, <1>5 DEF Shaped
<1>7. n \in Nat /\ n + 1 = pos[c] /\ o = req[c].ops[n + 1]
  BY <1>1, <1>3 DEF Done, CurrentOp, IInv, TypeOK
<1>8. Done(c)' = n + 1 /\ ~Decided(c)' /\ ~Retracted(c)'
  BY <1>1, <1>4, <1>7 DEF Done, Decided, Retracted, IInv, TypeOK
<1>9. PICK g, s : Run(g, triples, req[c].ops, n, tx[c], locks[c]) /\ Stage(c, s) /\ s = g[n]
  BY <1>2 DEF OnPath
<1>10. s \in Stores /\ o.ent \in Entities /\ s[o.ent] \in Object
  BY <1>2, <1>7, <1>9 DEF Run, Stores, Op
<1>11. /\ \A e \in Entities : Shows(View(c), s, e, Left(c, s, e))
       /\ Abstract!Possible(s, o)
       /\ creating[c] <=> s[o.ent] = Abstract!Absent
       /\ o.ent \in locks[c]
       /\ req[c].kind # "create" => buf[c] = InputsOf(o, creating[c], pos[c])
  BY <1>1, <1>9 DEF Stage, Decided, Retracted
<1> DEFINE B == IF o.op = "delete" THEN {} ELSE Abstract!Sets(s, o)
<1>12. req[c].kind = "create" => o.op = "insert" /\ s[o.ent] = Abstract!Absent
  BY <1>3, <1>11 DEF RInv, SingleOps, CurrentOp, Abstract!Possible
<1>13. InsertInputs(c) = {<<o.ent, a, pos[c]>> : a \in B}
  <2>1. InputsOf(o, s[o.ent] = Abstract!Absent, pos[c]) = {<<o.ent, a, pos[c]>> : a \in B}
    BY <1>2, <1>11, InsertsSets
  <2>2. InsertInputs(c) = InputsOf(o, s[o.ent] = Abstract!Absent, pos[c])
    <3>1. CASE req[c].kind = "create"
      BY <1>3, <1>12, <3>1 DEF InsertInputs
    <3>2. CASE req[c].kind # "create"
      <4>1. creating[c] = (s[o.ent] = Abstract!Absent)
        BY <1>11 DEF IInv, TypeOK
      <4> QED BY <1>11, <3>2, <4>1 DEF InsertInputs
    <3> QED BY <3>1, <3>2
  <2> QED BY <2>1, <2>2
<1>14. /\ \A e \in Entities \ {o.ent} : Shows(View(c), s, e, DOMAIN s[e])
       /\ Shows(View(c), s, o.ent, DOMAIN s[o.ent] \ Clears(s, o))
  <2>1. \A e \in Entities \ {o.ent} : Left(c, s, e) = DOMAIN s[e]
    BY <1>1 DEF Left
  <2>2. Left(c, s, o.ent) = DOMAIN s[o.ent] \ Clears(s, o)
    <3>1. CASE req[c].kind = "create"
      <4>1. DOMAIN s[o.ent] = {}
        BY <1>10, <1>12, <3>1, NoObject
      <4> QED BY <1>1, <4>1 DEF Left
    <3>2. CASE req[c].kind # "create"
      BY <1>1, <3>2 DEF Left, Retracted
    <3> QED BY <3>1, <3>2
  <2> QED BY <1>10, <1>11, <2>1, <2>2
<1>15. /\ \A r \in rows : /\ r.ent = o.ent /\ r.attr \in B /\ r.rtx = 0 /\ ~r.ttl
                          /\ r.tx = tx[c] /\ r.val = pos[c]
       /\ \A a \in B : \E r \in rows : r.attr = a
  <2> DEFINE I == InsertInputs(c)
  <2>1. rows = Inserted(I, tx[c], FALSE)
    <3>1. (req[c].kind = "create" /\ req[c].ttl) = FALSE
      BY <1>2 DEF Shaped
    <3> QED BY <3>1
  <2>2. \A i \in I : i[1] = o.ent /\ i[2] \in B /\ i[3] = pos[c]
    BY <1>13
  <2>3. \A a \in B : <<o.ent, a, pos[c]>> \in I /\ <<o.ent, a, pos[c]>>[2] = a
    BY <1>13
  <2> DEFINE row(i) == [ent |-> i[1], attr |-> i[2], val |-> i[3],
                        tx |-> tx[c], rtx |-> 0, ttl |-> FALSE]
  <2>4. rows = {row(i) : i \in I}
    BY <2>1 DEF Inserted
  <2>5. \A i : /\ row(i).ent = i[1] /\ row(i).attr = i[2] /\ row(i).val = i[3]
               /\ row(i).tx = tx[c] /\ row(i).rtx = 0 /\ ~row(i).ttl
    OBVIOUS
  <2> HIDE DEF rows, B, o, I, row
  <2>6. ASSUME NEW r \in rows
        PROVE  /\ r.ent = o.ent /\ r.attr \in B /\ r.rtx = 0 /\ ~r.ttl
               /\ r.tx = tx[c] /\ r.val = pos[c]
    <3>1. PICK i \in I : r = row(i)
      BY <2>4
    <3> QED BY <2>2, <2>5, <3>1
  <2>7. ASSUME NEW a \in B PROVE \E r \in rows : r.attr = a
    BY <2>3, <2>4, <2>5
  <2> QED BY <2>6, <2>7
<1>17. View(c)' = View(c) \cup rows
  BY <1>1 DEF View, IInv, TypeOK
<1> HIDE DEF o, n, rows
<1>18. PICK h : /\ Run(h, triples, req[c].ops, n + 1, tx[c], locks[c])
                /\ h[n + 1] = Abstract!After(s, o, <<tx[c], n + 1>>)
  BY <1>2, <1>5, <1>7, <1>9, <1>11, RunExtends
<1>19. PICK t : t = h[n + 1]
  OBVIOUS
<1>20. /\ \A e \in Entities \ {o.ent} : t[e] = s[e]
       /\ o.op = "delete" => DOMAIN t[o.ent] = {}
       /\ o.op # "delete" =>
            /\ DOMAIN t[o.ent] = DOMAIN s[o.ent] \cup Abstract!Sets(s, o)
            /\ \A a \in DOMAIN t[o.ent] :
                 t[o.ent][a] = IF a \in Abstract!Sets(s, o) THEN <<tx[c], pos[c]>> ELSE s[o.ent][a]
  <2>1. <<tx[c], n + 1>> \in Nat \X Nat /\ <<tx[c], n + 1>> = <<tx[c], pos[c]>>
    BY <1>5, <1>7
  <2>2. t = Abstract!After(s, o, <<tx[c], n + 1>>)
    BY <1>18, <1>19
  <2> QED BY <1>2, <1>10, <2>1, <2>2, AfterOp
<1>21. \A e \in Entities \ {o.ent} : Shows(View(c)', t, e, DOMAIN t[e])
  <2>1. \A e \in Entities \ {o.ent} : get_entity(View(c)', e) = get_entity(View(c), e)
    BY <1>15, <1>17 DEF get_entity, Live
  <2> QED BY <1>14, <1>20, <2>1 DEF Shows
<1>22. Shows(View(c)', t, o.ent, DOMAIN t[o.ent])
  <2> DEFINE live == get_entity(View(c), o.ent)
  <2>1. get_entity(View(c)', o.ent) = live \cup rows
    BY <1>15, <1>17 DEF get_entity, Live
  <2>2. /\ {r.attr : r \in live} = DOMAIN s[o.ent] \ Clears(s, o)
        /\ \A r \in live : s[o.ent][r.attr] = <<r.tx, r.val>>
    BY <1>14 DEF Shows
  <2>3. {r.attr : r \in rows} = B
    BY <1>15
  <2> HIDE DEF live
  <2>4. {r.attr : r \in live \cup rows} = DOMAIN t[o.ent]
    BY <1>20, <2>2, <2>3 DEF Clears
  <2>5. \A r \in live \cup rows : t[o.ent][r.attr] = <<r.tx, r.val>>
    <3>1. CASE o.op = "delete"
      BY <1>15, <2>2, <3>1 DEF Clears
    <3>2. CASE o.op # "delete"
      BY <1>15, <1>20, <2>2, <3>2 DEF Clears
    <3> QED BY <3>1, <3>2
  <2> QED BY <2>1, <2>4, <2>5 DEF Shows
<1>23. Stage(c, t)'
  <2>1. pc'[c] # "retract"
    BY <1>4
  <2> QED BY <1>8, <1>21, <1>22, <2>1 DEF Stage, Left
<1>24. OnPath(c)'
  BY <1>1, <1>8, <1>18, <1>19, <1>23 DEF OnPath
<1>25. \A r \in add'[c] : ~r.ttl
  BY <1>1, <1>15 DEF SInv, NoTtl, IInv, TypeOK
<1> QED BY <1>1, <1>6, <1>24, <1>25, Others


\* A store that is s where L says, and u elsewhere.
Mix(s, u, L) == [e \in Entities |-> IF e \in L THEN s[e] ELSE u[e]]

\* An operation on an entity of L does not see the difference.
LEMMA MixedOp ==
    ASSUME NEW s \in Stores, NEW u \in Stores, NEW L, NEW o \in Op, o.ent \in L
    PROVE  /\ Mix(s, u, L) \in Stores
           /\ Mix(s, u, L)[o.ent] = s[o.ent]
           /\ Abstract!Sets(Mix(s, u, L), o) = Abstract!Sets(s, o)
           /\ Abstract!Possible(Mix(s, u, L), o) <=> Abstract!Possible(s, o)
           /\ Clears(Mix(s, u, L), o) = Clears(s, o)
           /\ \A w \in Nat \X Nat :
                Abstract!After(Mix(s, u, L), o, w) = Mix(Abstract!After(s, o, w), u, L)
<1> DEFINE x == Mix(s, u, L)
<1>1. x \in Stores /\ o.ent \in Entities /\ x[o.ent] = s[o.ent]
  BY DEF Mix, Stores, Op
<1>2. \A e \in Entities : x[e] = IF e \in L THEN s[e] ELSE u[e]
  BY DEF Mix
<1> HIDE DEF x
<1>3. Abstract!Sets(x, o) = Abstract!Sets(s, o)
  BY <1>1 DEF Abstract!Sets
<1>4. Abstract!Possible(x, o) <=> Abstract!Possible(s, o)
  BY <1>1 DEF Abstract!Possible
<1>5. Clears(x, o) = Clears(s, o)
  BY <1>1, <1>3 DEF Clears
<1>6. ASSUME NEW w \in Nat \X Nat
      PROVE  Abstract!After(x, o, w) = Mix(Abstract!After(s, o, w), u, L)
  <2> DEFINE t == Abstract!After(s, o, w)
             y == Abstract!After(x, o, w)
  <2>1. t \in Stores /\ y \in Stores
    BY <1>1, AfterOp
  <2>2. \A e \in Entities \ {o.ent} : t[e] = s[e] /\ y[e] = x[e]
    BY <1>1, AfterOp
  <2>3. y[o.ent] = t[o.ent]
    BY <1>1, <1>3 DEF Abstract!After, Stores
  <2> HIDE DEF t, y
  <2>4. \A e \in Entities : y[e] = IF e \in L THEN t[e] ELSE u[e]
    BY <1>2, <2>2, <2>3
  <2> QED BY <2>1, <2>4 DEF Mix, Stores, t, y
<1> QED BY <1>1, <1>3, <1>4, <1>5, <1>6 DEF x

\* A commit of c puts what it has written into all states of d's path.
LEMMA PathBesideCommit ==
    ASSUME Kinds \subseteq RestKinds, IInv, RInv, SInv, NEW c \in Clients, Commit(c),
           NEW d \in Clients \ {c}, Locals(d)' = Locals(d), pc[d] # "idle",
           NEW u \in Stores, \A e \in Entities : Shows(triples', u, e, DOMAIN u[e])
    PROVE  OnPath(d)'
<1> DEFINE L == locks[d]
           n == Done(d)
           o == CurrentOp(d)
           ops == req[d].ops
<1>1. OnPath(d) /\ Shaped(d) /\ o \in Op /\ ops \in UNION {[1 .. i -> Op] : i \in 1 .. MaxOps}
  BY CurrentOpType DEF SInv, IInv, Busy, Requests
<1>2. pos[d] \in 1 .. Len(ops) /\ Len(ops) \in Nat /\ \A i \in 1 .. Len(ops) : ops[i] \in Op
  BY RequestShape DEF IInv, Busy
<1>3. n \in Nat /\ n <= Len(ops) /\ tx[d] \in Nat
  BY <1>2 DEF Done, IInv, TypeOK
<1>4. PICK g, s : Run(g, triples, ops, n, tx[d], L) /\ Stage(d, s) /\ s = g[n]
  BY <1>1 DEF OnPath
<1>5. s \in Stores /\ g[0] \in Stores /\ \A m \in 0 .. n : g[m] \in Stores
  BY <1>3, <1>4 DEF Run
<1>6. \A e \in L : get_entity(triples', e) = get_entity(triples, e)
  <2>1. triples' = (triples \ del[c]) \cup add[c]
    BY DEF Commit, View
  <2>2. \A r \in add[c] \cup del[c] : r.ent \notin L
    BY DEF RInv, Within, LocksApart
  <2> QED BY <2>1, <2>2 DEF get_entity, Live
<1>7. \A e \in Entities : get_entity(View(d)', e) =
        IF e \in L THEN get_entity(View(d), e) ELSE get_entity(triples', e)
  <2>1. triples' = (triples \ del[c]) \cup add[c]
    BY DEF Commit, View
  <2>2. \A r \in add[c] \cup del[c] : r.ent \notin L
    BY DEF RInv, Within, LocksApart
  <2>3. \A r \in add[d] \cup del[d] : r.ent \in L
    BY DEF RInv, Within
  <2>4. View(d)' = (triples' \ del[d]) \cup add[d]
    BY DEF View, Locals
  <2> QED BY <2>1, <2>2, <2>3, <2>4 DEF get_entity, Live, View
<1> DEFINE h == [m \in 0 .. n |-> Mix(g[m], u, L)]
<1>8. \A x \in Stores : /\ Mix(x, u, L) \in Stores
                        /\ \A e \in Entities : Mix(x, u, L)[e] = IF e \in L THEN x[e] ELSE u[e]
  BY DEF Mix, Stores
<1> HIDE DEF L, n, o, ops
<1>9. Run(h, triples', ops, n, tx[d], L)
  <2>1. h \in [0 .. n -> Stores] /\ h[0] = Mix(g[0], u, L)
    BY <1>3, <1>5, <1>8
  <2>2. \A e \in Entities : Shows(triples', h[0], e, DOMAIN h[0][e])
    <3>1. \A e \in Entities : Shows(triples, g[0], e, DOMAIN g[0][e])
      BY <1>4 DEF Run
    <3> SUFFICES ASSUME NEW e \in Entities PROVE Shows(triples', h[0], e, DOMAIN h[0][e])
      OBVIOUS
    <3> HIDE DEF h
    <3>2. h[0][e] = IF e \in L THEN g[0][e] ELSE u[e]
      BY <1>5, <1>8, <2>1
    <3>3. CASE e \in L
      BY <1>6, <3>1, <3>2, <3>3 DEF Shows
    <3>4. CASE e \notin L
      BY <3>2, <3>4 DEF Shows
    <3> QED BY <3>3, <3>4
  <2>3. ASSUME NEW m \in 1 .. n
        PROVE  /\ Abstract!Possible(h[m - 1], ops[m])
               /\ h[m] = Abstract!After(h[m - 1], ops[m], <<tx[d], m>>)
               /\ ops[m].ent \in L
    <3>1. m - 1 \in 0 .. n /\ m \in 0 .. n /\ m \in 1 .. Len(ops)
      BY <1>2, <1>3
    <3>2. h[m] = Mix(g[m], u, L) /\ h[m - 1] = Mix(g[m - 1], u, L)
      BY <3>1
    <3>3. g[m - 1] \in Stores /\ ops[m] \in Op /\ <<tx[d], m>> \in Nat \X Nat
      BY <1>2, <1>3, <1>5, <3>1
    <3>4. /\ Abstract!Possible(g[m - 1], ops[m])
          /\ g[m] = Abstract!After(g[m - 1], ops[m], <<tx[d], m>>)
          /\ ops[m].ent \in L
      BY <1>4 DEF Run
    <3> HIDE DEF h
    <3> QED BY <3>2, <3>3, <3>4, MixedOp
  <2> HIDE DEF h
  <2> QED BY <2>1, <2>2, <2>3 DEF Run
<1>10. PICK t : t = h[n] /\ t = Mix(s, u, L)
  BY <1>3, <1>4
<1>11. /\ Done(d)' = n /\ CurrentOp(d)' = o
       /\ Decided(d)' = Decided(d) /\ Retracted(d)' = Retracted(d)
       /\ creating'[d] = creating[d] /\ buf'[d] = buf[d] /\ locks'[d] = L /\ pos'[d] = pos[d]
       /\ req'[d].ops = ops /\ tx'[d] = tx[d] /\ pc'[d] = pc[d]
  BY DEF Locals, Done, CurrentOp, Decided, Retracted, n, o, L, ops
<1>12. Decided(d) => /\ Abstract!Possible(t, o) /\ o.ent \in L /\ o.ent \in Entities
                     /\ creating[d] <=> t[o.ent] = Abstract!Absent
                     /\ Clears(t, o) = Clears(s, o) /\ t[o.ent] = s[o.ent]
  <2>1. Decided(d) => /\ Abstract!Possible(s, o) /\ o.ent \in L
                      /\ creating[d] <=> s[o.ent] = Abstract!Absent
    BY <1>4 DEF Stage, o, L
  <2>2. o.ent \in Entities
    BY <1>1 DEF Op
  <2> SUFFICES ASSUME Decided(d) PROVE <1>12!2
    OBVIOUS
  <2>3. /\ t[o.ent] = s[o.ent] /\ Clears(t, o) = Clears(s, o)
        /\ Abstract!Possible(t, o) <=> Abstract!Possible(s, o)
    <3> HIDE DEF h
    <3>1. o \in Op /\ o.ent \in L /\ s \in Stores /\ t = Mix(s, u, L)
      BY <1>1, <1>5, <1>10, <2>1
    <3>2. /\ Mix(s, u, L)[o.ent] = s[o.ent] /\ Clears(Mix(s, u, L), o) = Clears(s, o)
          /\ Abstract!Possible(Mix(s, u, L), o) <=> Abstract!Possible(s, o)
      BY <3>1, MixedOp
    <3> QED BY <3>1, <3>2
  <2> QED BY <2>1, <2>2, <2>3
<1>13. \A e \in Entities : Shows(View(d)', t, e, Left(d, t, e)')
  <2> SUFFICES ASSUME NEW e \in Entities PROVE Shows(View(d)', t, e, Left(d, t, e)')
    OBVIOUS
  <2>1. Retracted(d) \/ pc[d] = "retract" => Decided(d)
    BY <1>1 DEF Retracted, Decided, Shaped
  <2>2. CASE e \in L
    <3>1. t[e] = s[e] /\ get_entity(View(d)', e) = get_entity(View(d), e)
      BY <1>5, <1>7, <1>8, <1>10, <2>2
    <3>2. Left(d, t, e)' = Left(d, s, e)
      BY <1>11, <1>12, <2>1, <3>1 DEF Left, o
    <3>3. Shows(View(d), s, e, Left(d, s, e))
      BY <1>4 DEF Stage
    <3> QED BY <3>1, <3>2, <3>3 DEF Shows
  <2>3. CASE e \notin L
    <3>1. t[e] = u[e] /\ get_entity(View(d)', e) = get_entity(triples', e)
      BY <1>5, <1>7, <1>8, <1>10, <2>3
    <3>2. Left(d, t, e)' = DOMAIN u[e]
      BY <1>11, <1>12, <2>1, <2>3, <3>1 DEF Left
    <3> QED BY <3>1, <3>2 DEF Shows
  <2> QED BY <2>2, <2>3
<1>14. Retracted(d) => buf[d] = InputsOf(o, creating[d], pos[d])
  BY <1>4 DEF Stage, o
<1>15. Stage(d, t)'
  BY <1>11, <1>12, <1>13, <1>14 DEF Stage
<1> HIDE DEF h
<1> QED BY <1>9, <1>10, <1>11, <1>15 DEF OnPath


LEMMA PathCommit ==
    ASSUME Kinds \subseteq RestKinds, IInv, RInv, SInv, NEW c \in Clients, Commit(c)
    PROVE  SInv'
<1>1. pc[c] = "commit" /\ triples' = View(c) /\ req[c].kind \in RestKinds /\ Shaped(c) /\ OnPath(c)
  BY RestKind DEF Commit, SInv
<1>2. Return(c) /\ EndTransaction(c)
  BY <1>1 DEF Commit, AfterCommit, RestKinds, Shaped
<1>3. /\ pc'[c] = "idle" /\ add'[c] = {} /\ sweep' = sweep
      /\ \A d \in Clients \ {c} : Locals(d)' = Locals(d)
  BY <1>2 DEF Commit, Return, EndTransaction, Goto, Locals, IInv, TypeOK
<1>4. \A d \in Clients \ {c} : pc'[d] = pc[d] /\ add'[d] = add[d]
  BY <1>3 DEF Locals
<1>5. PICK g, u : Run(g, triples, req[c].ops, Done(c), tx[c], locks[c]) /\ Stage(c, u) /\ u = g[Done(c)]
  BY <1>1 DEF OnPath
<1>6. u \in Stores
  BY <1>1, <1>5 DEF Run, Done, IInv, TypeOK
<1>7. \A e \in Entities : Shows(triples', u, e, DOMAIN u[e])
  BY <1>1, <1>5 DEF Stage, Left, Retracted
<1>8. \A d \in Clients \ {c} : pc'[d] # "idle" => Shaped(d)' /\ OnPath(d)'
  <2> SUFFICES ASSUME NEW d \in Clients \ {c}, pc'[d] # "idle" PROVE Shaped(d)' /\ OnPath(d)'
    OBVIOUS
  <2>1. pc[d] # "idle" /\ Shaped(d) /\ Locals(d)' = Locals(d)
    BY <1>3, <1>4 DEF SInv
  <2>2. Shaped(d)'
    BY <2>1 DEF Shaped, Locals
  <2>3. OnPath(d)'
    BY <1>6, <1>7, <2>1, PathBesideCommit
  <2> QED BY <2>2, <2>3
<1>9. NoTtl'
  BY <1>1, <1>3, <1>4 DEF SInv, NoTtl, View
<1> QED BY <1>3, <1>8, <1>9 DEF SInv

\* Without deadlines only these steps are taken: the sweeper finds no row.
LEMMA PathSteps ==
    ASSUME Kinds \subseteq RestKinds, IInv, SInv, Next
    PROVE  \E c \in Clients :
             \/ Begin(c) \/ NextTxId(c) \/ Authorize(c) \/ RetractRow(c) \/ RetractEnds(c)
             \/ Insert(c) \/ Commit(c) \/ Rollback(c)
<1>1. ASSUME SweepStep PROVE FALSE
  <2>1. sweep = NoSweep /\ sweep.todo = {} /\ \A r \in triples : ~r.ttl
    BY DEF SInv, NoTtl, NoSweep
  <2>2. ASSUME NEW E \in SUBSET Entities, ExpireBegins(E) PROVE FALSE
    <3>1. {r \in Live(triples) : r.ttl /\ r.ent \in E} = {}
      BY <2>1 DEF Live
    <3> QED BY <2>2, <3>1 DEF ExpireBegins, NoSweep
  <2> QED BY <1>1, <2>1, <2>2 DEF SweepStep, ExpireRow, ExpireSkips, ExpireCommits, ExpireFails
<1>2. ASSUME NEW c \in Clients, SetEntityTtl(c) \/ RecordRoot(c) \/ RetractCommits(c) PROVE FALSE
  BY <1>2, RestKind DEF SetEntityTtl, RecordRoot, RetractCommits, SInv, Shaped, RestKinds
<1> QED BY <1>1, <1>2 DEF Next, ClientStep

LEMMA PathNext ==
    ASSUME Kinds \subseteq RestKinds, UseTtl \subseteq {FALSE}, IInv, RInv, SInv, [Next]_vars
    PROVE  SInv'
<1>1. CASE UNCHANGED vars
  <2>1. \A d \in Clients : Locals(d)' = Locals(d)
    BY <1>1 DEF vars, clientVars, Locals
  <2>2. triples' = triples /\ pc' = pc /\ add' = add /\ sweep' = sweep
    BY <1>1 DEF vars, clientVars
  <2>3. NoTtl'
    BY <2>2 DEF SInv, NoTtl
  <2> QED BY <2>1, <2>2, <2>3, Undisturbed DEF SInv
<1>2. CASE Next
  BY <1>2, PathSteps, PathBegin, PathNextTxId, PathAuthorize, PathRetractRow, PathRetractEnds, PathInsert,
     PathCommit, PathRollback
<1> QED BY <1>1, <1>2

\* Every step is a stuttering step of the abstract store, or applies a request.
LEMMA StepRefines ==
    ASSUME Kinds \subseteq RestKinds, Nat \ {0} \subseteq TxIds, IInv, SInv, [Next]_vars
    PROVE  [Abstract!Next]_objects
<1>1. CASE triples' = triples
  BY <1>1 DEF objects
<1>2. CASE Next /\ triples' # triples
  <2>1. PICK c \in Clients : Commit(c)
    BY <1>2, PathSteps DEF Begin, NextTxId, Authorize, RetractRow, RetractEnds, Insert, Rollback
  <2> QED BY <2>1, CommitApplies
<1> QED BY <1>1, <1>2 DEF vars

\* The HTTP write paths are atomic and serializable, for any entities,
\* attributes, clients and requests without $ttl: whatever the statements of
\* concurrent handlers do, in whatever order, the live rows change by whole
\* requests (POST /api/mutate and /api/batch; POST, PATCH and DELETE
\* /api/data), each applied to the store as it is when it commits.
THEOREM RestImplementsEntityStore ==
    ASSUME Kinds \subseteq RestKinds, UseTtl \subseteq {FALSE}, Nat \ {0} \subseteq TxIds
    PROVE  Spec => ImplementsEntityStore
<1>1. Init => SInv
  BY DEF Init, TripleStoreInit, SInv, NoTtl
<1>2. Init => Abstract!Init
  BY DEF Init, TripleStoreInit, objects, ObjectOf, get_entity, Live, Abstract!Init, Abstract!Absent
<1>3. PInv /\ RInv /\ SInv /\ [Next]_vars => SInv'
  BY PathNext DEF PInv, HInv
<1>4. PInv /\ SInv /\ [Next]_vars => [Abstract!Next]_objects
  BY StepRefines DEF PInv, HInv
<1> QED BY <1>1, <1>2, <1>3, <1>4, RestInit, RestNext, InitPInv, NextPInv, PTL
        DEF Spec, ImplementsEntityStore, Abstract!Spec
=============================================================================
