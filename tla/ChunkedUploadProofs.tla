------------------------- MODULE ChunkedUploadProofs -------------------------
(***************************************************************************)
(* For any number of chunks, requests and faults: without two PUTs of one  *)
(* chunk at once the file is whole unless a write of it was cut short, no  *)
(* recorded chunk is lost before the object has been stored, and a         *)
(* completed upload has had its object stored.                             *)
(***************************************************************************)
EXTENDS ChunkedUpload, TLAPS

\* The object and its metadata were stored before the parts are removed.
StoreOrder ==
    /\ \A p \in Puts : put[p].pc \in {"clean", "mark"} => finished
    /\ status = "completed" => finished

\* A recorded chunk, and that of a PUT about to record it, is staged unless the
\* parts were removed, by an assembly that stored the object or by the sweeper.
Staged ==
    /\ purging => status = "deleted"
    /\ status = "in_progress" /\ ~finished =>
        /\ \A p \in Puts : put[p].pc = "record" => part[put[p].chunk] # NoFile
        /\ \A i \in received : part[i] # NoFile

\* The file is whole, or an assembly is writing it and has left nothing out so
\* far: one that truncates it again starts over, one that ends early says so.
WritesAll(p) == put[p].pc = "storing" /\ 0 .. (put[p].next - 1) \subseteq object

ObjectOK ==
    /\ finished => created
    /\ \A p \in Puts : Rewriting(p) => created
    /\ ~overlapped /\ ~interrupted =>
        /\ created => object = Chunks \/ \E p \in Puts : WritesAll(p)
        /\ finished => sidecar \/ \E p \in Puts : Rewriting(p)

\* The assembly loop stays within the chunks.
NextInRange ==
    \A p \in Puts :
        put[p].pc \in {"new", "create", "write", "rename", "record", "reread", "assemble",
                       "storing"}
            => put[p].next \in Chunks

\* A request that writes has a file open.
OpenFile == \A p \in Puts : put[p].pc \in {"write", "rename"} => put[p].file \in Puts

\* An inode stands where the request that created it put it, under one name.
Created(q, i) == put[q].chunk = i /\ put[q].pc \notin {"new", "create"}

InodesApart ==
    /\ \A i \in Chunks, q \in Puts : tmp[i] = q \/ part[i] = q => Created(q, i)
    /\ \A i \in Chunks : tmp[i] # NoFile => tmp[i] # part[i]

\* Without overlaps the file a PUT has open is nobody else's, and is not the
\* staged one.
FileIsOwn(p) ==
    /\ put[p].pc \in {"write", "rename"} =>
        /\ put[p].file \in Puts
        /\ Created(put[p].file, put[p].chunk)
        /\ part[put[p].chunk] # put[p].file
        /\ tmp[put[p].chunk] \in {put[p].file, NoFile}
    /\ put[p].pc = "rename" => put[p].file \in whole

Apart ==
    \A p, q \in Puts : p # q /\ UnderWay(p) /\ UnderWay(q) => put[p].chunk # put[q].chunk

\* What an assembly has read is whole.
ReadWhole(p) ==
    /\ put[p].pc \in {"new", "create", "write", "rename", "record", "reread", "assemble"}
        => put[p].good = put[p].next
    /\ put[p].pc \in {"store", "storing"} => put[p].good = total_chunks

AloneOK ==
    ~overlapped =>
        /\ Apart
        /\ \A p \in Puts : FileIsOwn(p) /\ ReadWhole(p)
        /\ \A i \in Chunks : part[i] # NoFile => part[i] \in whole

IInv ==
    /\ TypeOK /\ StoreOrder /\ Staged /\ NextInRange /\ OpenFile
    /\ InodesApart /\ AloneOK /\ ObjectOK

-----------------------------------------------------------------------------

LEMMA ChunksNat == Chunks \subseteq Nat /\ 0 \in Chunks /\ 0 \in 0 .. total_chunks
BY ConstantsAreSane DEF Chunks

LEMMA InitIInv == Init => IInv
<1> SUFFICES ASSUME Init PROVE IInv
  OBVIOUS
<1> USE ConstantsAreSane, ChunksNat DEF Init
<1>1. Fresh \in PutStates
  BY DEF Fresh, PutStates, Labels
<1>2. TypeOK
  <2>1. put \in [Puts -> PutStates] /\ faults \in 0 .. MaxFaults
    BY <1>1
  <2>2. /\ tmp \in [Chunks -> Puts \cup {NoFile}]
        /\ part \in [Chunks -> Puts \cup {NoFile}]
    OBVIOUS
  <2> QED BY <2>1, <2>2 DEF TypeOK
<1>3. \A p \in Puts : put[p].pc = "new" /\ put[p].next = 0 /\ put[p].good = 0
  BY DEF Fresh
<1>4. StoreOrder /\ Staged /\ NextInRange /\ OpenFile
  BY <1>3 DEF OpenFile, StoreOrder, Staged, NextInRange
<1>5. InodesApart
  BY DEF InodesApart
<1>6. AloneOK
  BY <1>3 DEF AloneOK, Apart, FileIsOwn, ReadWhole, UnderWay
<1>7. ObjectOK
  BY <1>3 DEF ObjectOK, Rewriting
<1> QED BY <1>2, <1>4, <1>5, <1>6, <1>7 DEF IInv

\* A step that moves one request, its fields given.
LEMMA PutMoves ==
    ASSUME TypeOK, NEW p \in Puts, NEW st \in PutStates, put' = [put EXCEPT ![p] = st]
    PROVE  /\ put' \in [Puts -> PutStates]
           /\ put'[p] = st
           /\ \A q \in Puts \ {p} : put'[q] = put[q]
BY DEF TypeOK

LEMMA GotoMoves ==
    ASSUME TypeOK, NEW p \in Puts, NEW label \in Labels, Goto(p, label)
    PROVE  /\ put' \in [Puts -> PutStates]
           /\ \A q \in Puts \ {p} : put'[q] = put[q]
           /\ put'[p].pc = label
           /\ put'[p].chunk = put[p].chunk
           /\ put'[p].file = put[p].file
           /\ put'[p].next = put[p].next
           /\ put'[p].good = put[p].good
<1> DEFINE st == [pc |-> label, chunk |-> put[p].chunk, file |-> put[p].file,
                  next |-> put[p].next, good |-> put[p].good]
<1>1. put[p] \in PutStates
  BY DEF TypeOK
<1>2. st \in PutStates
  BY <1>1 DEF PutStates
<1>3. [put[p] EXCEPT !.pc = label] = st
  BY <1>1 DEF PutStates
<1> HIDE DEF st
<1>5. put' = [put EXCEPT ![p] = st]
  BY <1>3 DEF Goto
<1>4. put' \in [Puts -> PutStates] /\ put'[p] = st /\ \A q \in Puts \ {p} : put'[q] = put[q]
  BY <1>2, <1>5, PutMoves
<1> QED BY <1>4 DEF st

\* The type of what the request reads.
LEMMA PutType ==
    ASSUME TypeOK, NEW p \in Puts
    PROVE  /\ put[p].pc \in Labels /\ put[p].chunk \in Chunks
           /\ put[p].file \in Puts \cup {NoFile} /\ put[p].next \in 0 .. total_chunks
           /\ put[p].good \in 0 .. total_chunks
BY DEF TypeOK, PutStates

Late == {"record", "reread", "assemble", "store", "storing", "sidecar", "meta", "clean",
         "mark", "done"}

\* Steps outside put_object leave the object as it is.
LEMMA ObjectUntouched ==
    ASSUME ObjectOK, UNCHANGED objectVars, overlapped => overlapped',
           \A q \in Puts : put'[q] = put[q] \/ (~Rewriting(q) /\ ~Rewriting(q)')
    PROVE  ObjectOK'
<1> USE DEF objectVars
<1>1. \A q \in Puts : Rewriting(q)' <=> Rewriting(q)
  BY DEF Rewriting
<1>2. \A q \in Puts : WritesAll(q) => WritesAll(q)'
  BY DEF WritesAll, Rewriting
<1>3. (finished => created)' /\ \A p \in Puts : Rewriting(p)' => created'
  BY <1>1 DEF ObjectOK
<1>4. ASSUME ~overlapped', ~interrupted'
      PROVE  /\ created' => object' = Chunks \/ \E p \in Puts : WritesAll(p)'
             /\ finished' => sidecar' \/ \E p \in Puts : Rewriting(p)'
  BY <1>1, <1>2, <1>4 DEF ObjectOK
<1> QED BY <1>3, <1>4 DEF ObjectOK

\* A request past its rename disturbs nothing that is said of files.
LEMMA FilesUntouched ==
    ASSUME IInv, NEW p \in Puts, UnderWay(p), UNCHANGED <<fileVars, overlapped>>,
           \A q \in Puts \ {p} : put'[q] = put[q],
           put'[p].chunk = put[p].chunk, put'[p].pc \in Late,
           overlapped \/ ReadWhole(p)'
    PROVE  InodesApart' /\ AloneOK'
<1> USE DEF fileVars
<1>1. \A q \in Puts, i \in Chunks : Created(q, i) => Created(q, i)'
  BY DEF Created, Late
<1>2. InodesApart'
  BY <1>1 DEF IInv, InodesApart
<1>3. ASSUME ~overlapped' PROVE Apart' /\ \A q \in Puts : FileIsOwn(q)' /\ ReadWhole(q)'
  <2>1. Apart /\ \A q \in Puts : FileIsOwn(q) /\ ReadWhole(q)
    BY <1>3 DEF IInv, AloneOK
  <2>2. Apart'
    BY <2>1 DEF Apart, UnderWay
  <2>3. ASSUME NEW q \in Puts PROVE FileIsOwn(q)'
    <3>1. CASE q = p
      BY <3>1 DEF FileIsOwn, Late
    <3>2. CASE q # p
      <4>1. put'[q] = put[q]
        BY <3>2
      <4>2. put[q].pc \in {"write", "rename"} => Created(put[q].file, put[q].chunk)'
        BY <2>1, <4>1 DEF FileIsOwn, Created, Late
      <4> QED BY <2>1, <4>1, <4>2 DEF FileIsOwn
    <3> QED BY <3>1, <3>2
  <2>4. ASSUME NEW q \in Puts PROVE ReadWhole(q)'
    BY <2>1, <1>3 DEF ReadWhole
  <2> QED BY <2>2, <2>3, <2>4
<1>4. AloneOK'
  BY <1>3 DEF IInv, AloneOK
<1> QED BY <1>2, <1>4

\* A request that moves to a label of no promise.
LEMMA QuietStep ==
    ASSUME IInv, NEW p \in Puts, NEW label \in {"reread", "assemble", "done"},
           UnderWay(p), Goto(p, label), label = "assemble" => put[p].next \in Chunks,
           label = "reread" => put[p].next \in Chunks,
           UNCHANGED <<rowVars, fileVars, created, object, sidecar, finished, overlapped>>,
           interrupted' = (interrupted \/ Rewriting(p)),
           label # "done" => put[p].pc \in {"record", "reread"},
           faults' \in 0 .. MaxFaults
    PROVE  IInv'
<1> USE DEF rowVars
<1>1. label \in Labels
  BY DEF Labels
<1>2. /\ put' \in [Puts -> PutStates]
      /\ \A q \in Puts \ {p} : put'[q] = put[q]
      /\ put'[p].pc = label
      /\ put'[p].chunk = put[p].chunk
      /\ put'[p].next = put[p].next
      /\ put'[p].good = put[p].good
  BY <1>1, GotoMoves DEF IInv
<1>3. TypeOK'
  BY <1>2 DEF IInv, TypeOK, fileVars
<1>4. StoreOrder'
  BY <1>2 DEF IInv, StoreOrder
<1>5. Staged'
  BY <1>2 DEF IInv, Staged, fileVars
<1>6. NextInRange' /\ OpenFile'
  BY <1>2 DEF IInv, NextInRange, OpenFile
<1>8. overlapped \/ ReadWhole(p)'
  BY <1>2 DEF IInv, AloneOK, ReadWhole
<1>7. InodesApart' /\ AloneOK'
  BY <1>2, <1>8, FilesUntouched DEF Late
<1>9. ObjectOK'
  <2>1. CASE Rewriting(p)
    <3>1. \A q \in Puts : Rewriting(q)' => Rewriting(q)
      BY <1>2 DEF Rewriting
    <3> QED BY <2>1, <3>1 DEF IInv, ObjectOK
  <2>2. CASE ~Rewriting(p)
    <3>1. \A q \in Puts : put'[q] = put[q] \/ (~Rewriting(q) /\ ~Rewriting(q)')
      BY <1>2, <2>2 DEF Rewriting
    <3>2. UNCHANGED objectVars
      BY <2>2 DEF IInv, TypeOK, objectVars
    <3> QED BY <3>1, <3>2, ObjectUntouched DEF IInv
  <2> QED BY <2>1, <2>2
<1> QED BY <1>3, <1>4, <1>5, <1>6, <1>7, <1>9 DEF IInv

LEMMA RenameFailsStep == ASSUME IInv, NEW p \in Puts, RenameFails(p) PROVE IInv'
<1>1. faults' \in 0 .. MaxFaults
  BY DEF IInv, TypeOK, RenameFails, envVars
<1>2. interrupted' = (interrupted \/ Rewriting(p))
  BY DEF IInv, TypeOK, RenameFails, objectVars, Rewriting
<1> QED BY <1>1, <1>2, QuietStep DEF RenameFails, UnderWay, envVars, objectVars

LEMMA RereadStep == ASSUME IInv, NEW p \in Puts, Reread(p) PROVE IInv'
<1>1. faults' \in 0 .. MaxFaults /\ put[p].next \in Chunks
  BY DEF IInv, TypeOK, Reread, envVars, NextInRange
<1>2. PICK label \in {"assemble", "done"} : Goto(p, label)
  BY DEF Reread
<1>3. interrupted' = (interrupted \/ Rewriting(p))
  BY DEF IInv, TypeOK, Reread, objectVars, Rewriting
<1> QED BY <1>1, <1>2, <1>3, QuietStep DEF Reread, UnderWay, envVars, objectVars

LEMMA PutFailsStep == ASSUME IInv, NEW p \in Puts, PutFails(p) PROVE IInv'
<1>1. faults' \in 0 .. MaxFaults
  BY ConstantsAreSane DEF IInv, TypeOK, PutFails
<1> QED BY <1>1, QuietStep DEF PutFails

\* The index is recorded: the chunk is staged.
LEMMA RecordStep == ASSUME IInv, NEW p \in Puts, Record(p) PROVE IInv'
<1> USE DEF Record, envVars, objectVars
<1>1. "reread" \in Labels
  BY DEF Labels
<1>2. /\ put' \in [Puts -> PutStates]
      /\ \A q \in Puts \ {p} : put'[q] = put[q]
      /\ put'[p].pc = "reread"
      /\ put'[p].chunk = put[p].chunk
      /\ put'[p].next = put[p].next
      /\ put'[p].good = put[p].good
  BY <1>1, GotoMoves DEF IInv
<1>3. put[p].chunk \in Chunks
  BY PutType DEF IInv
<1>4. TypeOK'
  BY <1>2, <1>3 DEF IInv, TypeOK, fileVars
<1>5. StoreOrder'
  BY <1>2 DEF IInv, StoreOrder
<1>6. Staged'
  <2>1. (purging => status = "deleted")'
    BY DEF IInv, Staged
  <2>2. ASSUME status' = "in_progress", ~finished'
        PROVE  /\ \A q \in Puts : put'[q].pc = "record" => part'[put'[q].chunk] # NoFile
               /\ \A i \in received' : part'[i] # NoFile
    <3>1. /\ \A q \in Puts : put[q].pc = "record" => part[put[q].chunk] # NoFile
          /\ \A i \in received : part[i] # NoFile
      BY <2>2 DEF IInv, Staged
    <3>2. part' = part /\ received' = received \cup {put[p].chunk}
      BY <2>2 DEF fileVars
    <3> QED BY <1>2, <3>1, <3>2
  <2> QED BY <2>1, <2>2 DEF Staged
<1>7. NextInRange' /\ OpenFile'
  BY <1>2 DEF IInv, NextInRange, OpenFile
<1>8. overlapped \/ ReadWhole(p)'
  BY <1>2 DEF IInv, AloneOK, ReadWhole
<1>9. InodesApart' /\ AloneOK'
  BY <1>2, <1>8, FilesUntouched DEF Late, UnderWay
<1>10. ObjectOK'
  <2>1. \A q \in Puts : put'[q] = put[q] \/ (~Rewriting(q) /\ ~Rewriting(q)')
    BY <1>2 DEF Rewriting
  <2> QED BY <2>1, ObjectUntouched DEF IInv
<1> QED BY <1>4, <1>5, <1>6, <1>7, <1>9, <1>10 DEF IInv

\* A step of put_object, which touches neither the row nor the staged files.
LEMMA ObjectStep ==
    ASSUME IInv, NEW p \in Puts, UNCHANGED <<rowVars, fileVars, envVars>>,
           put[p].pc = "store" \/ Rewriting(p),
           put' \in [Puts -> PutStates], \A q \in Puts \ {p} : put'[q] = put[q],
           put'[p].chunk = put[p].chunk,
           Rewriting(p)' \/ (put'[p].pc = "clean" /\ finished'),
           put'[p].pc = "storing" => put'[p].next \in Chunks /\ put'[p].good = put[p].good,
           put'[p].pc = "storing" => put[p].pc \in {"store", "storing"},
           created' \in BOOLEAN, object' \subseteq Chunks, sidecar' \in BOOLEAN,
           finished' \in BOOLEAN, interrupted' \in BOOLEAN, finished => finished',
           ObjectOK'
    PROVE  IInv'
<1> USE DEF rowVars, fileVars, envVars
<1>1. TypeOK'
  BY DEF IInv, TypeOK
<1>2. StoreOrder'
  BY DEF IInv, StoreOrder, Rewriting
<1>3. Staged'
  BY DEF IInv, Staged, Rewriting
<1>4. NextInRange' /\ OpenFile'
  BY DEF IInv, NextInRange, OpenFile, Rewriting
<1>5. overlapped \/ ReadWhole(p)'
  BY DEF IInv, AloneOK, ReadWhole, Rewriting
<1>6. UnderWay(p) /\ put'[p].pc \in Late
  BY DEF UnderWay, Late, Rewriting
<1>7. InodesApart' /\ AloneOK'
  BY <1>5, <1>6, FilesUntouched
<1> QED BY <1>1, <1>2, <1>3, <1>4, <1>7 DEF IInv

\* The file is truncated: this request has everything to write.
LEMMA StoreOpenStep == ASSUME IInv, NEW p \in Puts, StoreOpen(p) PROVE IInv'
<1> DEFINE st == [put[p] EXCEPT !.pc = "storing", !.next = 0]
<1>1. put[p] \in PutStates /\ put' = [put EXCEPT ![p] = st]
  BY DEF IInv, TypeOK, StoreOpen
<1>2. /\ st \in PutStates /\ st.pc = "storing" /\ st.next = 0
      /\ st.chunk = put[p].chunk /\ st.good = put[p].good
  BY <1>1, ChunksNat DEF PutStates, Labels
<1> HIDE DEF st
<1>3. put' \in [Puts -> PutStates] /\ put'[p] = st /\ \A q \in Puts \ {p} : put'[q] = put[q]
  BY <1>1, <1>2, PutMoves DEF IInv
<1>4. WritesAll(p)' /\ Rewriting(p)'
  <2>1. 0 .. (put'[p].next - 1) = {}
    BY <1>2, <1>3
  <2> QED BY <1>2, <1>3, <2>1 DEF WritesAll, Rewriting
<1>5. ObjectOK'
  BY <1>4 DEF ObjectOK, StoreOpen
<1>6. /\ created' \in BOOLEAN /\ object' \subseteq Chunks /\ sidecar' \in BOOLEAN
      /\ finished' \in BOOLEAN /\ interrupted' \in BOOLEAN /\ (finished => finished')
  BY DEF IInv, TypeOK, StoreOpen
<1>7. put'[p].next \in Chunks /\ put'[p].good = put[p].good /\ put'[p].chunk = put[p].chunk
  BY <1>2, <1>3, ChunksNat
<1> QED BY <1>3, <1>4, <1>5, <1>6, <1>7, ObjectStep DEF StoreOpen

\* A chunk is written; after the last one nothing of the file is missing.
LEMMA StoreChunkStep == ASSUME IInv, NEW p \in Puts, StoreChunk(p) PROVE IInv'
<1> DEFINE i == put[p].next
           label == IF i + 1 = total_chunks THEN "sidecar" ELSE "storing"
           st == [put[p] EXCEPT !.next = i + 1, !.pc = label]
<1>1. /\ put[p] \in PutStates /\ put[p].pc = "storing" /\ i \in Chunks
      /\ put' = [put EXCEPT ![p] = st]
  BY DEF IInv, TypeOK, NextInRange, StoreChunk
<1>2. i + 1 \in 0 .. total_chunks /\ (i + 1 # total_chunks => i + 1 \in Chunks)
  BY <1>1, ConstantsAreSane DEF Chunks
<1>3. label \in {"sidecar", "storing"} /\ label \in Labels
  BY DEF Labels
<1>4. label = "storing" <=> i + 1 # total_chunks
  OBVIOUS
<1> HIDE DEF label
<1>5. /\ st \in PutStates /\ st.pc = label /\ st.next = i + 1
      /\ st.chunk = put[p].chunk /\ st.good = put[p].good
  BY <1>1, <1>2, <1>3 DEF PutStates
<1> HIDE DEF st
<1>6. put' \in [Puts -> PutStates] /\ put'[p] = st /\ \A q \in Puts \ {p} : put'[q] = put[q]
  BY <1>1, <1>5, PutMoves DEF IInv
<1>7. /\ object' = IF i < put[p].good THEN object \cup {i} ELSE object \ (put[p].good .. i)
      /\ UNCHANGED <<rowVars, fileVars, envVars, created, sidecar, finished, interrupted>>
  BY DEF StoreChunk
<1>8. object' \subseteq Chunks
  BY <1>1, <1>7 DEF IInv, TypeOK
<1>9. ~overlapped => object' = object \cup {i}
  <2>1. ~overlapped => put[p].good = total_chunks
    BY <1>1 DEF IInv, AloneOK, ReadWhole
  <2>2. i < total_chunks
    BY <1>1, ConstantsAreSane DEF Chunks
  <2> QED BY <2>1, <2>2, <1>7
<1>10. Rewriting(p)' /\ Rewriting(p) /\ \A q \in Puts : Rewriting(q)' <=> Rewriting(q)
  BY <1>1, <1>3, <1>5, <1>6 DEF Rewriting
<1>11. ASSUME ~overlapped', ~interrupted', created'
       PROVE  object' = Chunks \/ \E q \in Puts : WritesAll(q)'
  <2>1. object' = object \cup {i}
    BY <1>9, <1>7, <1>11 DEF envVars
  <2>2. CASE object = Chunks
    BY <2>1, <2>2, <1>1
  <2>3. ASSUME NEW q \in Puts, q # p, WritesAll(q) PROVE WritesAll(q)'
    BY <2>1, <2>3, <1>6 DEF WritesAll
  <2>4. CASE WritesAll(p)
    <3>1. 0 .. (i - 1) \subseteq object
      BY <2>4 DEF WritesAll
    <3>5. i \in Nat
      BY <1>1, ChunksNat
    <3>2. 0 .. i \subseteq object'
      <4>1. \A k \in 0 .. i : k = i \/ k \in 0 .. (i - 1)
        BY <3>5
      <4> QED BY <2>1, <3>1, <4>1
    <3>3. CASE label = "storing"
      <4>1. put'[p].pc = "storing" /\ put'[p].next - 1 = i
        <5>1. put'[p].pc = "storing" /\ put'[p].next = i + 1
          BY <3>3, <1>5, <1>6
        <5> QED BY <3>5, <5>1
      <4> QED BY <3>2, <4>1 DEF WritesAll
    <3>4. CASE label # "storing"
      <4>1. 0 .. i = Chunks
        BY <3>4, <1>1, <1>4, ConstantsAreSane DEF Chunks
      <4> QED BY <3>2, <4>1, <1>8
    <3> QED BY <3>3, <3>4
  <2>5. object = Chunks \/ \E q \in Puts : WritesAll(q)
    BY <1>7, <1>11 DEF IInv, ObjectOK, envVars
  <2> QED BY <2>2, <2>3, <2>4, <2>5
<1>12. ObjectOK'
  BY <1>7, <1>10, <1>11 DEF IInv, ObjectOK, envVars
<1>13. put'[p].pc = "storing" => put'[p].next \in Chunks /\ put'[p].good = put[p].good
  BY <1>2, <1>4, <1>5, <1>6
<1>14. put'[p].chunk = put[p].chunk
  BY <1>5, <1>6
<1>15. /\ created' \in BOOLEAN /\ sidecar' \in BOOLEAN
       /\ finished' \in BOOLEAN /\ interrupted' \in BOOLEAN /\ (finished => finished')
  BY <1>7 DEF IInv, TypeOK
<1> QED BY <1>1, <1>6, <1>7, <1>8, <1>10, <1>12, <1>13, <1>14, <1>15, ObjectStep

\* The metadata is truncated, by the request that is to write it.
LEMMA SidecarOpenStep == ASSUME IInv, NEW p \in Puts, SidecarOpen(p) PROVE IInv'
<1> USE DEF SidecarOpen
<1>0. "meta" \in Labels
  BY DEF Labels
<1>1. /\ put' \in [Puts -> PutStates]
      /\ \A q \in Puts \ {p} : put'[q] = put[q]
      /\ put'[p].pc = "meta"
      /\ put'[p].chunk = put[p].chunk
      /\ put'[p].good = put[p].good
  BY <1>0, GotoMoves DEF IInv
<1>2. Rewriting(p) /\ Rewriting(p)'
  BY <1>1 DEF Rewriting
<1>3. \A q \in Puts : (WritesAll(q) => WritesAll(q)') /\ (Rewriting(q)' => Rewriting(q))
  BY <1>1, <1>2 DEF WritesAll, Rewriting
<1>4. ObjectOK'
  BY <1>2, <1>3 DEF IInv, ObjectOK, envVars
<1>5. /\ created' \in BOOLEAN /\ object' \subseteq Chunks /\ sidecar' \in BOOLEAN
      /\ finished' \in BOOLEAN /\ interrupted' \in BOOLEAN /\ (finished => finished')
  BY DEF IInv, TypeOK
<1> QED BY <1>1, <1>2, <1>4, <1>5, ObjectStep

LEMMA StoreSidecarStep == ASSUME IInv, NEW p \in Puts, StoreSidecar(p) PROVE IInv'
<1> USE DEF StoreSidecar
<1>0. "clean" \in Labels
  BY DEF Labels
<1>1. /\ put' \in [Puts -> PutStates]
      /\ \A q \in Puts \ {p} : put'[q] = put[q]
      /\ put'[p].pc = "clean"
      /\ put'[p].chunk = put[p].chunk
      /\ put'[p].good = put[p].good
  BY <1>0, GotoMoves DEF IInv
<1>2. Rewriting(p)
  BY DEF Rewriting
<1>3. \A q \in Puts : (WritesAll(q) => WritesAll(q)') /\ (Rewriting(q)' => Rewriting(q))
  BY <1>1 DEF WritesAll, Rewriting
<1>4. ObjectOK'
  BY <1>2, <1>3 DEF IInv, ObjectOK, envVars
<1>5. /\ created' \in BOOLEAN /\ object' \subseteq Chunks /\ sidecar' \in BOOLEAN
      /\ finished' /\ finished' \in BOOLEAN /\ interrupted' \in BOOLEAN
  BY DEF IInv, TypeOK
<1> QED BY <1>1, <1>2, <1>4, <1>5, ObjectStep

LEMMA MarkCompleteStep == ASSUME IInv, NEW p \in Puts, MarkComplete(p) PROVE IInv'
<1> USE DEF MarkComplete, envVars, objectVars
<1>0. "done" \in Labels
  BY DEF Labels
<1>1. /\ put' \in [Puts -> PutStates]
      /\ \A q \in Puts \ {p} : put'[q] = put[q]
      /\ put'[p].pc = "done"
      /\ put'[p].chunk = put[p].chunk
      /\ put'[p].file = put[p].file
      /\ put'[p].next = put[p].next
      /\ put'[p].good = put[p].good
  BY <1>0, GotoMoves DEF IInv
<1>2. status' \in {"deleted", "completed"} /\ (status = "deleted" => status' = "deleted")
  OBVIOUS
<1>3. TypeOK'
  BY <1>1, <1>2 DEF IInv, TypeOK, fileVars
<1>4. StoreOrder'
  BY <1>1 DEF IInv, StoreOrder
<1>5. Staged'
  BY <1>1, <1>2 DEF IInv, Staged, fileVars
<1>6. NextInRange' /\ OpenFile'
  BY <1>1 DEF IInv, NextInRange, OpenFile
<1>7. overlapped \/ ReadWhole(p)'
  BY <1>1 DEF ReadWhole
<1>8. InodesApart' /\ AloneOK'
  BY <1>1, <1>7, FilesUntouched DEF Late, UnderWay
<1>9. ObjectOK'
  <2>1. \A q \in Puts : put'[q] = put[q] \/ (~Rewriting(q) /\ ~Rewriting(q)')
    BY <1>1 DEF Rewriting
  <2> QED BY <2>1, ObjectUntouched DEF IInv
<1> QED BY <1>3, <1>4, <1>5, <1>6, <1>8, <1>9 DEF IInv

LEMMA ReadFailsStep == ASSUME IInv, NEW p \in Puts, ReadFails(p) PROVE IInv'
<1>1. faults' \in 0 .. MaxFaults
  BY DEF IInv, TypeOK, ReadFails, envVars
<1>2. interrupted' = (interrupted \/ Rewriting(p))
  BY DEF IInv, TypeOK, ReadFails, objectVars, Rewriting
<1> QED BY <1>1, <1>2, QuietStep DEF ReadFails, UnderWay, envVars, objectVars

\* One chunk is read: whole, unless PUTs overlapped.
LEMMA ReadChunkStep == ASSUME IInv, NEW p \in Puts, ReadChunk(p) PROVE IInv'
<1> USE DEF envVars, rowVars, objectVars
<1> DEFINE i == put[p].next
           label == IF i + 1 = total_chunks THEN "store" ELSE "assemble"
           good == IF put[p].good = i /\ part[i] \in whole THEN i + 1 ELSE put[p].good
           st == [put[p] EXCEPT !.next = i + 1, !.good = good, !.pc = label]
<1>1. put[p] \in PutStates /\ put[p].pc = "assemble" /\ i \in Chunks
  BY DEF IInv, TypeOK, NextInRange, ReadChunk
<1>2. i + 1 \in 0 .. total_chunks /\ (i + 1 # total_chunks => i + 1 \in Chunks)
  BY <1>1, ConstantsAreSane DEF Chunks
<1>3. /\ label \in {"store", "assemble"} /\ label \in Labels
      /\ label = "assemble" <=> i + 1 # total_chunks
  BY <1>2 DEF Labels
<1>4. good \in 0 .. total_chunks /\ (~overlapped => good = i + 1)
  <2>1. good \in 0 .. total_chunks
    BY <1>2, PutType DEF IInv
  <2>2. ~overlapped => put[p].good = i /\ part[i] \in whole
    BY <1>1 DEF ReadChunk, IInv, AloneOK, ReadWhole
  <2> QED BY <2>1, <2>2
<1>14. put' = [put EXCEPT ![p] = st]
  BY DEF ReadChunk
<1> HIDE DEF label, good
<1>15. /\ st \in PutStates
       /\ st.pc = label /\ st.next = i + 1 /\ st.good = good /\ st.chunk = put[p].chunk
  BY <1>1, <1>2, <1>3, <1>4 DEF PutStates
<1> HIDE DEF st
<1>5. put' \in [Puts -> PutStates] /\ put'[p] = st /\ \A q \in Puts \ {p} : put'[q] = put[q]
  BY <1>14, <1>15, PutMoves DEF IInv
<1>6. /\ put'[p].pc \in {"store", "assemble"}
      /\ put'[p].pc = "assemble" => put'[p].next \in Chunks
      /\ put'[p].chunk = put[p].chunk
  BY <1>2, <1>3, <1>5, <1>15
<1>7. overlapped \/ ReadWhole(p)'
  BY <1>3, <1>4, <1>5, <1>15 DEF ReadWhole
<1> HIDE DEF i
<1>8. UNCHANGED <<rowVars, fileVars, objectVars, envVars>>
  BY DEF ReadChunk
<1>9. TypeOK'
  BY <1>5, <1>8 DEF IInv, TypeOK, fileVars
<1>10. StoreOrder'
  BY <1>5, <1>6, <1>8 DEF IInv, StoreOrder
<1>11. Staged'
  BY <1>5, <1>6, <1>8 DEF IInv, Staged, fileVars
<1>12. NextInRange' /\ OpenFile'
  BY <1>5, <1>6 DEF IInv, NextInRange, OpenFile
<1>13. InodesApart' /\ AloneOK'
  BY <1>1, <1>5, <1>6, <1>7, <1>8, FilesUntouched DEF Late, UnderWay
<1>16. ObjectOK'
  <2>1. \A q \in Puts : put'[q] = put[q] \/ (~Rewriting(q) /\ ~Rewriting(q)')
    BY <1>1, <1>5, <1>6 DEF Rewriting
  <2> QED BY <2>1, ObjectUntouched DEF IInv, ReadChunk
<1> QED BY <1>9, <1>10, <1>11, <1>12, <1>13, <1>16 DEF IInv

\* A request begins: from now on it overlaps with none, or the ghost says so.
LEMMA BeginStep == ASSUME IInv, NEW p \in Puts, NEW i \in Chunks, Begin(p, i) PROVE IInv'
<1> USE DEF rowVars, objectVars, fileVars
<1> DEFINE st == [put[p] EXCEPT !.pc = "create", !.chunk = i]
<1>1. put[p] \in PutStates /\ put[p].pc = "new" /\ put[p].next \in Chunks
  BY DEF IInv, TypeOK, Begin, NextInRange
<1>2. /\ st \in PutStates
      /\ st.pc = "create" /\ st.chunk = i /\ st.next = put[p].next
      /\ st.good = put[p].good
  BY <1>1 DEF PutStates, Labels
<1>3. put' = [put EXCEPT ![p] = st]
  BY DEF Begin
<1> HIDE DEF st
<1>4. put' \in [Puts -> PutStates] /\ put'[p] = st /\ \A q \in Puts \ {p} : put'[q] = put[q]
  BY <1>2, <1>3, PutMoves DEF IInv
<1>5. overlapped' \in BOOLEAN
  BY DEF Begin, IInv, TypeOK
<1>6. TypeOK'
  BY <1>4, <1>5 DEF IInv, TypeOK, Begin
<1>7. StoreOrder'
  BY <1>2, <1>4 DEF IInv, StoreOrder, Begin
<1>8. Staged'
  BY <1>2, <1>4 DEF IInv, Staged, Begin
<1>9. NextInRange' /\ OpenFile'
  BY <1>1, <1>2, <1>4 DEF IInv, NextInRange, OpenFile
<1>10. \A q \in Puts, j \in Chunks : Created(q, j) => q # p /\ Created(q, j)'
  BY <1>1, <1>4 DEF Created
<1>11. InodesApart'
  BY <1>10 DEF IInv, InodesApart, Begin
<1>12. ASSUME ~overlapped' PROVE AloneOK'
  <2>1. ~overlapped /\ \A q \in Puts : UnderWay(q) => put[q].chunk # i
    BY <1>12 DEF Begin
  <2>2. Apart /\ \A q \in Puts : FileIsOwn(q) /\ ReadWhole(q)
    BY <2>1 DEF IInv, AloneOK
  <2>3. Apart'
    BY <1>1, <1>2, <1>4, <2>1, <2>2 DEF Apart, UnderWay
  <2>4. ASSUME NEW q \in Puts PROVE FileIsOwn(q)' /\ ReadWhole(q)'
    <3>1. CASE q = p
      BY <1>1, <1>2, <1>4, <2>2, <3>1 DEF FileIsOwn, ReadWhole
    <3>2. CASE q # p
      <4>1. put'[q] = put[q]
        BY <3>2, <1>4
      <4>2. put[q].pc \in {"write", "rename"} => Created(put[q].file, put[q].chunk)'
        BY <1>1, <1>4, <2>2, <4>1 DEF FileIsOwn, Created
      <4> QED BY <2>2, <4>1, <4>2 DEF FileIsOwn, ReadWhole, Begin
    <3> QED BY <3>1, <3>2
  <2> QED BY <2>1, <2>3, <2>4 DEF IInv, AloneOK, Begin
<1>13. AloneOK'
  BY <1>12 DEF AloneOK
<1>14. ObjectOK'
  <2>1. \A q \in Puts : put'[q] = put[q] \/ (~Rewriting(q) /\ ~Rewriting(q)')
    BY <1>1, <1>2, <1>4 DEF Rewriting
  <2> QED BY <2>1, ObjectUntouched DEF IInv, Begin
<1> QED BY <1>6, <1>7, <1>8, <1>9, <1>11, <1>13, <1>14 DEF IInv

\* The chunk reaches the open file.
LEMMA WriteStep == ASSUME IInv, NEW p \in Puts, Write(p) PROVE IInv'
<1> USE DEF Write, envVars, rowVars, objectVars
<1>0. "rename" \in Labels
  BY DEF Labels
<1>1. /\ put' \in [Puts -> PutStates]
      /\ \A q \in Puts \ {p} : put'[q] = put[q]
      /\ put'[p].pc = "rename"
      /\ put'[p].chunk = put[p].chunk
      /\ put'[p].file = put[p].file
      /\ put'[p].next = put[p].next
      /\ put'[p].good = put[p].good
  BY <1>0, GotoMoves DEF IInv
<1>2. \A q \in Puts, j \in Chunks : Created(q, j) => Created(q, j)'
  BY <1>1 DEF Created
<1>3. InodesApart'
  BY <1>2 DEF IInv, InodesApart
<1>4. ASSUME ~overlapped'
      PROVE  /\ Apart' /\ \A q \in Puts : FileIsOwn(q)' /\ ReadWhole(q)'
             /\ put[p].file \in Puts
  <2>1. Apart /\ \A q \in Puts : FileIsOwn(q) /\ ReadWhole(q)
    BY <1>4 DEF IInv, AloneOK
  <2>2. Apart'
    BY <1>1, <2>1 DEF Apart, UnderWay
  <2>3. ASSUME NEW q \in Puts PROVE FileIsOwn(q)' /\ ReadWhole(q)'
    <3>1. put'[q].file = put[q].file /\ put'[q].chunk = put[q].chunk
      BY <1>1
    <3>2. put'[q].pc \in {"write", "rename"} => Created(put[q].file, put[q].chunk)'
      BY <1>1, <2>1 DEF FileIsOwn, Created
    <3>3. ReadWhole(q)'
      BY <1>1, <2>1 DEF ReadWhole
    <3>4. put'[q].pc = "rename" => put[q].file \in whole'
      BY <1>1, <2>1 DEF FileIsOwn
    <3> QED BY <1>1, <2>1, <3>1, <3>2, <3>3, <3>4 DEF FileIsOwn
  <2>4. put[p].file \in Puts
    BY <2>1 DEF FileIsOwn
  <2> QED BY <2>2, <2>3, <2>4
<1>5. AloneOK'
  BY <1>4 DEF IInv, AloneOK
<1>6. put[p].file \in Puts
  BY DEF IInv, OpenFile
<1>7. TypeOK'
  BY <1>1, <1>6 DEF IInv, TypeOK
<1>8. StoreOrder'
  BY <1>1 DEF IInv, StoreOrder
<1>9. Staged'
  BY <1>1 DEF IInv, Staged
<1>10. NextInRange' /\ OpenFile'
  BY <1>1 DEF IInv, NextInRange, OpenFile
<1>11. ObjectOK'
  <2>1. \A q \in Puts : put'[q] = put[q] \/ (~Rewriting(q) /\ ~Rewriting(q)')
    BY <1>1 DEF Rewriting
  <2> QED BY <2>1, ObjectUntouched DEF IInv, envVars
<1> QED BY <1>3, <1>5, <1>7, <1>8, <1>9, <1>10, <1>11 DEF IInv

\* The tmp file is created or truncated: it is not the staged one.
LEMMA CreateTmpStep == ASSUME IInv, NEW p \in Puts, CreateTmp(p) PROVE IInv'
<1> USE DEF envVars, rowVars, objectVars
<1> DEFINE i == put[p].chunk
           f == IF tmp[i] = NoFile THEN p ELSE tmp[i]
           st == [put[p] EXCEPT !.pc = "write", !.file = f]
<1>1. put[p] \in PutStates /\ put[p].pc = "create" /\ put[p].next \in Chunks /\ i \in Chunks
  BY PutType DEF IInv, TypeOK, CreateTmp, NextInRange
<1>2. f \in Puts
  BY <1>1 DEF IInv, TypeOK
<1>3. put' = [put EXCEPT ![p] = st]
  BY DEF CreateTmp
<1>4. /\ tmp' = [tmp EXCEPT ![i] = f]
      /\ whole' \subseteq whole /\ \A q \in whole : q # f => q \in whole'
  <2>1. CASE tmp[i] = NoFile
    BY <2>1 DEF CreateTmp
  <2>2. CASE tmp[i] # NoFile
    <3>1. tmp' = tmp /\ whole' = whole \ {tmp[i]} /\ f = tmp[i]
      BY <2>2 DEF CreateTmp
    <3>2. [tmp EXCEPT ![i] = f] = tmp
      BY <1>1, <3>1 DEF IInv, TypeOK
    <3> QED BY <3>1, <3>2
  <2> QED BY <2>1, <2>2
<1>5. part[i] # f /\ \A q \in Puts : Created(q, i) \/ q = p \/ tmp[i] # q
  <2>1. part[i] # p
    BY <1>1 DEF IInv, InodesApart, Created
  <2> QED BY <1>1, <2>1 DEF IInv, InodesApart
<1>15. f # p => Created(f, i)
  BY <1>2, <1>5
<1>16. \A q \in Puts, j \in Chunks : Created(q, j) => q # p
  BY <1>1 DEF Created
<1> HIDE DEF f
<1>6. /\ st \in PutStates
      /\ st.pc = "write" /\ st.chunk = i /\ st.next = put[p].next /\ st.file = f
      /\ st.good = put[p].good
  BY <1>1, <1>2 DEF PutStates, Labels
<1> HIDE DEF st
<1>8. put' \in [Puts -> PutStates] /\ put'[p] = st /\ \A q \in Puts \ {p} : put'[q] = put[q]
  BY <1>3, <1>6, PutMoves DEF IInv
<1>9. UNCHANGED <<status, received, stale, purging, part, created, object, sidecar, finished,
                   interrupted, overlapped, faults>>
  BY DEF CreateTmp
<1>10. TypeOK'
  BY <1>1, <1>2, <1>4, <1>8, <1>9 DEF IInv, TypeOK
<1>11. StoreOrder'
  BY <1>6, <1>8, <1>9 DEF IInv, StoreOrder
<1>12. Staged'
  BY <1>6, <1>8, <1>9 DEF IInv, Staged
<1>13. NextInRange' /\ OpenFile'
  BY <1>1, <1>2, <1>6, <1>8 DEF IInv, NextInRange, OpenFile
<1>17. \A q \in Puts, j \in Chunks : Created(q, j) => Created(q, j)'
  BY <1>8, <1>16 DEF Created
<1>19. put'[f].chunk = i /\ put'[f].pc \notin {"new", "create"}
  BY <1>2, <1>6, <1>8, <1>15 DEF Created
<1>20. \A j \in Chunks : tmp'[j] = IF j = i THEN f ELSE tmp[j]
  BY <1>1, <1>4 DEF IInv, TypeOK
<1>21. InodesApart'
  <2>1. ASSUME NEW j \in Chunks, NEW q \in Puts, tmp'[j] = q \/ part'[j] = q
        PROVE  put'[q].chunk = j /\ put'[q].pc \notin {"new", "create"}
    <3>1. CASE tmp'[j] = f /\ j = i /\ q = f
      BY <3>1, <1>19
    <3>2. CASE tmp[j] = q \/ part[j] = q
      <4>1. Created(q, j)
        BY <3>2 DEF IInv, InodesApart
      <4> QED BY <4>1, <1>17 DEF Created
    <3> QED BY <2>1, <3>1, <3>2, <1>9, <1>20
  <2>2. ASSUME NEW j \in Chunks, tmp'[j] # NoFile PROVE tmp'[j] # part'[j]
    BY <2>2, <1>5, <1>9, <1>20 DEF IInv, InodesApart
  <2> QED BY <2>1, <2>2 DEF InodesApart, Created
<1>22. ASSUME ~overlapped' PROVE AloneOK'
  <2>1. /\ Apart /\ \A q \in Puts : FileIsOwn(q) /\ ReadWhole(q)
        /\ \A j \in Chunks : part[j] # NoFile => part[j] \in whole
    BY <1>9, <1>22 DEF IInv, AloneOK
  <2>2. Apart'
    BY <1>1, <1>6, <1>8, <2>1 DEF Apart, UnderWay
  <2>3. ASSUME NEW j \in Chunks, part[j] # NoFile PROVE part[j] # f
    <3>1. CASE j = i
      BY <3>1, <1>5
    <3>2. CASE j # i
      <4>1. part[j] \in Puts
        BY <2>3 DEF IInv, TypeOK
      <4>2. Created(part[j], j)
        BY <4>1 DEF IInv, InodesApart
      <4> QED BY <3>2, <4>2, <1>15, <1>16, <4>1 DEF Created
    <3> QED BY <3>1, <3>2
  <2>4. \A j \in Chunks : part'[j] # NoFile => part'[j] \in whole'
    BY <1>4, <1>9, <2>1, <2>3
  <2>5. FileIsOwn(p)'
    BY <1>1, <1>2, <1>5, <1>6, <1>8, <1>9, <1>19, <1>20 DEF FileIsOwn, Created
  <2>6. ASSUME NEW q \in Puts, q # p PROVE FileIsOwn(q)'
    <3>1. put'[q] = put[q] /\ put[q].chunk \in Chunks
      BY <1>8, <2>6, PutType DEF IInv
    <3>2. CASE put[q].pc \in {"write", "rename"}
      <4>1. put[q].chunk # i
        BY <1>1, <2>1, <2>6, <3>2 DEF Apart, UnderWay
      <4>2. /\ put[q].file \in Puts /\ Created(put[q].file, put[q].chunk)
            /\ part[put[q].chunk] # put[q].file
            /\ tmp[put[q].chunk] \in {put[q].file, NoFile}
            /\ put[q].pc = "rename" => put[q].file \in whole
        BY <2>1, <3>2 DEF FileIsOwn
      <4>3. put[q].file # f
        BY <4>1, <4>2, <3>1, <1>15, <1>16 DEF Created
      <4>4. Created(put[q].file, put[q].chunk)'
        BY <4>2, <3>1, <1>8, <1>16 DEF Created
      <4>5. put[q].pc = "rename" => put[q].file \in whole'
        BY <4>2, <4>3, <1>4
      <4> QED BY <3>1, <4>1, <4>2, <4>4, <4>5, <1>9, <1>20 DEF FileIsOwn
    <3>3. CASE put[q].pc \notin {"write", "rename"}
      BY <3>1, <3>3 DEF FileIsOwn
    <3> QED BY <3>2, <3>3
  <2>7. ASSUME NEW q \in Puts PROVE ReadWhole(q)'
    BY <1>1, <1>6, <1>8, <2>1 DEF ReadWhole
  <2>8. \A q \in Puts : FileIsOwn(q)' /\ ReadWhole(q)'
    BY <2>5, <2>6, <2>7
  <2> QED BY <1>9, <2>1, <2>2, <2>4, <2>8 DEF AloneOK
<1>23. AloneOK'
  BY <1>22 DEF AloneOK
<1>24. ObjectOK'
  <2>1. \A q \in Puts : put'[q] = put[q] \/ (~Rewriting(q) /\ ~Rewriting(q)')
    BY <1>1, <1>6, <1>8 DEF Rewriting
  <2> QED BY <2>1, ObjectUntouched DEF IInv, CreateTmp
<1> QED BY <1>10, <1>11, <1>12, <1>13, <1>21, <1>23, <1>24 DEF IInv

\* The tmp file becomes the staged one.
LEMMA RenameStep == ASSUME IInv, NEW p \in Puts, Rename(p) PROVE IInv'
<1> USE DEF Rename, envVars, rowVars, objectVars
<1>0. "record" \in Labels
  BY DEF Labels
<1>1. /\ put' \in [Puts -> PutStates]
      /\ \A q \in Puts \ {p} : put'[q] = put[q]
      /\ put'[p].pc = "record"
      /\ put'[p].chunk = put[p].chunk
      /\ put'[p].file = put[p].file
      /\ put'[p].next = put[p].next
      /\ put'[p].good = put[p].good
  BY <1>0, GotoMoves DEF IInv
<1> DEFINE i == put[p].chunk
<1>2. i \in Chunks /\ tmp[i] \in Puts
  BY PutType DEF IInv, TypeOK
<1>3. \A j \in Chunks : /\ tmp'[j] = IF j = i THEN NoFile ELSE tmp[j]
                       /\ part'[j] = IF j = i THEN tmp[i] ELSE part[j]
  BY <1>2 DEF IInv, TypeOK
<1>4. TypeOK'
  BY <1>1, <1>2 DEF IInv, TypeOK
<1>5. StoreOrder'
  BY <1>1 DEF IInv, StoreOrder
<1>6. NextInRange' /\ OpenFile'
  BY <1>1 DEF IInv, NextInRange, OpenFile
<1>7. \A j \in Chunks : part[j] # NoFile => part'[j] # NoFile
  BY <1>2, <1>3, ConstantsAreSane
<1>8. \A q \in Puts : put'[q].chunk = put[q].chunk /\ put[q].chunk \in Chunks
  BY <1>1, PutType DEF IInv
<1>9. Staged'
  <2>1. part'[i] # NoFile
    BY <1>2, <1>3, ConstantsAreSane
  <2>2. ASSUME status' = "in_progress", ~finished', NEW q \in Puts, put'[q].pc = "record"
        PROVE  part'[put'[q].chunk] # NoFile
    <3>1. CASE q = p
      BY <3>1, <1>1, <2>1
    <3>2. CASE q # p
      BY <3>2, <1>1, <1>7, <1>8, <2>2 DEF IInv, Staged
    <3> QED BY <3>1, <3>2
  <2>3. ASSUME status' = "in_progress", ~finished', NEW j \in received' PROVE part'[j] # NoFile
    BY <1>7, <2>3 DEF IInv, TypeOK, Staged
  <2> QED BY <2>2, <2>3 DEF IInv, Staged
<1>10. \A q \in Puts, j \in Chunks : Created(q, j) => Created(q, j)'
  BY <1>1 DEF Created
<1>11. InodesApart'
  <2>1. ASSUME NEW j \in Chunks, NEW q \in Puts, tmp'[j] = q \/ part'[j] = q
        PROVE  put'[q].chunk = j /\ put'[q].pc \notin {"new", "create"}
    <3>1. tmp[j] = q \/ part[j] = q
      BY <2>1, <1>3, ConstantsAreSane
    <3>2. Created(q, j)
      BY <3>1 DEF IInv, InodesApart
    <3> QED BY <3>2, <1>10 DEF Created
  <2>2. ASSUME NEW j \in Chunks, tmp'[j] # NoFile PROVE tmp'[j] # part'[j]
    BY <2>2, <1>3 DEF IInv, InodesApart
  <2> QED BY <2>1, <2>2 DEF InodesApart, Created
<1>12. ASSUME ~overlapped' PROVE AloneOK'
  <2>1. /\ Apart /\ \A q \in Puts : FileIsOwn(q) /\ ReadWhole(q)
        /\ \A j \in Chunks : part[j] # NoFile => part[j] \in whole
    BY <1>12 DEF IInv, AloneOK
  <2>2. Apart'
    BY <1>1, <2>1 DEF Apart, UnderWay
  <2>3. tmp[i] \in whole
    <3>1. tmp[i] \in {put[p].file, NoFile} /\ put[p].file \in whole
      BY <2>1 DEF FileIsOwn
    <3> QED BY <3>1, <1>2, ConstantsAreSane
  <2>4. \A j \in Chunks : part'[j] # NoFile => part'[j] \in whole'
    BY <1>3, <2>1, <2>3
  <2>5. FileIsOwn(p)'
    BY <1>1 DEF FileIsOwn
  <2>6. ASSUME NEW q \in Puts, q # p PROVE FileIsOwn(q)'
    <3>1. put'[q] = put[q] /\ put[q].chunk \in Chunks
      BY <1>1, <2>6, PutType DEF IInv
    <3>2. CASE put[q].pc \in {"write", "rename"}
      <4>1. put[q].chunk # i
        BY <2>1, <2>6, <3>2 DEF Apart, UnderWay
      <4>2. Created(put[q].file, put[q].chunk)'
        BY <1>1, <2>1, <3>1, <3>2 DEF FileIsOwn, Created
      <4> QED BY <2>1, <3>1, <4>1, <4>2, <1>3 DEF FileIsOwn
    <3>3. CASE put[q].pc \notin {"write", "rename"}
      BY <3>1, <3>3 DEF FileIsOwn
    <3> QED BY <3>2, <3>3
  <2>7. ASSUME NEW q \in Puts PROVE ReadWhole(q)'
    BY <1>1, <2>1 DEF ReadWhole
  <2>8. \A q \in Puts : FileIsOwn(q)' /\ ReadWhole(q)'
    BY <2>5, <2>6, <2>7
  <2> QED BY <2>1, <2>2, <2>4, <2>8 DEF AloneOK
<1>13. AloneOK'
  BY <1>12 DEF AloneOK
<1>14. ObjectOK'
  <2>1. \A q \in Puts : put'[q] = put[q] \/ (~Rewriting(q) /\ ~Rewriting(q)')
    BY <1>1 DEF Rewriting
  <2> QED BY <2>1, ObjectUntouched DEF IInv, envVars
<1> QED BY <1>4, <1>5, <1>6, <1>9, <1>11, <1>13, <1>14 DEF IInv

\* The directory goes: nothing is left to be torn, and what was recorded is
\* stored or the upload is no longer in progress.
LEMMA DirectoryGone ==
    ASSUME IInv, RemoveDir, finished \/ status = "deleted",
           UNCHANGED <<status, received, objectVars, overlapped>>, purging' => purging,
           \A q \in Puts : /\ put'[q].chunk = put[q].chunk /\ put'[q].file = put[q].file
                           /\ put'[q].next = put[q].next /\ put'[q].good = put[q].good
                           /\ \/ put'[q].pc = put[q].pc
                              \/ put[q].pc = "clean" /\ put'[q].pc = "mark"
    PROVE  ObjectOK' /\ Staged' /\ InodesApart' /\ AloneOK' /\ StoreOrder' /\ NextInRange' /\ OpenFile'
<1> USE DEF objectVars
<1>1. \A j \in Chunks : tmp'[j] = NoFile /\ part'[j] = NoFile
  BY DEF RemoveDir
<1>2. Staged' /\ StoreOrder'
  BY DEF IInv, Staged, StoreOrder
<1>3. NextInRange' /\ OpenFile'
  BY DEF IInv, NextInRange, OpenFile
<1>4. InodesApart'
  BY <1>1, ConstantsAreSane DEF InodesApart
<1>5. ASSUME ~overlapped' PROVE AloneOK'
  <2>1. /\ Apart /\ \A q \in Puts : FileIsOwn(q) /\ ReadWhole(q)
    BY <1>5 DEF IInv, AloneOK
  <2>2. Apart'
    BY <2>1 DEF Apart, UnderWay
  <2>3. ASSUME NEW q \in Puts PROVE FileIsOwn(q)' /\ ReadWhole(q)'
    <3>1. put[q].chunk \in Chunks
      BY PutType DEF IInv
    <3>2. put[q].pc \in {"write", "rename"} => Created(put[q].file, put[q].chunk)'
      BY <2>1 DEF FileIsOwn, Created
    <3>3. ReadWhole(q)'
      BY <2>1 DEF ReadWhole
    <3> QED BY <1>1, <2>1, <3>1, <3>2, <3>3, ConstantsAreSane DEF FileIsOwn, RemoveDir
  <2> QED BY <1>1, <2>1, <2>2, <2>3 DEF AloneOK
<1>6. AloneOK'
  BY <1>5 DEF AloneOK
<1>7. ObjectOK'
  <2>1. \A q \in Puts : (Rewriting(q)' <=> Rewriting(q)) /\ (WritesAll(q) => WritesAll(q)')
    BY DEF Rewriting, WritesAll
  <2> QED BY <2>1 DEF IInv, ObjectOK
<1> QED BY <1>2, <1>3, <1>4, <1>6, <1>7

LEMMA NoFiles ==
    ASSUME TypeOK, RemoveDir
    PROVE  /\ tmp' \in [Chunks -> Puts \cup {NoFile}]
           /\ part' \in [Chunks -> Puts \cup {NoFile}]
           /\ whole' \subseteq Puts
BY DEF TypeOK, RemoveDir

LEMMA CleanStep == ASSUME IInv, NEW p \in Puts, Clean(p) PROVE IInv'
<1> USE DEF Clean, envVars, rowVars, objectVars
<1>0. "mark" \in Labels
  BY DEF Labels
<1>1. /\ put' \in [Puts -> PutStates]
      /\ \A q \in Puts \ {p} : put'[q] = put[q]
      /\ put'[p].pc = "mark"
      /\ put'[p].chunk = put[p].chunk
      /\ put'[p].file = put[p].file
      /\ put'[p].next = put[p].next
      /\ put'[p].good = put[p].good
  BY <1>0, GotoMoves DEF IInv
<1>2. finished
  BY DEF IInv, StoreOrder
<1>3. CASE RemoveDir
  <2>1. TypeOK'
    BY <1>1, <1>3, NoFiles DEF IInv, TypeOK
  <2>2. \A q \in Puts : /\ put'[q].chunk = put[q].chunk /\ put'[q].file = put[q].file
                         /\ put'[q].next = put[q].next /\ put'[q].good = put[q].good
                         /\ \/ put'[q].pc = put[q].pc
                            \/ put[q].pc = "clean" /\ put'[q].pc = "mark"
    BY <1>1
  <2> QED BY <1>2, <1>3, <2>1, <2>2, DirectoryGone DEF IInv
<1>4. CASE UNCHANGED fileVars
  <2> USE <1>4
  <2>1. TypeOK'
    BY <1>1 DEF IInv, TypeOK, fileVars
  <2>2. StoreOrder'
    BY <1>1, <1>2 DEF IInv, StoreOrder
  <2>3. Staged'
    BY <1>1 DEF IInv, Staged, fileVars
  <2>4. NextInRange' /\ OpenFile'
    BY <1>1 DEF IInv, NextInRange, OpenFile
  <2>5. overlapped \/ ReadWhole(p)'
    BY <1>1 DEF ReadWhole
  <2>6. InodesApart' /\ AloneOK'
    BY <1>1, <2>5, FilesUntouched DEF Late, UnderWay
  <2>7. \A q \in Puts : put'[q] = put[q] \/ (~Rewriting(q) /\ ~Rewriting(q)')
    BY <1>1 DEF Rewriting
  <2>8. ObjectOK'
    BY <2>7, ObjectUntouched DEF IInv
  <2> QED BY <2>1, <2>2, <2>3, <2>4, <2>6, <2>8 DEF IInv
<1> QED BY <1>3, <1>4

LEMMA SweepDirStep == ASSUME IInv, SweepDir PROVE IInv'
<1> USE DEF SweepDir, envVars, objectVars
<1>1. status = "deleted"
  BY DEF IInv, Staged
<1>2. TypeOK'
  BY NoFiles DEF IInv, TypeOK
<1> QED BY <1>1, <1>2, DirectoryGone DEF IInv

\* The other steps of the sweeper, and stuttering, touch no file and no request.
LEMMA RowStep ==
    ASSUME IInv, UNCHANGED <<received, fileVars, put, objectVars, envVars>>,
           stale' \in BOOLEAN, purging' \in BOOLEAN,
           UNCHANGED <<status, purging>> \/ status' = "deleted"
    PROVE  IInv'
<1> USE DEF envVars, objectVars, fileVars
<1>1. TypeOK'
  BY DEF IInv, TypeOK
<1>2. StoreOrder' /\ Staged'
  BY DEF IInv, StoreOrder, Staged
<1>3. NextInRange' /\ OpenFile'
  BY DEF IInv, NextInRange, OpenFile
<1>4. InodesApart' /\ AloneOK'
  BY DEF IInv, InodesApart, Created, AloneOK, Apart, UnderWay, FileIsOwn, ReadWhole
<1>5. ObjectOK'
  BY ObjectUntouched DEF IInv
<1> QED BY <1>1, <1>2, <1>3, <1>4, <1>5 DEF IInv

LEMMA NextIInv == IInv /\ [Next]_vars => IInv'
<1> SUFFICES ASSUME IInv, [Next]_vars PROVE IInv'
  OBVIOUS
<1>1. ASSUME NEW p \in Puts, NEW i \in Chunks, Begin(p, i) PROVE IInv'
  BY <1>1, BeginStep
<1>2. ASSUME NEW p \in Puts, Serve(p) PROVE IInv'
  BY <1>2, CreateTmpStep, WriteStep, RenameStep, RenameFailsStep, RecordStep, RereadStep,
     ReadChunkStep, ReadFailsStep, StoreOpenStep, StoreChunkStep, SidecarOpenStep,
     StoreSidecarStep, CleanStep, MarkCompleteStep
     DEF Serve
<1>3. ASSUME NEW p \in Puts, PutFails(p) PROVE IInv'
  BY <1>3, PutFailsStep
<1>4. CASE GrowStale
  BY <1>4, RowStep DEF GrowStale, IInv, TypeOK
<1>5. CASE SweepRow
  BY <1>5, RowStep DEF SweepRow, IInv, TypeOK
<1>6. CASE SweepDir
  BY <1>6, SweepDirStep
<1>7. CASE UNCHANGED vars
  BY <1>7, RowStep DEF vars, IInv, TypeOK, fileVars, objectVars, envVars
<1> QED BY <1>1, <1>2, <1>3, <1>4, <1>5, <1>6, <1>7 DEF Next

LEMMA Inductive == Spec => []IInv
BY InitIInv, NextIInv, PTL DEF Spec

-----------------------------------------------------------------------------

\* Every reachable state of the upload has the types of the row, the files and
\* the requests of put_chunk.
THEOREM TypeCorrect == Spec => []TypeOK
<1>1. IInv => TypeOK
  BY DEF IInv
<1> QED BY <1>1, Inductive, PTL

\* If no two PUTs of one chunk overlap, the file put_object leaves is whole,
\* however many assemblies truncate and rewrite it, unless the last to begin,
\* or one beside it, was cut short.
THEOREM NoTornObject == Spec => []StoredIsWhole
<1>1. IInv => StoredIsWhole
  BY DEF IInv, ObjectOK, WritesAll, StoredIsWhole
<1> QED BY <1>1, Inductive, PTL

\* A chunk in received_chunks of an upload in progress is staged whole until
\* put_object has run to its end; from then on the whole file is there or being
\* rewritten, unless a rewrite was cut short.
THEOREM NoChunkLost == Spec => []ChunksKept
<1>1. IInv => ChunksKept
  <2> SUFFICES ASSUME IInv, status = "in_progress", ~overlapped, NEW i \in received
               PROVE  \/ part[i] \in whole
                      \/ finished /\ (Stored \/ interrupted \/ \E p \in Puts : Rewriting(p))
    BY DEF ChunksKept
  <2>1. CASE ~finished
    BY <2>1 DEF IInv, TypeOK, Staged, AloneOK
  <2>2. CASE finished /\ ~interrupted
    BY <2>2 DEF IInv, ObjectOK, WritesAll, Rewriting, Stored
  <2> QED BY <2>1, <2>2
<1> QED BY <1>1, Inductive, PTL

\* An upload marked completed has had its file and metadata stored to the end,
\* and has them whole unless a later assembly rewrites them or PUTs overlapped.
THEOREM CompletedHasObject == Spec => []CompletedIsStored
<1>1. IInv => CompletedIsStored
  <2> SUFFICES ASSUME IInv, status = "completed"
               PROVE  finished /\ (Stored \/ overlapped \/ interrupted \/ \E p \in Puts : Rewriting(p))
    BY DEF CompletedIsStored
  <2>1. finished
    BY DEF IInv, StoreOrder
  <2> QED BY <2>1 DEF IInv, ObjectOK, WritesAll, Rewriting, Stored
<1> QED BY <1>1, Inductive, PTL

=============================================================================
