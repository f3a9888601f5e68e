--------------------------- MODULE Manifest_proofs ---------------------------
(***************************************************************************)
(* Proofs about Manifest, for any set of handles and scenarios, any bounds *)
(* and any faults: the inductive invariant IInv, and with it that every    *)
(* ticket the stream retains is honoured by the store; then a stronger     *)
(* one, PostsKept, and with it that no attachment, no operation and no     *)
(* room in the store is lost.                                              *)
(***************************************************************************)
EXTENDS Manifest, TLAPS

(* TypeOK, by the part of the system.                                      *)
StreamTypes == log \in Seq(Op) /\ first \in 1 .. Len(log)

StoreTypes ==
  /\ minted \in Nat
  /\ DOMAIN boxes \subseteq 1 .. minted /\ boxes \in [DOMAIN boxes -> Docs]
  /\ blobs \subseteq 1 .. minted

CallTypes ==
  /\ pc \in [Handles -> Stages]
  /\ call \in [Handles -> {"none"} \cup UNION Scenarios]
  /\ aim \in [Handles -> {"look", "compact", "sweep"}]
  /\ attempt \in [Handles -> 0 .. Retries]
  /\ reader \in [Handles -> [base : Nat, pos : Nat, records : SUBSET Nat]]
  /\ object \in [Handles -> 0 .. minted]
  /\ waste \in [Handles -> SUBSET Nat]
  /\ broken \in [Handles -> BOOLEAN]

OtherTypes ==
  /\ requests \in Scenarios
  /\ archived \in [Handles -> BOOLEAN]
  /\ tainted \in BOOLEAN /\ stumbled \in BOOLEAN

LEMMA TypesByPart == TypeOK <=> StreamTypes /\ StoreTypes /\ CallTypes /\ OtherTypes
BY DEF TypeOK, StreamTypes, StoreTypes, CallTypes, OtherTypes

LEMMA OpTypes ==
  /\ EmptyDoc \in Docs
  /\ \A kind \in {"note", "attach", "remove", "archived"}, n \in Nat : Plain(kind, n) \in Op
  /\ \A doc \in Docs, n \in Nat : Baseline(doc, n) \in Op
BY DEF EmptyDoc, Docs, Plain, Baseline, Op

LEMMA FoldType ==
  ASSUME NEW ops \in Seq(Op), NEW doc \in Docs, NEW records \in SUBSET (1 .. Len(ops))
  PROVE  Fold(ops, doc, records) \in Docs
<1>1. \A s \in records : s \in Nat /\ ops[s] \in Op
  OBVIOUS
<1>2. \A s \in records : s \in Nat /\ ops[s].object \in Nat
  BY <1>1 DEF Op
<1>3. \A kind : {s \in records : ops[s].kind = kind} \subseteq Nat
  BY <1>1
<1>4. \A kind : {ops[s].object : s \in {r \in records : ops[r].kind = kind}} \subseteq Nat
  BY <1>2
<1>5. /\ doc.said \subseteq Nat /\ doc.attached \subseteq Nat
      /\ doc.removed \subseteq Nat /\ doc.archived \in BOOLEAN
  BY DEF Docs
<1>6. /\ Fold(ops, doc, records).said \subseteq Nat
      /\ Fold(ops, doc, records).attached \subseteq Nat
      /\ Fold(ops, doc, records).removed \subseteq Nat
      /\ Fold(ops, doc, records).archived \in BOOLEAN
  BY <1>3, <1>4, <1>5 DEF Fold
<1> QED BY <1>6 DEF Fold, Docs

(* A fold of what has been accepted is the same ever after.                *)
LEMMA FoldStable ==
  ASSUME NEW ops \in Seq(Op), NEW op \in Op, NEW doc,
         NEW records \in SUBSET (1 .. Len(ops))
  PROVE  Fold(Append(ops, op), doc, records) = Fold(ops, doc, records)
<1>1. \A s \in records : Append(ops, op)[s] = ops[s]
  OBVIOUS
<1>2. ASSUME NEW kind
      PROVE  {s \in records : Append(ops, op)[s].kind = kind}
                = {s \in records : ops[s].kind = kind}
  BY <1>1
<1>3. ASSUME NEW kind
      PROVE  {Append(ops, op)[s].object : s \in {r \in records : ops[r].kind = kind}}
                = {ops[s].object : s \in {r \in records : ops[r].kind = kind}}
  BY <1>1
<1> QED BY <1>2, <1>3 DEF Fold

(* What a drain has read is a document.                                    *)
LEMMA ViewType ==
  ASSUME TypeOK, NEW h \in Handles, SoundReader(h), reader[h].base > 0
  PROVE  View(h) \in Docs
<1>1. log \in Seq(Op) /\ reader[h].base \in 1 .. Len(log)
      /\ reader[h].records \subseteq 1 .. Len(log)
  BY DEF TypeOK, SoundReader
<1>2. log[reader[h].base] \in Op
  BY <1>1
<1>3. log[reader[h].base].doc \in Docs
  BY <1>2 DEF Op
<1> QED BY <1>1, <1>3, FoldType DEF View

-----------------------------------------------------------------------------
(* Types.                                                                  *)
LEMMA ReturnTypes ==
  ASSUME TypeOK, NEW h \in Handles, Return(h), minted' \in Nat, minted <= minted'
  PROVE  CallTypes'
<1>1. 0 .. minted \subseteq 0 .. minted' /\ 0 \in 0 .. minted'
  BY DEF TypeOK
<1>2. object' \in [Handles -> 0 .. minted']
  BY <1>1 DEF TypeOK, Return
<1>3. 0 \in 0 .. Retries
  BY ManifestAssumption
<1> QED BY <1>2, <1>3 DEF TypeOK, CallTypes, Return, NoReader, Stages

LEMMA DrainTypes ==
  ASSUME TypeOK, NEW h \in Handles, NEW for \in {"look", "compact", "sweep"},
         NEW try \in 0 .. Retries, Drain(h, for, try), UNCHANGED minted
  PROVE  CallTypes'
<1>1. object' \in [Handles -> 0 .. minted]
  BY DEF TypeOK, Drain
<1> QED BY <1>1 DEF TypeOK, CallTypes, Drain, NoReader, Stages

LEMMA BeginTypes ==
  ASSUME TypeOK, NEW h \in Handles, NEW what, NEW stage \in Stages, Begin(h, what, stage),
         aim' \in [Handles -> {"look", "compact", "sweep"}],
         object' \in [Handles -> 0 .. minted']
  PROVE  CallTypes'
<1>1. what \in UNION Scenarios
  BY DEF TypeOK, Begin
<1> QED BY <1>1 DEF TypeOK, CallTypes, Begin

LEMMA ObserveTypes ==
  ASSUME TypeOK, NEW h \in Handles, NEW b \in BOOLEAN, Observe(h, b)
  PROVE  archived' \in [Handles -> BOOLEAN]
BY DEF TypeOK, Observe

LEMMA PublishTypes ==
  ASSUME TypeOK, NEW op \in Op, Publish(op)
  PROVE  StreamTypes' /\ UNCHANGED <<first, tainted>>
<1>1. log \in Seq(Op) /\ first \in 1 .. Len(log) /\ log' = Append(log, op)
      /\ first' = first /\ tainted' = tainted
  BY DEF TypeOK, Publish
<1>2. log' \in Seq(Op) /\ Len(log') = Len(log) + 1
  BY <1>1
<1> QED BY <1>1, <1>2 DEF StreamTypes

(* The reader after one more delivery.                                     *)
LEMMA DeliveredReader ==
  ASSUME TypeOK, NEW h \in Handles, SoundReader(h), reader[h].pos < Len(log)
  PROVE  /\ Delivered(reader[h]) \in [base : Nat, pos : Nat, records : SUBSET Nat]
         /\ 0 < Delivered(reader[h]).base
         /\ Delivered(reader[h]).base <= Delivered(reader[h]).pos
         /\ Delivered(reader[h]).pos <= Len(log)
         /\ Delivered(reader[h]).records \subseteq 1 .. Len(log)
<1> DEFINE r == reader[h]
           s == IF r.pos + 1 < first THEN first ELSE r.pos + 1
<1>1. r \in [base : Nat, pos : Nat, records : SUBSET Nat]
      /\ r.base <= r.pos /\ r.records \subseteq 1 .. Len(log)
  BY DEF TypeOK, SoundReader
<1>2. s \in 1 .. Len(log) /\ r.pos < s
  BY <1>1 DEF TypeOK
<1>3. Delivered(r) = [base |-> IF r.base = 0 THEN s ELSE r.base, pos |-> s,
                      records |-> r.records \cup {s}]
  BY DEF Delivered
<1>4. Delivered(r).base \in 1 .. s /\ Delivered(r).pos = s
      /\ Delivered(r).records = r.records \cup {s}
  BY <1>1, <1>2, <1>3
<1>5. Delivered(r) = [base |-> Delivered(r).base, pos |-> Delivered(r).pos,
                      records |-> Delivered(r).records]
  BY <1>3
<1> HIDE DEF s
<1> QED BY <1>1, <1>2, <1>4, <1>5

LEMMA UnchangedTypes ==
  ASSUME TypeOK
  PROVE  /\ UNCHANGED streamVars => StreamTypes' /\ tainted' \in BOOLEAN
         /\ UNCHANGED storeVars => StoreTypes' /\ UNCHANGED minted
         /\ UNCHANGED callVars /\ UNCHANGED minted => CallTypes'
         /\ UNCHANGED requests => requests' \in Scenarios
         /\ UNCHANGED archived => archived' \in [Handles -> BOOLEAN]
         /\ UNCHANGED stumbled => stumbled' \in BOOLEAN
<1>1. UNCHANGED streamVars => StreamTypes' /\ tainted' \in BOOLEAN
  BY DEF TypeOK, streamVars, StreamTypes
<1>2. UNCHANGED storeVars => StoreTypes' /\ UNCHANGED minted
  BY DEF TypeOK, storeVars, StoreTypes
<1>3. UNCHANGED callVars /\ UNCHANGED minted => CallTypes'
  BY DEF TypeOK, callVars, CallTypes
<1> QED BY <1>1, <1>2, <1>3 DEF TypeOK

LEMMA NextTypes ==
  ASSUME TypeOK, StreamTypes', StoreTypes', CallTypes', requests' \in Scenarios,
         archived' \in [Handles -> BOOLEAN], tainted' \in BOOLEAN, stumbled' \in BOOLEAN
  PROVE  TypeOK'
BY DEF TypeOK, StreamTypes, StoreTypes, CallTypes

(* Storing one more object.                                                *)
LEMMA MintTypes ==
  ASSUME TypeOK, NEW h \in Handles, minted' = minted + 1
  PROVE  /\ \A doc \in Docs :
              boxes' = [n \in DOMAIN boxes \cup {minted + 1} |->
                          IF n = minted + 1 THEN doc ELSE boxes[n]]
              /\ UNCHANGED blobs => StoreTypes'
         /\ blobs' = blobs \cup {minted + 1} /\ UNCHANGED boxes => StoreTypes'
         /\ object' = [object EXCEPT ![h] = minted + 1]
              => object' \in [Handles -> 0 .. minted']
<1>1. minted \in Nat /\ DOMAIN boxes \subseteq 1 .. minted /\ boxes \in [DOMAIN boxes -> Docs]
      /\ blobs \subseteq 1 .. minted /\ object \in [Handles -> 0 .. minted]
  BY DEF TypeOK
<1>2. ASSUME NEW doc \in Docs,
             boxes' = [n \in DOMAIN boxes \cup {minted + 1} |->
                         IF n = minted + 1 THEN doc ELSE boxes[n]],
             UNCHANGED blobs
      PROVE  StoreTypes'
  <2>1. DOMAIN boxes' = DOMAIN boxes \cup {minted + 1} /\ boxes' \in [DOMAIN boxes' -> Docs]
    BY <1>1, <1>2
  <2> QED BY <1>1, <1>2, <2>1 DEF StoreTypes
<1>3. ASSUME blobs' = blobs \cup {minted + 1}, UNCHANGED boxes
      PROVE  StoreTypes'
  BY <1>1, <1>3 DEF StoreTypes
<1>4. ASSUME object' = [object EXCEPT ![h] = minted + 1]
      PROVE  object' \in [Handles -> 0 .. minted']
  <2>1. 0 .. minted \subseteq 0 .. minted' /\ minted + 1 \in 0 .. minted'
    BY <1>1
  <2> QED BY <1>1, <1>4, <2>1
<1> QED BY <1>2, <1>3, <1>4

(* Every step keeps the types, given that what a drain has read is a       *)
(* document.                                                               *)
LEMMA TypeStep ==
  ASSUME TypeOK, \A h \in Handles : SoundReader(h), NEW h \in Handles
  PROVE  /\ PostNote(h) \/ BeginAttach(h) \/ PostAttachment(h) \/ PostRemoval(h) => TypeOK'
         /\ BeginMaterialise(h) \/ BeginArchive(h) \/ BeginRollup(h) \/ BeginFollow(h) => TypeOK'
         /\ Read(h) \/ CannotOpen(h) \/ FinishMaterialise(h) => TypeOK'
         /\ ReadLive(h) \/ OpenBaseline(h) => TypeOK'
         /\ RollupDeclined(h) \/ EncodeInline(h) \/ PutBox(h) => TypeOK'
         /\ Commit(h) \/ DeleteSuperseded(h) \/ LoseRace(h) => TypeOK'
         /\ ArchiveAgain(h) \/ ArchiveShelves(h) \/ PostArchived(h) => TypeOK'
         /\ BeginSweep(h) \/ DeleteBlob(h) => TypeOK'
         /\ GiveUp(h) \/ Crash(h) => TypeOK'
<1> USE UnchangedTypes, NextTypes
<1>0. minted \in Nat /\ SoundReader(h) /\ h \in Handles
  BY DEF TypeOK
<1>a. ASSUME reader[h].base > 0
      PROVE  View(h) \in Docs /\ View(h).archived \in BOOLEAN /\ View(h).removed \in SUBSET Nat
  BY <1>0, <1>a, ViewType DEF Docs
<1>1. CASE PostNote(h)
  <2>1. Plain("note", 0) \in Op
    BY OpTypes
  <2>2. StreamTypes' /\ UNCHANGED <<first, tainted>>
    BY <1>1, <2>1, PublishTypes DEF PostNote
  <2> QED BY <1>1, <2>2 DEF PostNote, TypeOK
<1>2. CASE BeginAttach(h)
  <2>1. StoreTypes' /\ object' \in [Handles -> 0 .. minted']
    BY <1>2, MintTypes DEF BeginAttach
  <2>2. aim' \in [Handles -> {"look", "compact", "sweep"}]
    BY <1>2 DEF BeginAttach, TypeOK
  <2>3. CallTypes'
    BY <1>2, <2>1, <2>2, BeginTypes DEF BeginAttach, Stages
  <2> QED BY <1>2, <2>1, <2>3 DEF BeginAttach
<1>3. CASE PostAttachment(h)
  <2>1. Plain("attach", object[h]) \in Op
    BY OpTypes DEF TypeOK
  <2>2. StreamTypes' /\ UNCHANGED <<first, tainted>>
    BY <1>3, <2>1, PublishTypes DEF PostAttachment
  <2>3. CallTypes'
    BY <1>3, <1>0, ReturnTypes DEF PostAttachment, storeVars
  <2> QED BY <1>3, <2>2, <2>3 DEF PostAttachment, TypeOK
<1>4. CASE PostRemoval(h)
  <2>1. PICK s \in 1 .. Len(log) : Publish(Plain("remove", log[s].object))
    BY <1>4 DEF PostRemoval
  <2>2. log[s] \in Op
    BY DEF TypeOK
  <2>3. Plain("remove", log[s].object) \in Op
    BY <2>2, OpTypes DEF Op
  <2>4. StreamTypes' /\ UNCHANGED <<first, tainted>>
    BY <2>1, <2>3, PublishTypes
  <2> QED BY <1>4, <2>4 DEF PostRemoval, TypeOK
<1>5. CASE BeginMaterialise(h) \/ BeginArchive(h) \/ BeginRollup(h) \/ BeginFollow(h)
  <2>1. aim' \in [Handles -> {"look", "compact", "sweep"}] /\ object' \in [Handles -> 0 .. minted']
        /\ UNCHANGED <<streamVars, storeVars, requests, archived, stumbled>>
    BY <1>5 DEF BeginMaterialise, BeginArchive, BeginRollup, BeginFollow, TypeOK, storeVars
  <2>2. \E what : Begin(h, what, "draining") \/ Begin(h, what, "following")
    BY <1>5 DEF BeginMaterialise, BeginArchive, BeginRollup, BeginFollow
  <2>3. CallTypes'
    BY <2>1, <2>2, BeginTypes DEF Stages
  <2> QED BY <2>1, <2>3
<1>6. CASE Read(h)
  <2>1. Delivered(reader[h]) \in [base : Nat, pos : Nat, records : SUBSET Nat]
    BY <1>0, <1>6, DeliveredReader DEF Read
  <2>2. CallTypes'
    BY <1>6, <2>1 DEF Read, CallTypes, TypeOK, Stages, storeVars
  <2> QED BY <1>6, <2>2 DEF Read
<1>7. CASE CannotOpen(h)
  <2>1. CallTypes'
    BY <1>7, <1>0, ReturnTypes DEF CannotOpen, storeVars
  <2>2. archived' \in [Handles -> BOOLEAN]
    BY <1>7, ObserveTypes DEF CannotOpen
  <2> QED BY <1>7, <2>1, <2>2 DEF CannotOpen
<1>8. CASE FinishMaterialise(h)
  <2>1. CallTypes'
    BY <1>8, <1>0, ReturnTypes DEF FinishMaterialise, storeVars
  <2>2. archived' \in [Handles -> BOOLEAN]
    BY <1>8, <1>a, <1>0, ObserveTypes DEF FinishMaterialise, Ready, SoundReader
  <2> QED BY <1>8, <2>1, <2>2 DEF FinishMaterialise
<1>9. CASE ReadLive(h)
  <2> DEFINE r == Delivered(reader[h])
  <2>1. r \in [base : Nat, pos : Nat, records : SUBSET Nat]
        /\ r.base \in 1 .. Len(log) /\ r.records \in SUBSET (1 .. Len(log))
    <3>1. reader[h].pos < Len(log) /\ Len(log) \in Nat
      BY <1>9 DEF ReadLive, TypeOK
    <3>2. /\ r \in [base : Nat, pos : Nat, records : SUBSET Nat]
          /\ 0 < r.base /\ r.base <= r.pos /\ r.pos <= Len(log)
          /\ r.records \subseteq 1 .. Len(log)
      BY <1>0, <3>1, DeliveredReader
    <3> HIDE DEF r
    <3> QED BY <3>1, <3>2
  <2>2. CallTypes'
    <3>1. reader' = [reader EXCEPT ![h] = r] /\ pc' \in [Handles -> Stages]
      BY <1>9 DEF ReadLive, TypeOK, Stages
    <3>2. UNCHANGED <<minted, call, aim, attempt, object, waste, broken>>
      BY <1>9 DEF ReadLive, storeVars
    <3> HIDE DEF r
    <3> QED BY <2>1, <3>1, <3>2 DEF CallTypes, TypeOK
  <2>3. log[r.base] \in Op /\ log \in Seq(Op)
    BY <2>1 DEF TypeOK
  <2>4. Fold(log, log[r.base].doc, r.records) \in Docs
    BY <2>1, <2>3, FoldType DEF Op
  <2>5. (~broken[h] /\ Fold(log, log[r.base].doc, r.records).archived) \in BOOLEAN
    OBVIOUS
  <2>6. archived' \in [Handles -> BOOLEAN]
    BY <1>9, <2>5, ObserveTypes DEF ReadLive, TypeOK
  <2> QED BY <1>9, <2>2, <2>6 DEF ReadLive
<1>10. CASE OpenBaseline(h)
  <2>1. CallTypes'
    BY <1>10 DEF OpenBaseline, CallTypes, TypeOK, Stages, storeVars
  <2>2. archived' \in [Handles -> BOOLEAN]
    BY <1>10, <1>a, <1>0, ObserveTypes DEF OpenBaseline, SoundReader
  <2> QED BY <1>10, <2>1, <2>2 DEF OpenBaseline
<1>11. CASE RollupDeclined(h)
  <2>1. 0 \in 0 .. Retries
    BY ManifestAssumption
  <2>2. CallTypes'
    <3>1. UNCHANGED minted /\ (Return(h) \/ Drain(h, "sweep", 0))
      BY <1>11 DEF RollupDeclined, storeVars
    <3>2. CASE Return(h)
      BY <1>0, <3>1, <3>2, ReturnTypes
    <3>3. CASE Drain(h, "sweep", 0)
      BY <2>1, <3>1, <3>3, DrainTypes
    <3> QED BY <3>1, <3>2, <3>3
  <2> QED BY <1>11, <2>2 DEF RollupDeclined
<1>12. CASE EncodeInline(h)
  <2>1. CallTypes'
    BY <1>12 DEF EncodeInline, CallTypes, TypeOK, Stages, storeVars
  <2> QED BY <1>12, <2>1 DEF EncodeInline
<1>13. CASE PutBox(h)
  <2>1. View(h) \in Docs
    BY <1>13, <1>0, <1>a DEF PutBox, Compactable, Ready, SoundReader
  <2>2. StoreTypes' /\ object' \in [Handles -> 0 .. minted']
    BY <1>13, <2>1, MintTypes DEF PutBox
  <2>3. CallTypes'
    BY <1>13, <2>2 DEF PutBox, CallTypes, TypeOK, Stages
  <2> QED BY <1>13, <2>2, <2>3 DEF PutBox
<1>14. CASE Commit(h)
  <2>1. View(h) \in Docs /\ View(h).archived \in BOOLEAN
    BY <1>14, <1>0, <1>a DEF Commit, SoundReader
  <2>2. Baseline(View(h), object[h]) \in Op /\ object[h] \in Nat
    BY <2>1, OpTypes DEF TypeOK
  <2>3. StreamTypes' /\ tainted' \in BOOLEAN
    <3>1. log \in Seq(Op) /\ log' = Append(log, Baseline(View(h), object[h]))
          /\ first' = Len(log) + 1 /\ tainted' = (tainted \/ Torn(reader[h]))
      BY <1>14 DEF Commit, TypeOK
    <3> HIDE DEF Torn
    <3> QED BY <2>2, <3>1 DEF StreamTypes, TypeOK
  <2>4. Superseded(h) \in SUBSET Nat
    <3>1. log[reader[h].base] \in Op
      BY <1>0, <1>14 DEF Commit, SoundReader, TypeOK
    <3> QED BY <3>1 DEF Superseded, Op
  <2>5. 0 \in 0 .. Retries /\ UNCHANGED minted
    BY <1>14, ManifestAssumption DEF Commit, storeVars
  <2>6. CASE /\ pc' = [pc EXCEPT ![h] = "cleaning"]
             /\ waste' = [waste EXCEPT ![h] = Superseded(h)]
             /\ UNCHANGED <<call, aim, attempt, reader, object, broken, archived, stumbled>>
    <3>1. CallTypes'
      BY <2>4, <2>5, <2>6 DEF CallTypes, TypeOK, Stages
    <3> QED BY <1>14, <2>3, <2>6, <3>1 DEF Commit
  <2>7. CASE Compacted(h) /\ UNCHANGED stumbled
    <3>1. CallTypes' /\ archived' \in [Handles -> BOOLEAN]
      BY <1>0, <2>1, <2>5, <2>7, ObserveTypes, ReturnTypes, DrainTypes DEF Compacted
    <3> QED BY <1>14, <2>3, <2>7, <3>1 DEF Commit
  <2>8. CASE Return(h) /\ stumbled' = TRUE /\ UNCHANGED archived
    <3>1. CallTypes'
      BY <1>0, <2>5, <2>8, ReturnTypes
    <3> QED BY <1>14, <2>3, <2>8, <3>1 DEF Commit
  <2> QED BY <1>14, <2>6, <2>7, <2>8 DEF Commit
<1>15. CASE DeleteSuperseded(h)
  <2>1. View(h).archived \in BOOLEAN
    BY <1>15, <1>0, <1>a DEF DeleteSuperseded, SoundReader
  <2>2. 0 \in 0 .. Retries /\ UNCHANGED minted
    BY <1>15, ManifestAssumption DEF DeleteSuperseded
  <2>3. CallTypes' /\ archived' \in [Handles -> BOOLEAN]
    BY <1>0, <1>15, <2>1, <2>2, ObserveTypes, ReturnTypes, DrainTypes
       DEF DeleteSuperseded, Compacted
  <2>4. StoreTypes' /\ stumbled' \in BOOLEAN
    <3>1. CASE boxes' = [n \in DOMAIN boxes \ waste[h] |-> boxes[n]] /\ UNCHANGED stumbled
      <4>1. DOMAIN boxes' = DOMAIN boxes \ waste[h] /\ boxes' \in [DOMAIN boxes' -> Docs]
        BY <3>1 DEF TypeOK
      <4> QED BY <1>15, <2>2, <3>1, <4>1 DEF DeleteSuperseded, StoreTypes, TypeOK
    <3>2. CASE stumbled' = TRUE /\ UNCHANGED boxes
      BY <1>15, <3>2 DEF DeleteSuperseded, StoreTypes, TypeOK
    <3> QED BY <1>15, <3>1, <3>2 DEF DeleteSuperseded
  <2> QED BY <1>15, <2>3, <2>4 DEF DeleteSuperseded
<1>16. CASE LoseRace(h)
  <2>0. attempt[h] \in 0 .. Retries
    BY DEF TypeOK
  <2>1. attempt[h] < Retries => attempt[h] + 1 \in 0 .. Retries
    BY <2>0, ManifestAssumption
  <2>2. CallTypes'
    <3>1. UNCHANGED minted
      BY <1>16 DEF LoseRace, storeVars
    <3>2. CASE attempt[h] < Retries /\ Drain(h, "compact", attempt[h] + 1)
      BY <2>1, <3>1, <3>2, DrainTypes
    <3>3. CASE Return(h)
      BY <1>0, <3>1, <3>3, ReturnTypes
    <3> QED BY <1>16, <3>2, <3>3 DEF LoseRace
  <2> QED BY <1>16, <2>2 DEF LoseRace, TypeOK
<1>17. CASE ArchiveAgain(h)
  <2>1. 1 \in 0 .. Retries
    BY ManifestAssumption
  <2>2. CallTypes' /\ archived' \in [Handles -> BOOLEAN]
    BY <1>17, <2>1, DrainTypes, ObserveTypes DEF ArchiveAgain, storeVars
  <2> QED BY <1>17, <2>2 DEF ArchiveAgain
<1>18. CASE ArchiveShelves(h)
  <2>1. CallTypes'
    BY <1>18 DEF ArchiveShelves, CallTypes, TypeOK, Stages, storeVars
  <2>2. archived' \in [Handles -> BOOLEAN]
    BY <1>18, ObserveTypes DEF ArchiveShelves
  <2> QED BY <1>18, <2>1, <2>2 DEF ArchiveShelves
<1>19. CASE PostArchived(h)
  <2>1. Plain("archived", 0) \in Op /\ 1 \in 0 .. Retries
    BY OpTypes, ManifestAssumption
  <2>2. StreamTypes' /\ UNCHANGED <<first, tainted>>
    BY <1>19, <2>1, PublishTypes DEF PostArchived
  <2>3. CallTypes' /\ archived' \in [Handles -> BOOLEAN]
    <3>1. UNCHANGED minted
      BY <1>19 DEF PostArchived, storeVars
    <3>2. CASE Observe(h, TRUE) /\ Drain(h, "compact", 1)
      BY <2>1, <3>1, <3>2, DrainTypes, ObserveTypes
    <3>3. CASE Return(h) /\ UNCHANGED archived
      BY <1>0, <3>1, <3>3, ReturnTypes
    <3> QED BY <1>19, <3>2, <3>3 DEF PostArchived
  <2> QED BY <1>19, <2>2, <2>3 DEF PostArchived, TypeOK
<1>20. CASE BeginSweep(h)
  <2>1. View(h).removed \in SUBSET Nat
    BY <1>0, <1>20, <1>a DEF BeginSweep, Ready, SoundReader
  <2>2. CASE Return(h)
    BY <1>0, <1>20, <2>2, ReturnTypes DEF BeginSweep, storeVars
  <2>3. CASE /\ pc' = [pc EXCEPT ![h] = "sweeping"]
             /\ waste' = [waste EXCEPT ![h] = View(h).removed]
             /\ UNCHANGED <<call, aim, attempt, reader, object, broken>>
    <3>1. CallTypes'
      BY <1>20, <2>1, <2>3 DEF BeginSweep, CallTypes, TypeOK, Stages, storeVars
    <3> QED BY <1>20, <3>1 DEF BeginSweep
  <2> QED BY <1>20, <2>2, <2>3 DEF BeginSweep
<1>21. CASE DeleteBlob(h)
  <2>1. StoreTypes' /\ UNCHANGED minted
    BY <1>21 DEF DeleteBlob, StoreTypes, TypeOK
  <2>2. CASE Return(h)
    BY <1>0, <1>21, <2>1, <2>2, ReturnTypes DEF DeleteBlob
  <2>3. ASSUME NEW n \in waste[h], waste' = [waste EXCEPT ![h] = @ \ {n}],
               UNCHANGED <<pc, call, aim, attempt, reader, object, broken>>
        PROVE  TypeOK'
    <3>1. CallTypes'
      BY <2>1, <2>3 DEF CallTypes, TypeOK
    <3> QED BY <1>21, <2>1, <3>1 DEF DeleteBlob
  <2> QED BY <1>21, <2>2, <2>3 DEF DeleteBlob
<1>22. CASE GiveUp(h) \/ Crash(h)
  <2>0. Return(h) /\ UNCHANGED <<streamVars, storeVars, requests>>
    BY <1>22 DEF GiveUp, Crash
  <2>1. CallTypes'
    BY <1>0, <2>0, ReturnTypes DEF storeVars
  <2>2. archived' \in [Handles -> BOOLEAN] /\ stumbled' \in BOOLEAN
    BY <1>22, ObserveTypes DEF GiveUp, Crash, TypeOK
  <2> QED BY <2>0, <2>1, <2>2
<1> QED BY <1>1, <1>2, <1>3, <1>4, <1>5, <1>6, <1>7, <1>8, <1>9, <1>10, <1>11, <1>12,
           <1>13, <1>14, <1>15, <1>16, <1>17, <1>18, <1>19, <1>20, <1>21, <1>22

-----------------------------------------------------------------------------
(* The inductive invariant. What an action does to the stream and the      *)
(* store is one of five things,                                            *)
Same == UNCHANGED <<log, first, boxes>> /\ minted <= minted'

Posts ==
  /\ \E op \in Op : op.box = 0 /\ log' = Append(log, op)
  /\ UNCHANGED <<first, boxes, minted>>

Puts(h) ==
  /\ minted' = minted + 1
  /\ boxes' = [n \in DOMAIN boxes \cup {minted + 1} |->
                 IF n = minted + 1 THEN View(h) ELSE boxes[n]]
  /\ pc'[h] = "publishing" /\ object'[h] = minted + 1 /\ reader'[h] = reader[h]
  /\ UNCHANGED <<log, first>>

Bakes(h) ==
  /\ pc[h] = "publishing" /\ pc'[h] # "publishing" /\ reader[h].pos = Len(log)
  /\ log' = Append(log, Baseline(View(h), object[h])) /\ first' = Len(log) + 1
  /\ UNCHANGED <<boxes, minted>>

Throws(h) ==
  /\ pc[h] = "cleaning"
  /\ boxes' = [n \in DOMAIN boxes \ waste[h] |-> boxes[n]]
  /\ UNCHANGED <<log, first, minted>>

(* and what it does to the handles is confined to one of them.             *)
StillAt(g) ==
  pc'[g] = pc[g] /\ reader'[g] = reader[g] /\ object'[g] = object[g] /\ waste'[g] = waste[g]

Opened == {"drained", "publishing", "cleaning", "opening"}

ReaderMoves(h) ==
  \/ reader'[h] = NoReader /\ pc'[h] \notin Opened
  \/ reader'[h] = reader[h] /\ (pc'[h] \in Opened => reader[h].base > 0)
  \/ reader'[h] = Delivered(reader[h]) /\ reader[h].pos < Len(log) /\ UNCHANGED log

DraftMoves(h) ==
  \/ object'[h] = 0
  \/ pc'[h] = "uploaded"
  \/ pc'[h] = "cleaning"
  \/ Puts(h)

WasteMoves(h) == pc'[h] = "cleaning" => Bakes(h) /\ waste'[h] = Superseded(h)

Footprint(h) ==
  /\ Same \/ Posts \/ Puts(h) \/ Bakes(h) \/ Throws(h)
  /\ \A g \in Handles \ {h} : StillAt(g)
  /\ ReaderMoves(h) /\ DraftMoves(h) /\ WasteMoves(h)

LEMMA ResetsFootprint ==
  ASSUME TypeOK, NEW h \in Handles,
         Return(h) \/ (\E for, try : Drain(h, for, try))
  PROVE  /\ \A g \in Handles \ {h} : StillAt(g)
         /\ ReaderMoves(h) /\ DraftMoves(h) /\ WasteMoves(h)
         /\ pc'[h] # "publishing"
<1>1. pc' \in [Handles -> {pc[g] : g \in Handles} \cup {"idle", "draining"}]
      /\ pc'[h] \in {"idle", "draining"} /\ reader'[h] = NoReader /\ object'[h] = 0
  BY DEF TypeOK, Return, Drain
<1>2. \A g \in Handles \ {h} : StillAt(g)
  BY DEF TypeOK, Return, Drain, StillAt
<1> QED BY <1>1, <1>2 DEF ReaderMoves, DraftMoves, WasteMoves, Opened

LEMMA PublishFootprint ==
  ASSUME TypeOK, NEW kind \in {"note", "attach", "remove", "archived"}, NEW n \in Nat,
         Publish(Plain(kind, n)), UNCHANGED <<boxes, minted>>
  PROVE  Posts
<1>1. Plain(kind, n) \in Op /\ Plain(kind, n).box = 0
  BY OpTypes DEF Plain
<1> QED BY <1>1 DEF Publish, Posts

LEMMA FootprintStep ==
  ASSUME IInv, NEW h \in Handles,
         \/ PostNote(h) \/ BeginAttach(h) \/ PostAttachment(h) \/ PostRemoval(h)
         \/ BeginMaterialise(h) \/ BeginArchive(h) \/ BeginRollup(h) \/ BeginFollow(h)
         \/ Read(h) \/ CannotOpen(h) \/ FinishMaterialise(h)
         \/ ReadLive(h) \/ OpenBaseline(h)
         \/ RollupDeclined(h) \/ EncodeInline(h) \/ PutBox(h)
         \/ Commit(h) \/ DeleteSuperseded(h) \/ LoseRace(h)
         \/ ArchiveAgain(h) \/ ArchiveShelves(h) \/ PostArchived(h)
         \/ BeginSweep(h) \/ DeleteBlob(h)
         \/ GiveUp(h) \/ Crash(h)
  PROVE  Footprint(h)
<1>0. /\ TypeOK /\ minted \in Nat /\ SoundReader(h)
      /\ object[h] # 0 => pc[h] \in {"uploaded", "publishing", "cleaning"}
  BY DEF IInv, TypeOK, SoundDraft
<1>1. CASE PostNote(h) \/ PostRemoval(h)
  <2>1. UNCHANGED callVars /\ UNCHANGED <<boxes, minted>> /\ pc[h] = "idle"
    BY <1>1 DEF PostNote, PostRemoval, storeVars
  <2>2. \E kind \in {"note", "remove"}, n \in Nat : Publish(Plain(kind, n))
    <3>1. \A s \in 1 .. Len(log) : log[s] \in Op
      BY <1>0 DEF TypeOK
    <3>2. \A s \in 1 .. Len(log) : log[s].object \in Nat
      BY <3>1 DEF Op
    <3> QED BY <1>1, <3>2 DEF PostNote, PostRemoval
  <2>3. Posts
    BY <1>0, <2>1, <2>2, PublishFootprint
  <2> QED BY <1>0, <2>1, <2>3 DEF Footprint, StillAt, ReaderMoves, DraftMoves, WasteMoves,
                                  Opened, callVars
<1>2. CASE BeginAttach(h)
  <2>1. Same /\ pc'[h] = "uploaded" /\ reader'[h] = reader[h]
    BY <1>0, <1>2 DEF BeginAttach, Begin, Same, streamVars, TypeOK
  <2>2. \A g \in Handles \ {h} : StillAt(g)
    BY <1>0, <1>2 DEF BeginAttach, Begin, StillAt, TypeOK
  <2> QED BY <2>1, <2>2 DEF Footprint, ReaderMoves, DraftMoves, WasteMoves, Opened
<1>3. CASE PostAttachment(h)
  <2>1. object[h] \in Nat /\ Publish(Plain("attach", object[h])) /\ UNCHANGED <<boxes, minted>>
    BY <1>0, <1>3 DEF PostAttachment, storeVars, TypeOK
  <2>2. Posts
    BY <1>0, <2>1, PublishFootprint
  <2>3. Return(h)
    BY <1>3 DEF PostAttachment
  <2> QED BY <1>0, <2>2, <2>3, ResetsFootprint DEF Footprint
<1>4. CASE BeginMaterialise(h) \/ BeginArchive(h) \/ BeginRollup(h) \/ BeginFollow(h)
  <2>1. /\ pc[h] = "idle" /\ UNCHANGED <<streamVars, storeVars, reader, object, waste>>
        /\ pc' = [pc EXCEPT ![h] = "draining"] \/ pc' = [pc EXCEPT ![h] = "following"]
    BY <1>4 DEF BeginMaterialise, BeginArchive, BeginRollup, BeginFollow, Begin
  <2>2. pc'[h] \notin Opened /\ pc'[h] # "publishing" /\ \A g \in Handles \ {h} : StillAt(g)
    BY <1>0, <2>1 DEF TypeOK, Opened, StillAt
  <2>3. Same
    BY <1>0, <2>1 DEF Same, streamVars, storeVars
  <2> QED BY <1>0, <2>1, <2>2, <2>3 DEF Footprint, ReaderMoves, DraftMoves, WasteMoves, Opened
<1>5. CASE Read(h)
  <2>1. /\ pc[h] = "draining" /\ UNCHANGED <<log, first, boxes, minted, object, waste>>
        /\ reader[h].pos < Len(log)
        /\ reader' = [reader EXCEPT ![h] = Delivered(reader[h])]
        /\ pc' = [pc EXCEPT ![h] = "drained"] \/ pc' = [pc EXCEPT ![h] = "draining"]
    BY <1>5 DEF Read, streamVars, storeVars
  <2>2. /\ reader'[h] = Delivered(reader[h]) /\ pc'[h] \in {"drained", "draining"}
        /\ \A g \in Handles \ {h} : StillAt(g)
    BY <1>0, <2>1 DEF TypeOK, StillAt
  <2> QED BY <1>0, <2>1, <2>2 DEF Footprint, Same, ReaderMoves, DraftMoves, WasteMoves
<1>6. CASE CannotOpen(h) \/ FinishMaterialise(h)
  <2>1. Return(h) /\ UNCHANGED <<streamVars, storeVars>>
    BY <1>6 DEF CannotOpen, FinishMaterialise
  <2> QED BY <1>0, <2>1, ResetsFootprint DEF Footprint, Same, streamVars, storeVars
<1>7. CASE ReadLive(h)
  <2>1. /\ pc[h] = "following" /\ UNCHANGED <<log, first, boxes, minted, object, waste>>
        /\ reader[h].pos < Len(log)
        /\ reader' = [reader EXCEPT ![h] = Delivered(reader[h])]
        /\ pc' = [pc EXCEPT ![h] = "opening"] \/ pc' = pc
    BY <1>7 DEF ReadLive, streamVars, storeVars
  <2>2. /\ reader'[h] = Delivered(reader[h]) /\ pc'[h] \in {"opening", "following"}
        /\ \A g \in Handles \ {h} : StillAt(g)
    BY <1>0, <2>1 DEF TypeOK, StillAt
  <2> QED BY <1>0, <2>1, <2>2 DEF Footprint, Same, ReaderMoves, DraftMoves, WasteMoves
<1>8. CASE OpenBaseline(h) \/ ArchiveShelves(h) \/ EncodeInline(h)
  <2>1. /\ pc[h] \in {"opening", "drained"}
        /\ UNCHANGED <<log, first, boxes, minted, reader, object, waste>>
        /\ \E to \in {"following", "shelving", "publishing"} : pc' = [pc EXCEPT ![h] = to]
    BY <1>8 DEF OpenBaseline, ArchiveShelves, EncodeInline, Compactable, Ready,
                streamVars, storeVars
  <2>2. /\ pc'[h] \in {"following", "shelving", "publishing"}
        /\ \A g \in Handles \ {h} : StillAt(g)
    BY <1>0, <2>1 DEF TypeOK, StillAt
  <2>3. reader[h].base > 0
    BY <1>0, <2>1 DEF SoundReader
  <2> QED BY <1>0, <2>1, <2>2, <2>3
          DEF Footprint, Same, ReaderMoves, DraftMoves, WasteMoves, Opened
<1>9. CASE RollupDeclined(h)
  <2>1. (Return(h) \/ Drain(h, "sweep", 0)) /\ UNCHANGED <<log, first, boxes, minted>>
    BY <1>9 DEF RollupDeclined, streamVars, storeVars
  <2> QED BY <1>0, <2>1, ResetsFootprint DEF Footprint, Same
<1>10. CASE PutBox(h)
  <2>1. Puts(h) /\ \A g \in Handles \ {h} : StillAt(g)
    BY <1>0, <1>10 DEF PutBox, Puts, StillAt, streamVars, TypeOK
  <2>2. reader[h].base > 0
    BY <1>0, <1>10 DEF PutBox, Compactable, Ready, SoundReader
  <2> QED BY <2>1, <2>2 DEF Footprint, Puts, ReaderMoves, DraftMoves, WasteMoves
<1>11. CASE Commit(h)
  <2>0. pc[h] = "publishing" /\ reader[h].base > 0
    BY <1>0, <1>11 DEF Commit, SoundReader
  <2>1. pc'[h] # "publishing" => Bakes(h)
    BY <1>11 DEF Commit, Bakes, storeVars
  <2>2. CASE /\ pc' = [pc EXCEPT ![h] = "cleaning"]
             /\ waste' = [waste EXCEPT ![h] = Superseded(h)]
             /\ UNCHANGED <<call, aim, attempt, reader, object, broken, archived, stumbled>>
    <3>1. /\ pc'[h] = "cleaning" /\ waste'[h] = Superseded(h) /\ reader'[h] = reader[h]
          /\ \A g \in Handles \ {h} : StillAt(g)
      BY <1>0, <2>2 DEF TypeOK, StillAt
    <3> QED BY <2>0, <2>1, <3>1 DEF Footprint, ReaderMoves, DraftMoves, WasteMoves
  <2>3. CASE Return(h) \/ Drain(h, "sweep", 0)
    BY <1>0, <2>1, <2>3, ResetsFootprint DEF Footprint
  <2> QED BY <1>11, <2>2, <2>3 DEF Commit, Compacted
<1>12. CASE DeleteSuperseded(h)
  <2>1. Return(h) \/ Drain(h, "sweep", 0)
    BY <1>12 DEF DeleteSuperseded, Compacted
  <2>2. Same \/ Throws(h)
    BY <1>0, <1>12 DEF DeleteSuperseded, Same, Throws, streamVars
  <2> QED BY <1>0, <2>1, <2>2, ResetsFootprint DEF Footprint
<1>13. CASE LoseRace(h) \/ ArchiveAgain(h)
  <2>1. /\ UNCHANGED <<log, first, boxes, minted>>
        /\ Return(h) \/ \E for, try : Drain(h, for, try)
    BY <1>13 DEF LoseRace, ArchiveAgain, streamVars, storeVars
  <2> QED BY <1>0, <2>1, ResetsFootprint DEF Footprint, Same
<1>14. CASE PostArchived(h)
  <2>1. /\ Publish(Plain("archived", 0)) /\ UNCHANGED <<boxes, minted>>
        /\ Return(h) \/ Drain(h, "compact", 1)
    BY <1>14 DEF PostArchived, storeVars
  <2>2. Posts
    BY <1>0, <2>1, PublishFootprint
  <2> QED BY <1>0, <2>1, <2>2, ResetsFootprint DEF Footprint
<1>15. CASE BeginSweep(h) \/ DeleteBlob(h)
  <2>1. pc[h] \in {"drained", "sweeping"} /\ UNCHANGED <<log, first, boxes, minted>>
    BY <1>15 DEF BeginSweep, DeleteBlob, Ready, streamVars, storeVars
  <2>2. CASE Return(h)
    BY <1>0, <2>1, <2>2, ResetsFootprint DEF Footprint, Same
  <2>3. CASE ~Return(h)
    <3>1. /\ pc'[h] = "sweeping" /\ UNCHANGED <<reader, object>>
          /\ \A g \in Handles \ {h} : StillAt(g)
      BY <1>0, <1>15, <2>3 DEF BeginSweep, DeleteBlob, StillAt, TypeOK
    <3> QED BY <1>0, <2>1, <3>1
            DEF Footprint, Same, ReaderMoves, DraftMoves, WasteMoves, Opened
  <2> QED BY <2>2, <2>3
<1>16. CASE GiveUp(h) \/ Crash(h)
  <2>1. Return(h) /\ UNCHANGED <<log, first, boxes, minted>>
    BY <1>16 DEF GiveUp, Crash, streamVars, storeVars
  <2> QED BY <1>0, <2>1, ResetsFootprint DEF Footprint, Same
<1> QED BY <1>1, <1>2, <1>3, <1>4, <1>5, <1>6, <1>7, <1>8, <1>9, <1>10, <1>11, <1>12,
           <1>13, <1>14, <1>15, <1>16

-----------------------------------------------------------------------------
(* What was accepted stays, and so does what a drain has made of it.       *)
LEMMA LogKept ==
  ASSUME TypeOK, NEW h \in Handles, SoundReader(h), Footprint(h)
  PROVE  /\ Len(log) \in Nat /\ Len(log') \in Nat /\ Len(log) <= Len(log')
         /\ first <= first'
         /\ \A s \in 1 .. Len(log) : log'[s] = log[s] /\ log[s] \in Op
         /\ log' = log \/ \E op \in Op : log' = Append(log, op)
<1>0. log \in Seq(Op) /\ first \in 1 .. Len(log) /\ Len(log) \in Nat
  BY DEF TypeOK
<1>1. CASE UNCHANGED <<log, first>>
  BY <1>0, <1>1
<1>2. CASE Posts
  BY <1>0, <1>2 DEF Posts
<1>3. CASE Bakes(h)
  <2>1. Baseline(View(h), object[h]) \in Op
    <3>1. reader[h].base > 0
      BY <1>3 DEF Bakes, SoundReader
    <3>2. View(h) \in Docs /\ object[h] \in Nat
      BY <3>1, ViewType DEF TypeOK
    <3> QED BY <3>2, OpTypes
  <2> HIDE DEF Baseline, View
  <2> QED BY <1>0, <1>3, <2>1 DEF Bakes
<1> QED BY <1>1, <1>2, <1>3 DEF Footprint, Same, Puts, Throws

LEMMA ViewStable ==
  ASSUME TypeOK, NEW h \in Handles, SoundReader(h), Footprint(h),
         NEW g \in Handles, SoundReader(g), reader[g].base > 0, reader'[g] = reader[g]
  PROVE  View(g)' = View(g)
<1>1. reader[g].base \in 1 .. Len(log) /\ reader[g].records \in SUBSET (1 .. Len(log))
      /\ log \in Seq(Op)
  BY DEF TypeOK, SoundReader
<1>2. log'[reader[g].base] = log[reader[g].base]
  BY <1>1, LogKept
<1>3. CASE log' = log
  BY <1>3 DEF View
<1>4. ASSUME NEW op \in Op, log' = Append(log, op)
      PROVE  View(g)' = View(g)
  <2>1. Fold(Append(log, op), log[reader[g].base].doc, reader[g].records)
          = Fold(log, log[reader[g].base].doc, reader[g].records)
    BY <1>1, FoldStable
  <2> QED BY <1>2, <1>4, <2>1 DEF View
<1> QED BY <1>3, <1>4, LogKept

(* The object of the baseline in place is never thrown away.               *)
LEMMA TicketsStep ==
  ASSUME IInv, NEW h \in Handles, Footprint(h)
  PROVE  TicketsHonoured'
<1>0. /\ log \in Seq(Op) /\ first \in 1 .. Len(log) /\ DOMAIN boxes \subseteq 1 .. minted
      /\ minted \in Nat /\ object[h] \in Nat
      /\ log[first].box # 0
           => log[first].box \in DOMAIN boxes /\ boxes[log[first].box] = log[first].doc
  BY DEF IInv, TypeOK, TicketsHonoured, Resolvable
<1>1. CASE Same
  BY <1>0, <1>1 DEF Same, TicketsHonoured, Resolvable
<1>2. CASE Posts
  BY <1>0, <1>2 DEF Posts, TicketsHonoured, Resolvable
<1>3. CASE Puts(h)
  BY <1>0, <1>3 DEF Puts, TicketsHonoured, Resolvable
<1>4. CASE Bakes(h)
  <2>1. log'[first'] = Baseline(View(h), object[h])
    BY <1>0, <1>4 DEF Bakes
  <2>2. object[h] # 0 => object[h] \in DOMAIN boxes /\ boxes[object[h]] = View(h)
    BY <1>4 DEF IInv, SoundDraft, Bakes
  <2> HIDE DEF View
  <2> QED BY <1>4, <2>1, <2>2 DEF Bakes, Baseline, TicketsHonoured, Resolvable
<1>5. CASE Throws(h)
  <2>1. waste[h] \subseteq {log[s].box : s \in 1 .. first - 1} \ {0}
    BY <1>5 DEF IInv, SoundWaste, Throws
  <2>2. log[first].box \notin waste[h]
    BY <1>0, <2>1 DEF IInv, OwnBoxes
  <2> QED BY <1>0, <1>5, <2>2 DEF Throws, TicketsHonoured, Resolvable
<1> QED BY <1>1, <1>2, <1>3, <1>4, <1>5 DEF Footprint

LEMMA OwnBoxesStep ==
  ASSUME IInv, NEW h \in Handles, Footprint(h), minted' \in Nat
  PROVE  OwnBoxes'
<1>0. /\ log \in Seq(Op) /\ minted \in Nat /\ object[h] \in 0 .. minted
      /\ \A s \in 1 .. Len(log) : log[s].box \in 0 .. minted
      /\ \A s, t \in 1 .. Len(log) : log[s].box = log[t].box => s = t \/ log[s].box = 0
  BY DEF IInv, TypeOK, OwnBoxes
<1>1. CASE UNCHANGED log /\ minted <= minted' /\ minted' \in Nat
  BY <1>0, <1>1 DEF OwnBoxes
<1>2. ASSUME NEW op, op.box \in 0 .. minted,
             \A s \in 1 .. Len(log) : op.box = log[s].box => op.box = 0,
             log' = Append(log, op), UNCHANGED minted
      PROVE  OwnBoxes'
  <2>1. Len(log') = Len(log) + 1 /\ log'[Len(log) + 1] = op
        /\ \A s \in 1 .. Len(log) : log'[s] = log[s]
    BY <1>0, <1>2
  <2>2. \A s \in 1 .. Len(log') : s \in 1 .. Len(log) \/ s = Len(log) + 1
    BY <1>0, <2>1
  <2>3. \A s \in 1 .. Len(log') : log'[s].box \in 0 .. minted'
    BY <1>0, <1>2, <2>1, <2>2
  <2>4. \A s, t \in 1 .. Len(log') :
          log'[s].box = log'[t].box => s = t \/ log'[s].box = 0
    BY <1>0, <1>2, <2>1, <2>2
  <2> QED BY <2>3, <2>4 DEF OwnBoxes
<1>3. CASE Posts
  BY <1>0, <1>2, <1>3 DEF Posts
<1>4. CASE Bakes(h)
  <2>1. \A s \in 1 .. Len(log) : object[h] = log[s].box => object[h] = 0
    BY <1>4 DEF IInv, SoundDraft, Bakes
  <2>2. Baseline(View(h), object[h]).box = object[h]
    BY DEF Baseline
  <2> QED BY <1>0, <1>2, <1>4, <2>1, <2>2 DEF Bakes
<1>5. CASE Same \/ Puts(h) \/ Throws(h)
  <2>1. UNCHANGED log /\ minted <= minted' /\ minted' \in Nat
    BY <1>0, <1>5 DEF Same, Puts, Throws
  <2> QED BY <1>1, <2>1
<1> QED BY <1>3, <1>4, <1>5 DEF Footprint

LEMMA ReaderStep ==
  ASSUME IInv, NEW h \in Handles, Footprint(h), NEW g \in Handles
  PROVE  SoundReader(g)'
<1>0. /\ TypeOK /\ SoundReader(g) /\ SoundReader(h)
      /\ Len(log) \in Nat /\ Len(log') \in Nat /\ Len(log) <= Len(log')
  BY LogKept DEF IInv
<1>1. CASE reader'[g] = NoReader /\ pc'[g] \notin Opened
  BY <1>0, <1>1 DEF SoundReader, NoReader, Opened
<1>2. CASE reader'[g] = reader[g] /\ (pc'[g] \in Opened => reader[g].base > 0)
  <2>1. reader[g].pos \in Nat
    BY <1>0 DEF TypeOK
  <2> QED BY <1>0, <1>2, <2>1 DEF SoundReader, Opened
<1>3. CASE reader'[g] = Delivered(reader[g]) /\ reader[g].pos < Len(log) /\ UNCHANGED log
  <2>1. /\ 0 < Delivered(reader[g]).base
        /\ Delivered(reader[g]).base <= Delivered(reader[g]).pos
        /\ Delivered(reader[g]).pos <= Len(log)
        /\ Delivered(reader[g]).records \subseteq 1 .. Len(log)
    BY <1>0, <1>3, DeliveredReader
  <2> QED BY <1>3, <2>1 DEF SoundReader
<1>4. CASE g # h
  <2>1. reader'[g] = reader[g] /\ pc'[g] = pc[g]
    BY <1>4 DEF Footprint, StillAt
  <2> QED BY <1>0, <1>2, <2>1 DEF SoundReader, Opened
<1>5. CASE g = h
  BY <1>1, <1>2, <1>3, <1>5 DEF Footprint, ReaderMoves
<1> QED BY <1>4, <1>5

LEMMA DraftStep ==
  ASSUME IInv, NEW h \in Handles, Footprint(h), NEW g \in Handles
  PROVE  SoundDraft(g)'
<1>0. /\ TypeOK /\ SoundReader(g) /\ SoundReader(h) /\ SoundDraft(g)
      /\ log \in Seq(Op) /\ minted \in Nat /\ object[g] \in 0 .. minted
      /\ DOMAIN boxes \subseteq 1 .. minted
      /\ \A s \in 1 .. Len(log) : log[s].box \in 0 .. minted
  BY DEF IInv, TypeOK, OwnBoxes
<1>1. CASE g = h /\ ~Puts(h)
  BY <1>1 DEF Footprint, DraftMoves, SoundDraft
<1>2. CASE g = h /\ Puts(h)
  <2>1. reader[h].base > 0 /\ reader'[h] = reader[h]
    BY <1>0, <1>2 DEF Footprint, Puts, ReaderMoves, Opened, SoundReader, NoReader, Delivered, TypeOK
  <2>2. View(h)' = View(h)
    BY <1>0, <2>1, ViewStable
  <2>3. boxes'[minted + 1] = View(h) /\ minted + 1 \in DOMAIN boxes'
    BY <1>2 DEF Puts
  <2>4. \A s \in 1 .. Len(log') : log'[s].box # minted + 1
    BY <1>0, <1>2 DEF Puts
  <2> HIDE DEF View
  <2> QED BY <1>2, <2>2, <2>3, <2>4 DEF SoundDraft, Puts
<1>3. CASE g # h
  <2>0. pc'[g] = pc[g] /\ reader'[g] = reader[g] /\ object'[g] = object[g]
    BY <1>3 DEF Footprint, StillAt
  <2>1. SUFFICES ASSUME object[g] # 0, pc[g] = "publishing"
                 PROVE  /\ object[g] \in DOMAIN boxes' /\ boxes'[object[g]] = View(g)'
                        /\ \A s \in 1 .. Len(log') : log'[s].box # object[g]
    BY <1>0, <2>0 DEF SoundDraft
  <2>2. /\ object[g] \in DOMAIN boxes /\ boxes[object[g]] = View(g)
        /\ \A s \in 1 .. Len(log) : log[s].box # object[g]
    BY <1>0, <2>1 DEF SoundDraft
  <2>3. View(g)' = View(g)
    BY <1>0, <2>0, <2>1, ViewStable DEF SoundReader
  <2>4. object[g] \in DOMAIN boxes' /\ boxes'[object[g]] = boxes[object[g]]
    <3>1. CASE Throws(h)
      <4>1. waste[h] \subseteq {log[s].box : s \in 1 .. first - 1}
        BY <3>1 DEF IInv, SoundWaste, Throws
      <4>2. \A s \in 1 .. first - 1 : s \in 1 .. Len(log)
        BY <1>0 DEF TypeOK
      <4>3. object[g] \notin waste[h]
        BY <2>2, <4>1, <4>2
      <4> QED BY <2>2, <3>1, <4>3 DEF Throws
    <3>2. CASE Puts(h)
      BY <1>0, <2>2, <3>2 DEF Puts
    <3> QED BY <2>2, <3>1, <3>2 DEF Footprint, Same, Posts, Bakes
  <2>5. \A s \in 1 .. Len(log') : log'[s].box # object[g]
    <3>1. ASSUME NEW op, log' = Append(log, op), op.box # object[g]
          PROVE  \A s \in 1 .. Len(log') : log'[s].box # object[g]
      BY <1>0, <2>2, <3>1
    <3>2. CASE Posts
      BY <2>1, <3>1, <3>2 DEF Posts
    <3>3. CASE Bakes(h)
      <4>1. object[h] # object[g]
        BY <1>3, <2>1, <3>3 DEF IInv, OwnDrafts, Bakes
      <4> QED BY <3>1, <3>3, <4>1 DEF Bakes, Baseline
    <3>4. CASE UNCHANGED log
      BY <2>2, <3>4
    <3> QED BY <3>2, <3>3, <3>4 DEF Footprint, Same, Puts, Throws
  <2> QED BY <2>2, <2>3, <2>4, <2>5
<1> QED BY <1>1, <1>2, <1>3

LEMMA OwnDraftsStep ==
  ASSUME IInv, NEW h \in Handles, Footprint(h)
  PROVE  OwnDrafts'
<1>0. minted \in Nat /\ \A g \in Handles : object[g] \in 0 .. minted
  BY DEF IInv, TypeOK
<1>1. object'[h] # 0 /\ pc'[h] = "publishing"
        => \A g \in Handles \ {h} : object'[g] # object'[h]
  <2>1. object'[h] # 0 /\ pc'[h] = "publishing" => object'[h] = minted + 1
    BY DEF Footprint, DraftMoves, Puts
  <2>2. \A g \in Handles \ {h} : object'[g] \in 0 .. minted
    BY <1>0 DEF Footprint, StillAt
  <2> QED BY <1>0, <2>1, <2>2
<1>2. \A g \in Handles \ {h} : pc'[g] = pc[g] /\ object'[g] = object[g]
  BY DEF Footprint, StillAt
<1> QED BY <1>1, <1>2 DEF IInv, OwnDrafts

LEMMA WasteStep ==
  ASSUME IInv, NEW h \in Handles, Footprint(h), first' \in Nat, NEW g \in Handles
  PROVE  SoundWaste(g)'
<1>0. /\ TypeOK /\ SoundReader(h) /\ SoundWaste(g)
      /\ first \in 1 .. Len(log) /\ first \in Nat /\ first' \in Nat
      /\ Len(log) \in Nat /\ first <= first'
      /\ \A s \in 1 .. Len(log) : log'[s] = log[s]
  <2>1. TypeOK /\ SoundReader(h) /\ SoundWaste(g)
    BY DEF IInv
  <2>2. log \in Seq(Op) /\ first \in 1 .. Len(log)
    BY <2>1 DEF TypeOK
  <2>3. /\ Len(log) \in Nat /\ first <= first'
        /\ \A s \in 1 .. Len(log) : log'[s] = log[s]
    BY <2>1, LogKept
  <2> QED BY <2>1, <2>2, <2>3
<1>1. CASE g # h
  <2>1. pc'[g] = pc[g] /\ waste'[g] = waste[g]
    BY <1>1 DEF Footprint, StillAt
  <2>2. {log[s].box : s \in 1 .. first - 1} \subseteq {log'[s].box : s \in 1 .. first' - 1}
    <3>1. ASSUME NEW s \in 1 .. first - 1
          PROVE  s \in 1 .. first' - 1 /\ log'[s] = log[s]
      <4>1. first \in Nat /\ first' \in Nat /\ Len(log) \in Nat
            /\ first <= first' /\ first <= Len(log)
        BY <1>0
      <4> DEFINE f == first  g1 == first'  n == Len(log)
      <4>2. f \in Nat /\ g1 \in Nat /\ n \in Nat /\ f <= g1 /\ f <= n /\ s \in 1 .. f - 1
        BY <4>1
      <4> HIDE DEF f, g1, n
      <4>3. s \in 1 .. n /\ s \in 1 .. g1 - 1
        BY <4>2
      <4> QED BY <1>0, <4>3 DEF g1, n
    <3> QED BY <3>1
  <2> QED BY <1>0, <2>1, <2>2 DEF SoundWaste
<1>2. CASE g = h
  <2>1. SUFFICES ASSUME pc'[h] = "cleaning"
                 PROVE  waste'[h] \subseteq {log'[s].box : s \in 1 .. first' - 1} \ {0}
    BY <1>2 DEF SoundWaste
  <2>2. Bakes(h) /\ waste'[h] = {log[reader[h].base].box} \ {0}
    BY <2>1 DEF Footprint, WasteMoves, Superseded
  <2>3. reader[h].base \in 1 .. Len(log) /\ first' = Len(log) + 1
    BY <1>0, <2>2 DEF SoundReader, Bakes, TypeOK
  <2>4. reader[h].base \in 1 .. first' - 1 /\ log'[reader[h].base] = log[reader[h].base]
    BY <1>0, <2>3
  <2> QED BY <2>2, <2>4
<1> QED BY <1>1, <1>2

-----------------------------------------------------------------------------
LEMMA InitInvariant == Init => IInv
<1> SUFFICES ASSUME Init PROVE IInv
  OBVIOUS
<1>1. log = <<Baseline(EmptyDoc, 0)>> /\ Baseline(EmptyDoc, 0) \in Op
  BY OpTypes DEF Init
<1>2. log \in Seq(Op) /\ Len(log) = 1 /\ log[1].box = 0 /\ first = 1
  BY <1>1 DEF Init, Baseline
<1>3. boxes = << >> /\ DOMAIN boxes = {} /\ boxes \in [DOMAIN boxes -> Docs]
  BY DEF Init
<1>4. TypeOK
  <2>1. StreamTypes
    BY <1>2 DEF StreamTypes
  <2>2. StoreTypes
    BY <1>3 DEF Init, StoreTypes
  <2>3. CallTypes
    <3>1. 0 \in 0 .. Retries /\ minted = 0 /\ 0 \in 0 .. minted
      BY ManifestAssumption DEF Init
    <3>2. NoReader \in [base : Nat, pos : Nat, records : SUBSET Nat]
      BY DEF NoReader
    <3> QED BY <3>1, <3>2 DEF Init, CallTypes, Stages
  <2>4. OtherTypes
    BY DEF Init, OtherTypes
  <2> QED BY <2>1, <2>2, <2>3, <2>4, TypesByPart
<1>5. TicketsHonoured /\ OwnBoxes /\ OwnDrafts
  BY <1>2, <1>3 DEF Init, TicketsHonoured, Resolvable, OwnBoxes, OwnDrafts
<1>6. ASSUME NEW h \in Handles
      PROVE  SoundReader(h) /\ SoundDraft(h) /\ SoundWaste(h)
  BY <1>2 DEF Init, SoundReader, SoundDraft, SoundWaste, NoReader
<1> QED BY <1>4, <1>5, <1>6 DEF IInv

LEMMA NextInvariant == IInv /\ [Next]_vars => IInv'
<1> SUFFICES ASSUME IInv, [Next]_vars PROVE IInv'
  OBVIOUS
<1>1. CASE Next
  <2>1. PICK h \in Handles :
         \/ PostNote(h) \/ BeginAttach(h) \/ PostAttachment(h) \/ PostRemoval(h)
         \/ BeginMaterialise(h) \/ BeginArchive(h) \/ BeginRollup(h) \/ BeginFollow(h)
         \/ Read(h) \/ CannotOpen(h) \/ FinishMaterialise(h)
         \/ ReadLive(h) \/ OpenBaseline(h)
         \/ RollupDeclined(h) \/ EncodeInline(h) \/ PutBox(h)
         \/ Commit(h) \/ DeleteSuperseded(h) \/ LoseRace(h)
         \/ ArchiveAgain(h) \/ ArchiveShelves(h) \/ PostArchived(h)
         \/ BeginSweep(h) \/ DeleteBlob(h)
         \/ GiveUp(h) \/ Crash(h)
    BY <1>1 DEF Next
  <2>2. TypeOK /\ \A g \in Handles : SoundReader(g)
    BY DEF IInv
  <2>3. TypeOK' /\ minted' \in Nat /\ first' \in Nat
    <3>1. TypeOK'
      BY <2>1, <2>2, TypeStep
    <3> QED BY <3>1 DEF TypeOK
  <2>4. Footprint(h)
    BY <2>1, FootprintStep
  <2> QED BY <2>3, <2>4, TicketsStep, OwnBoxesStep, OwnDraftsStep, ReaderStep, DraftStep,
             WasteStep DEF IInv
<1>2. CASE UNCHANGED vars
  BY <1>2 DEF vars, streamVars, storeVars, callVars, IInv, TypeOK, TicketsHonoured,
              Resolvable, OwnBoxes, OwnDrafts, SoundReader, SoundDraft, SoundWaste, View
<1> QED BY <1>1, <1>2

(* The invariant holds of every behaviour, for any handles, scenarios,     *)
(* bounds and faults: rollups with boxes, attachments and archivals        *)
(* (rollup.go, attachment.go, lifecycle.go) keep the stream and the store  *)
(* consistent whatever the order of their requests.                        *)
THEOREM Invariant == Spec => []IInv
BY InitInvariant, NextInvariant, PTL DEF Spec

(* The baseline the stream retains can always be opened, and its box holds *)
(* what was baked: the crash-safe write order of publishManifestBaseline   *)
(* and the clean-up of rollup never lose a committed document.             *)
THEOREM TicketsAlwaysHonoured == Spec => []TicketsHonoured
<1>1. IInv => TicketsHonoured
  BY DEF IInv
<1> QED BY <1>1, Invariant, PTL

(***************************************************************************)
(* What was posted, and what is made of it: the invariant                  *)
(***************************************************************************)

Posted(kind, n) == \E s \in 1 .. Len(log) : log[s].kind = kind /\ log[s].object = n

Shelved == \E s \in 1 .. Len(log) : log[s].kind = "archived"

(* What was ever posted up to the n-th operation, compactions left aside.  *)
History(n) == Fold(log, EmptyDoc, 1 .. n)

(* Only what was attached is withdrawn, and every baseline holds all that  *)
(* was posted before it - unless a torn drain was baked.                   *)
LogSound ==
  /\ log[first].kind = "baseline"
  /\ \A s \in 1 .. Len(log) : log[s].kind = "attach" => log[s].object \in 0 .. minted
  /\ \A s \in 1 .. Len(log) : log[s].kind = "remove" =>
       \E t \in 1 .. s - 1 : log[t].kind = "attach" /\ log[t].object = log[s].object
  /\ ~tainted => \A s \in 1 .. Len(log) :
                   log[s].kind = "baseline" => log[s].doc = History(s - 1)

(* A drain starts at a baseline; and one that is overtaken by a compaction *)
(* is torn, or finds out when it publishes.                                *)
DrainSound(h) ==
  LET r == reader[h] IN
  /\ r.base > 0 => log[r.base].kind = "baseline" /\ r.base <= first
  /\ r.records \subseteq r.base .. r.pos
  /\ pc[h] = "idle" \/ r.base = 0 => r = NoReader
  /\ pc[h] = "draining" => r.pos < Len(log)
  /\ r.base > 0 /\ r.base < first =>
       /\ pc[h] = "draining" => Torn(r) \/ r.pos + 1 < first
       /\ pc[h] \in {"drained", "publishing"} => Torn(r) \/ r.pos < first

(* An upload is in the store, and nobody else knows of it.                 *)
UploadSound(h) ==
  pc[h] = "uploaded" =>
    /\ object[h] \in blobs /\ ~Posted("attach", object[h])
    /\ \A g \in Handles \ {h} : pc[g] = "uploaded" => object[g] # object[h]

(* Only what is withdrawn is swept, and only when the topic is archived.   *)
SweepSound(h) ==
  /\ pc[h] = "idle" => aim[h] = "look"
  /\ pc[h] \in {"publishing", "cleaning"} => aim[h] = "compact"
  /\ aim[h] = "sweep" => call[h] = "archive"
  /\ call[h] = "archive" /\ aim[h] # "look" => Shelved
  /\ pc[h] = "sweeping" => Shelved /\ \A n \in waste[h] : Posted("remove", n)

BlobsSound ==
  \A s \in 1 .. Len(log) : log[s].kind = "attach" =>
    log[s].object \in blobs \/ (Posted("remove", log[s].object) /\ Shelved)

(* A box is the baseline's, or about to be, or about to be thrown away.    *)
Draft(h)  == IF pc[h] = "publishing" THEN {object[h]} ELSE {}
Refuse(h) == IF pc[h] = "cleaning" THEN waste[h] ELSE {}

BoxesSound ==
  /\ DOMAIN boxes = ({log[first].box} \cup UNION {Draft(h) \cup Refuse(h) : h \in Handles}) \ {0}
  /\ \A g, h \in Handles : g # h => Refuse(g) \cap Refuse(h) = {}

PostsKept ==
  /\ LogSound /\ \A h \in Handles : DrainSound(h)
  /\ ~tainted => BlobsSound /\ \A h \in Handles : UploadSound(h) /\ SweepSound(h)
  /\ ~tainted /\ ~stumbled => BoxesSound

(***************************************************************************)
(* Folds                                                                   *)
(***************************************************************************)

(* The objects that the records of a kind name.                            *)
Objects(ops, records, kind) == {ops[s].object : s \in {r \in records : ops[r].kind = kind}}

LEMMA FoldFields ==
  ASSUME NEW ops, NEW doc, NEW records
  PROVE  LET f == Fold(ops, doc, records)
         IN  /\ f.said = doc.said \cup {s \in records : ops[s].kind = "note"}
             /\ f.attached = doc.attached \cup Objects(ops, records, "attach")
             /\ f.removed = doc.removed \cup (f.attached \cap Objects(ops, records, "remove"))
             /\ f.archived <=> doc.archived \/ \E s \in records : ops[s].kind = "archived"
             /\ f.archived \in BOOLEAN
             /\ f = [said |-> f.said, attached |-> f.attached,
                     removed |-> f.removed, archived |-> f.archived]
BY DEF Fold, Objects

LEMMA SameFold ==
  ASSUME NEW ops, NEW doc, NEW records, NEW also, NEW more, NEW others,
         Fold(ops, doc, records).said = Fold(also, more, others).said,
         Fold(ops, doc, records).attached = Fold(also, more, others).attached,
         Fold(ops, doc, records).removed = Fold(also, more, others).removed,
         Fold(ops, doc, records).archived <=> Fold(also, more, others).archived
  PROVE  Fold(ops, doc, records) = Fold(also, more, others)
<1> DEFINE f == Fold(ops, doc, records)
           g == Fold(also, more, others)
<1>1. /\ f.archived \in BOOLEAN /\ g.archived \in BOOLEAN
      /\ f = [said |-> f.said, attached |-> f.attached,
              removed |-> f.removed, archived |-> f.archived]
      /\ g = [said |-> g.said, attached |-> g.attached,
              removed |-> g.removed, archived |-> g.archived]
  BY FoldFields
<1>2. f.said = g.said /\ f.attached = g.attached /\ f.removed = g.removed
      /\ (f.archived <=> g.archived)
  OBVIOUS
<1> HIDE DEF f, g
<1>3. f.archived = g.archived
  BY <1>1, <1>2
<1>4. f = g
  BY <1>1, <1>2, <1>3
<1> QED BY <1>4 DEF f, g

LEMMA ObjectsSplit ==
  ASSUME NEW ops, NEW kind, NEW a, NEW b
  PROVE  Objects(ops, a \cup b, kind) = Objects(ops, a, kind) \cup Objects(ops, b, kind)
BY DEF Objects

(* Nothing is withdrawn before it is attached.                             *)
InSequence(ops) ==
  \A s \in 1 .. Len(ops) : ops[s].kind = "remove" =>
    \E t \in 1 .. s - 1 : ops[t].kind = "attach" /\ ops[t].object = ops[s].object

(* To fold what came before into a document, and go on from there, is to   *)
(* fold it all.                                                            *)
LEMMA FoldOfFold ==
  ASSUME NEW ops \in Seq(Op), InSequence(ops), NEW b \in Nat \ {0}, NEW n \in Nat,
         b <= n + 1, n <= Len(ops)
  PROVE  Fold(ops, Fold(ops, EmptyDoc, 1 .. b - 1), b .. n) = Fold(ops, EmptyDoc, 1 .. n)
<1> DEFINE before == 1 .. b - 1
           after == b .. n
           all == 1 .. n
           d == Fold(ops, EmptyDoc, before)
           f == Fold(ops, d, after)
           g == Fold(ops, EmptyDoc, all)
<1>1. all = before \cup after
  OBVIOUS
<1>2. \A s \in before : s \in 1 .. Len(ops) /\ (\A t \in 1 .. s - 1 : t \in before)
  OBVIOUS
<1> HIDE DEF before, after, all
<1>3. /\ d.said = EmptyDoc.said \cup {s \in before : ops[s].kind = "note"}
      /\ d.attached = EmptyDoc.attached \cup Objects(ops, before, "attach")
      /\ d.removed = EmptyDoc.removed \cup (d.attached \cap Objects(ops, before, "remove"))
      /\ d.archived <=> EmptyDoc.archived \/ \E s \in before : ops[s].kind = "archived"
  BY FoldFields
<1>4. /\ g.said = EmptyDoc.said \cup {s \in all : ops[s].kind = "note"}
      /\ g.attached = EmptyDoc.attached \cup Objects(ops, all, "attach")
      /\ g.removed = EmptyDoc.removed \cup (g.attached \cap Objects(ops, all, "remove"))
      /\ g.archived <=> EmptyDoc.archived \/ \E s \in all : ops[s].kind = "archived"
  BY FoldFields
<1> HIDE DEF d
<1>5. /\ f.said = d.said \cup {s \in after : ops[s].kind = "note"}
      /\ f.attached = d.attached \cup Objects(ops, after, "attach")
      /\ f.removed = d.removed \cup (f.attached \cap Objects(ops, after, "remove"))
      /\ f.archived <=> d.archived \/ \E s \in after : ops[s].kind = "archived"
  BY FoldFields
<1> HIDE DEF f, g
<1>6. f.said = g.said
  BY <1>1, <1>3, <1>4, <1>5
<1>7. f.attached = g.attached
  BY <1>1, <1>3, <1>4, <1>5, ObjectsSplit
<1>8. f.removed = g.removed
  <2>1. Objects(ops, before, "remove") \subseteq Objects(ops, before, "attach")
    <3>1. ASSUME NEW s \in before, ops[s].kind = "remove"
          PROVE  ops[s].object \in Objects(ops, before, "attach")
      <4>1. PICK t \in 1 .. s - 1 : ops[t].kind = "attach" /\ ops[t].object = ops[s].object
        BY <1>2, <3>1 DEF InSequence
      <4>2. t \in before
        BY <1>2, <4>1
      <4> QED BY <4>1, <4>2 DEF Objects
    <3> QED BY <3>1 DEF Objects
  <2>2. Objects(ops, all, "remove")
          = Objects(ops, before, "remove") \cup Objects(ops, after, "remove")
    BY <1>1, ObjectsSplit
  <2>3. d.attached \subseteq f.attached /\ EmptyDoc.attached = {} /\ EmptyDoc.removed = {}
    BY <1>5 DEF EmptyDoc
  <2> QED BY <1>3, <1>4, <1>5, <1>7, <2>1, <2>2, <2>3
<1>9. f.archived <=> g.archived
  BY <1>1, <1>3, <1>4, <1>5
<1>10. f = g
  BY <1>6, <1>7, <1>8, <1>9, SameFold DEF f, g
<1> QED BY <1>10 DEF f, g, d, before, after, all

(* A fold within a drain, or what everybody sees, is of all there was.     *)
LEMMA FromBaseline ==
  ASSUME TypeOK, LogSound, ~tainted, NEW b \in 1 .. Len(log), NEW n \in Nat,
         log[b].kind = "baseline", b <= n, n <= Len(log)
  PROVE  Fold(log, log[b].doc, b .. n) = History(n)
<1>1. log \in Seq(Op) /\ InSequence(log) /\ b \in Nat \ {0} /\ b <= n + 1
  BY DEF TypeOK, LogSound, InSequence
<1>2. log[b].doc = History(b - 1)
  BY DEF LogSound
<1>3. Fold(log, Fold(log, EmptyDoc, 1 .. b - 1), b .. n) = Fold(log, EmptyDoc, 1 .. n)
  BY <1>1, FoldOfFold
<1> QED BY <1>2, <1>3 DEF History

LEMMA ColdIsHistory ==
  ASSUME TypeOK, LogSound, ~tainted
  PROVE  Cold = History(Len(log))
<1>1. first \in 1 .. Len(log) /\ Len(log) \in Nat /\ first <= Len(log)
      /\ log[first].kind = "baseline"
  BY DEF TypeOK, LogSound
<1> QED BY <1>1, FromBaseline DEF Cold

LEMMA ViewIsHistory ==
  ASSUME TypeOK, LogSound, NEW h \in Handles, SoundReader(h), DrainSound(h),
         ~tainted, ~Torn(reader[h]), reader[h].base > 0
  PROVE  View(h) = History(reader[h].pos)
<1>1. reader[h] \in [base : Nat, pos : Nat, records : SUBSET Nat]
  BY DEF TypeOK
<1>2. PICK b, n : b = reader[h].base /\ n = reader[h].pos
  OBVIOUS
<1>3. b \in 1 .. Len(log) /\ n \in Nat /\ b <= n /\ n <= Len(log)
  BY <1>1, <1>2 DEF SoundReader
<1>4. log[b].kind = "baseline" /\ reader[h].records = b .. n
  BY <1>2 DEF DrainSound, Torn
<1>5. View(h) = Fold(log, log[b].doc, b .. n)
  BY <1>2, <1>4 DEF View
<1>6. Fold(log, log[b].doc, b .. n) = History(n)
  BY <1>3, <1>4, FromBaseline
<1> QED BY <1>2, <1>5, <1>6

LEMMA HistoryStays ==
  ASSUME log \in Seq(Op), NEW op \in Op, log' = Append(log, op), NEW n \in 0 .. Len(log)
  PROVE  History(n)' = History(n)
<1>1. 1 .. n \in SUBSET (1 .. Len(log))
  OBVIOUS
<1>2. Fold(Append(log, op), EmptyDoc, 1 .. n) = Fold(log, EmptyDoc, 1 .. n)
  BY <1>1, FoldStable
<1> QED BY <1>2 DEF History

(***************************************************************************)
(* What a step does to the stream                                          *)
(***************************************************************************)

Posting(h, op) ==
  /\ log' = Append(log, op) /\ UNCHANGED <<first, tainted, minted>>
  /\ op.kind # "baseline"
  /\ op.kind = "attach" => pc[h] = "uploaded" /\ op.object = object[h]
  /\ op.kind = "remove" => Posted("attach", op.object)

Baking(h) == Bakes(h) /\ tainted' = (tainted \/ Torn(reader[h]))

StreamMoves(h) ==
  \/ UNCHANGED <<log, first, tainted>> /\ minted <= minted'
  \/ \E op \in Op : Posting(h, op)
  \/ Baking(h)

LEMMA LogSoundStep ==
  ASSUME IInv, LogSound, NEW h \in Handles, DrainSound(h), minted' \in Nat, StreamMoves(h)
  PROVE  LogSound'
<1>0. /\ TypeOK /\ log \in Seq(Op) /\ Len(log) \in Nat /\ minted \in Nat
      /\ first \in 1 .. Len(log) /\ SoundReader(h)
  BY DEF IInv, TypeOK
<1>1. CASE UNCHANGED <<log, first, tainted>> /\ minted <= minted'
  <2>1. \A n : History(n)' = History(n)
    BY <1>1 DEF History
  <2>2. 0 .. minted \subseteq 0 .. minted'
    BY <1>0, <1>1
  <2> QED BY <1>1, <2>1, <2>2 DEF LogSound
<1>2. ASSUME NEW op \in Op, log' = Append(log, op), minted' = minted,
             op.kind = "attach" => op.object \in 0 .. minted,
             op.kind = "remove" => Posted("attach", op.object),
             log'[first'].kind = "baseline",
             ~tainted' => ~tainted,
             ~tainted' /\ op.kind = "baseline" => op.doc = History(Len(log))
      PROVE  LogSound'
  <2>1. /\ Len(log') = Len(log) + 1 /\ log'[Len(log) + 1] = op
        /\ \A s \in 1 .. Len(log) : log'[s] = log[s]
        /\ \A s \in 1 .. Len(log') : s \in 1 .. Len(log) \/ s = Len(log) + 1
    BY <1>0, <1>2
  <2>2. \A s \in 1 .. Len(log') : log'[s].kind = "attach" => log'[s].object \in 0 .. minted'
    BY <1>2, <2>1 DEF LogSound
  <2>3. ASSUME NEW s \in 1 .. Len(log'), log'[s].kind = "remove"
        PROVE  \E t \in 1 .. s - 1 : log'[t].kind = "attach" /\ log'[t].object = log'[s].object
    <3>1. CASE s \in 1 .. Len(log)
      <4>1. PICK t \in 1 .. s - 1 : log[t].kind = "attach" /\ log[t].object = log[s].object
        BY <2>1, <2>3, <3>1 DEF LogSound
      <4>2. t \in 1 .. Len(log)
        BY <1>0, <3>1
      <4> QED BY <2>1, <3>1, <4>1, <4>2
    <3>2. CASE s = Len(log) + 1
      <4>1. PICK t \in 1 .. Len(log) : log[t].kind = "attach" /\ log[t].object = op.object
        BY <1>2, <2>1, <2>3, <3>2 DEF Posted
      <4>2. t \in 1 .. s - 1 /\ log'[t] = log[t] /\ log'[s] = op
        BY <1>0, <2>1, <3>2
      <4> QED BY <4>1, <4>2
    <3> QED BY <2>1, <3>1, <3>2
  <2>4. ASSUME ~tainted', NEW s \in 1 .. Len(log'), log'[s].kind = "baseline"
        PROVE  log'[s].doc = History(s - 1)'
    <3>1. s - 1 \in 0 .. Len(log)
      BY <1>0, <2>1
    <3>2. PICK n \in 0 .. Len(log) : n = s - 1
      BY <3>1
    <3>3. History(n)' = History(n)
      BY <1>0, <1>2, HistoryStays
    <3>4. log'[s].doc = History(n)
      <4>1. CASE s \in 1 .. Len(log)
        BY <1>2, <2>1, <2>4, <3>2, <4>1 DEF LogSound
      <4>2. CASE s = Len(log) + 1
        <5>1. n = Len(log)
          BY <1>0, <3>2, <4>2
        <5> QED BY <1>2, <2>1, <2>4, <4>2, <5>1
      <4> QED BY <2>1, <4>1, <4>2
    <3> QED BY <3>2, <3>3, <3>4
  <2> QED BY <1>2, <2>2, <2>3, <2>4 DEF LogSound
<1>3. ASSUME NEW op \in Op, Posting(h, op)
      PROVE  LogSound'
  <2>1. log'[first] = log[first] /\ first' = first /\ log[first].kind = "baseline"
    BY <1>0, <1>3 DEF Posting, LogSound
  <2>2. op.kind = "attach" => op.object \in 0 .. minted
    BY <1>0, <1>3 DEF Posting, TypeOK
  <2> QED BY <1>2, <1>3, <2>1, <2>2 DEF Posting
<1>4. CASE Baking(h)
  <2> DEFINE op == Baseline(View(h), object[h])
  <2>1. /\ reader[h].base > 0 /\ reader[h].pos = Len(log)
        /\ log' = Append(log, op) /\ first' = Len(log) + 1 /\ minted' = minted
    BY <1>0, <1>4 DEF Baking, Bakes, SoundReader
  <2>2. op \in Op /\ op.kind = "baseline" /\ op.doc = View(h)
    <3>1. View(h) \in Docs /\ object[h] \in Nat
      BY <1>0, <2>1, ViewType DEF TypeOK
    <3>2. op \in Op
      BY <3>1, OpTypes
    <3> QED BY <3>2 DEF Baseline
  <2>3. ~tainted' => ~tainted /\ ~Torn(reader[h])
    BY <1>4 DEF Baking
  <2>4. ~tainted' => View(h) = History(Len(log))
    BY <1>0, <2>1, <2>3, ViewIsHistory
  <2> HIDE DEF op
  <2>5. log'[first'] = op
    BY <1>0, <2>1, <2>2
  <2> QED BY <1>2, <2>1, <2>2, <2>3, <2>4, <2>5
<1> QED BY <1>1, <1>3, <1>4 DEF StreamMoves

(* Posted once, posted for good.                                           *)
LEMMA PostedStays ==
  ASSUME \A s \in 1 .. Len(log) : log'[s] = log[s], Len(log) \in Nat, Len(log') \in Nat,
         Len(log) <= Len(log')
  PROVE  /\ \A kind, n : Posted(kind, n) => Posted(kind, n)'
         /\ Shelved => Shelved'
<1>1. \A s \in 1 .. Len(log) : s \in 1 .. Len(log') /\ log'[s] = log[s]
  OBVIOUS
<1> QED BY <1>1 DEF Posted, Shelved

(***************************************************************************)
(* What a step does to the drains                                          *)
(***************************************************************************)

Draining == {"draining", "drained", "publishing"}

DrainMoves(h) ==
  /\ pc'[h] = "idle" => reader'[h] = NoReader
  /\ \/ reader'[h] = NoReader
     \/ /\ reader'[h] = Delivered(reader[h]) /\ reader[h].pos < Len(log)
        /\ UNCHANGED <<log, first>>
        /\ \/ pc'[h] \notin Draining
           \/ /\ pc[h] = "draining"
              /\ pc'[h] = IF reader'[h].pos = Len(log) THEN "drained" ELSE "draining"
     \/ /\ reader'[h] = reader[h] /\ UNCHANGED <<log, first>>
        /\ pc'[h] \notin Draining \/ (pc[h] = "drained" /\ pc'[h] = "publishing")
     \/ reader'[h] = reader[h] /\ pc'[h] = "cleaning"

(* Once torn, torn for good.                                               *)
LEMMA TornStays ==
  ASSUME NEW r, NEW d, NEW s \in Nat, r.base \in Nat \ {0}, r.pos \in Nat,
         r.base <= r.pos, r.records \subseteq r.base .. r.pos, s >= r.pos + 1,
         Torn(r) \/ s > r.pos + 1,
         d.base = r.base, d.pos = s, d.records = r.records \cup {s}
  PROVE  Torn(d)
<1>1. SUFFICES ASSUME d.records = r.base .. s PROVE FALSE
  BY DEF Torn
<1>2. r.pos + 1 \in r.base .. s /\ r.pos + 1 \notin r.records
  OBVIOUS
<1>3. s = r.pos + 1
  BY <1>1, <1>2
<1>4. ASSUME NEW i \in r.base .. r.pos
      PROVE  i \in r.records
  <2>1. i \in r.base .. s /\ i # s
    BY <1>3
  <2> QED BY <1>1, <2>1
<1>5. r.records = r.base .. r.pos
  BY <1>4
<1> QED BY <1>3, <1>5 DEF Torn

LEMMA OtherDrains ==
  ASSUME IInv, NEW h \in Handles, Footprint(h), NEW g \in Handles \ {h}, DrainSound(g),
         first' = first \/ first' = Len(log) + 1
  PROVE  DrainSound(g)'
<1>0. /\ TypeOK /\ SoundReader(h) /\ SoundReader(g)
      /\ first \in 1 .. Len(log) /\ first \in Nat
  BY DEF IInv, TypeOK
<1>1. /\ Len(log) \in Nat /\ Len(log') \in Nat /\ Len(log) <= Len(log')
      /\ \A s \in 1 .. Len(log) : log'[s] = log[s]
  BY <1>0, LogKept
<1>2. pc'[g] = pc[g] /\ reader'[g] = reader[g]
  BY DEF Footprint, StillAt
<1>3. PICK r \in [base : Nat, pos : Nat, records : SUBSET Nat] : r = reader[g]
  BY <1>0 DEF TypeOK
<1>4. r.base \in Nat /\ r.pos \in Nat /\ r.base <= r.pos /\ r.pos <= Len(log)
  BY <1>0, <1>3 DEF SoundReader
<1>5. r.base > 0 => log'[r.base].kind = "baseline" /\ r.base <= first'
  <2>1. r.base > 0 => r.base \in 1 .. Len(log)
    BY <1>1, <1>4
  <2> QED BY <1>0, <1>1, <1>3, <1>4, <2>1 DEF DrainSound
<1>6. pc[g] = "draining" => r.pos < Len(log)
  BY <1>3 DEF DrainSound
<1>7. r.base > 0 /\ r.base < first' =>
        /\ pc[g] = "draining" => Torn(r) \/ r.pos + 1 < first'
        /\ pc[g] \in {"drained", "publishing"} => Torn(r) \/ r.pos < first'
  <2>1. CASE first' = first
    BY <1>3, <2>1 DEF DrainSound
  <2>2. CASE first' = Len(log) + 1
    BY <1>1, <1>4, <1>6, <2>2
  <2> QED BY <2>1, <2>2
<1>8. r.records \subseteq r.base .. r.pos /\ (pc[g] = "idle" => r = NoReader)
  BY <1>3 DEF DrainSound
<1>9. pc[g] = "draining" => r.pos < Len(log')
  BY <1>1, <1>4, <1>6
<1> QED BY <1>2, <1>3, <1>5, <1>7, <1>8, <1>9 DEF DrainSound

LEMMA OwnDrain ==
  ASSUME IInv, LogSound, NEW h \in Handles, Footprint(h), DrainSound(h), DrainMoves(h),
         first' \in Nat, first <= first'
  PROVE  DrainSound(h)'
<1>0. /\ TypeOK /\ SoundReader(h) /\ first \in 1 .. Len(log) /\ first \in Nat
      /\ log[first].kind = "baseline"
  BY DEF IInv, TypeOK, LogSound
<1>1. /\ Len(log) \in Nat /\ Len(log') \in Nat /\ Len(log) <= Len(log')
      /\ \A s \in 1 .. Len(log) : log'[s] = log[s]
  BY <1>0, LogKept
<1>2. PICK r \in [base : Nat, pos : Nat, records : SUBSET Nat] : r = reader[h]
  BY <1>0 DEF TypeOK
<1>3. r.base \in Nat /\ r.pos \in Nat /\ r.base <= r.pos /\ r.pos <= Len(log)
  BY <1>0, <1>2 DEF SoundReader
<1>4. /\ r.base > 0 => log[r.base].kind = "baseline" /\ r.base <= first
      /\ r.records \subseteq r.base .. r.pos
      /\ pc[h] = "draining" => r.pos < Len(log)
      /\ r.base > 0 /\ r.base < first =>
           /\ pc[h] = "draining" => Torn(r) \/ r.pos + 1 < first
           /\ pc[h] \in {"drained", "publishing"} => Torn(r) \/ r.pos < first
  BY <1>2 DEF DrainSound
<1>5. CASE reader'[h] = NoReader
  <2>1. NoReader.base = 0 /\ NoReader.pos = 0 /\ NoReader.records = {}
    BY DEF NoReader
  <2>2. 0 < Len(log')
    BY <1>0, <1>1
  <2> QED BY <1>5, <2>1, <2>2 DEF DrainSound
<1>6. CASE /\ reader'[h] = reader[h] /\ UNCHANGED <<log, first>>
           /\ pc'[h] \notin Draining \/ (pc[h] = "drained" /\ pc'[h] = "publishing")
  <2>1. pc'[h] = "idle" => r = NoReader
    BY <1>2, <1>6 DEF DrainMoves
  <2> QED BY <1>2, <1>4, <1>6, <2>1 DEF DrainSound, Draining
<1>7. CASE reader'[h] = reader[h] /\ pc'[h] = "cleaning"
  <2>1. r.base > 0 => log'[r.base].kind = "baseline" /\ r.base <= first'
    <3>1. r.base > 0 => r.base \in 1 .. Len(log)
      BY <1>1, <1>3
    <3> QED BY <1>0, <1>1, <1>3, <1>4, <3>1
  <2> QED BY <1>2, <1>4, <1>7, <2>1 DEF DrainSound
<1>8. CASE /\ reader'[h] = Delivered(reader[h]) /\ reader[h].pos < Len(log)
           /\ UNCHANGED <<log, first>>
           /\ \/ pc'[h] \notin Draining
              \/ /\ pc[h] = "draining"
                 /\ pc'[h] = IF reader'[h].pos = Len(log) THEN "drained" ELSE "draining"
  <2> DEFINE s == IF r.pos + 1 < first THEN first ELSE r.pos + 1
             b == IF r.base = 0 THEN s ELSE r.base
             d == Delivered(r)
  <2>1. d.base = b /\ d.pos = s /\ d.records = r.records \cup {s}
    BY DEF Delivered
  <2>2. /\ s \in Nat /\ s >= first /\ s >= r.pos + 1 /\ s <= Len(log)
        /\ r.pos + 1 >= first => s = r.pos + 1
        /\ r.pos + 1 < first => s = first
    BY <1>0, <1>1, <1>2, <1>3, <1>8
  <2>3. r.base = 0 => r.records = {} /\ r.pos = 0
    BY <1>2 DEF DrainSound, NoReader
  <2>4. r.base = 0 => s = first /\ b = first
    BY <1>0, <2>2, <2>3
  <2>5. r.base # 0 => b = r.base
    OBVIOUS
  <2> HIDE DEF s, b
  <2>6. b > 0 /\ log[b].kind = "baseline" /\ b <= first
    BY <1>0, <1>3, <1>4, <2>4, <2>5
  <2>7. d.records \subseteq b .. s
    BY <1>0, <1>3, <1>4, <2>1, <2>2, <2>3, <2>4, <2>5
  <2>8. b < first /\ pc[h] = "draining" => Torn(d)
    <3>1. SUFFICES ASSUME b < first, pc[h] = "draining" PROVE Torn(d)
      OBVIOUS
    <3>2. r.base > 0 /\ b = r.base
      BY <1>0, <1>3, <2>4, <2>5, <3>1
    <3>3. Torn(r) \/ s > r.pos + 1
      BY <1>0, <1>3, <1>4, <2>2, <3>1, <3>2
    <3> QED BY <1>3, <1>4, <2>1, <2>2, <3>2, <3>3, TornStays
  <2>9. pc'[h] # "idle"
    <3>1. reader'[h].base > 0
      BY <1>2, <1>8, <2>1, <2>6
    <3> QED BY <3>1 DEF DrainMoves, NoReader
  <2>10. d.base = b /\ d.pos = s /\ reader'[h] = d
    BY <1>2, <1>8, <2>1
  <2> HIDE DEF d
  <2>11. pc'[h] = "draining" => s < Len(log')
    BY <1>1, <1>8, <2>2, <2>10 DEF Draining
  <2>12. pc'[h] \in Draining => pc[h] = "draining" /\ pc'[h] \in {"draining", "drained"}
    BY <1>8
  <2>13. d.base < first' /\ pc'[h] \in Draining => Torn(d)
    BY <1>8, <2>8, <2>10, <2>12 DEF Draining
  <2>14. /\ log'[d.base].kind = "baseline" /\ d.base <= first'
         /\ d.records \subseteq d.base .. d.pos
    BY <1>8, <2>6, <2>7, <2>10
  <2> QED BY <2>6, <2>9, <2>10, <2>11, <2>13, <2>14 DEF DrainSound, Draining
<1> QED BY <1>5, <1>6, <1>7, <1>8 DEF DrainMoves

(***************************************************************************)
(* What a step does to the blobs                                           *)
(***************************************************************************)

BlobMoves(h) ==
  /\ pc'[h] = "uploaded" => /\ blobs' = blobs \cup {minted + 1} /\ UNCHANGED log
                            /\ minted' = minted + 1 /\ object'[h] = minted + 1
  /\ \/ UNCHANGED blobs
     \/ pc'[h] = "uploaded"
     \/ /\ pc[h] = "sweeping" /\ UNCHANGED log
        /\ \E n \in waste[h] : blobs' = blobs \ {n}

LEMMA BlobsStep ==
  ASSUME IInv, LogSound, BlobsSound, \A g \in Handles : UploadSound(g) /\ SweepSound(g),
         NEW h \in Handles, Footprint(h), BlobMoves(h),
         log' = log \/ \E op \in Op : log' = Append(log, op)
                         /\ (op.kind = "attach" => pc[h] = "uploaded" /\ op.object = object[h])
  PROVE  BlobsSound' /\ \A g \in Handles : UploadSound(g)'
<1>0. /\ TypeOK /\ log \in Seq(Op) /\ minted \in Nat
      /\ \A g \in Handles : object[g] \in 0 .. minted
  BY DEF IInv, TypeOK
<1>1. /\ Len(log) \in Nat /\ Len(log') \in Nat /\ Len(log) <= Len(log')
      /\ \A s \in 1 .. Len(log) : log'[s] = log[s]
  BY <1>0, LogKept DEF IInv
<1>2. /\ \A kind, n : Posted(kind, n) => Posted(kind, n)'
      /\ Shelved => Shelved'
  BY <1>1, PostedStays
<1>3. ASSUME NEW s \in 1 .. Len(log'), log'[s].kind = "attach"
      PROVE  \/ s \in 1 .. Len(log) /\ log'[s] = log[s]
             \/ pc[h] = "uploaded" /\ log'[s].object = object[h] /\ log' # log
  <2>1. CASE log' = log
    BY <1>3, <2>1
  <2>2. ASSUME NEW op \in Op, log' = Append(log, op),
               op.kind = "attach" => pc[h] = "uploaded" /\ op.object = object[h]
        PROVE  \/ s \in 1 .. Len(log) /\ log'[s] = log[s]
               \/ pc[h] = "uploaded" /\ log'[s].object = object[h] /\ log' # log
    <3>1. Len(log') = Len(log) + 1 /\ log'[Len(log) + 1] = op
      BY <1>0, <2>2
    <3>2. CASE s \in 1 .. Len(log)
      BY <1>1, <3>2
    <3>3. CASE s = Len(log) + 1
      BY <1>0, <1>3, <2>2, <3>1, <3>3
    <3> QED BY <1>0, <3>1, <3>2, <3>3
  <2> QED BY <2>1, <2>2
(* Only what is withdrawn, and so was attached, leaves the store.          *)
<1>4. ASSUME NEW n \in blobs, n \notin blobs'
      PROVE  Posted("remove", n) /\ Posted("attach", n) /\ Shelved
  <2>1. pc[h] = "sweeping" /\ n \in waste[h]
    BY <1>4 DEF BlobMoves
  <2>2. Posted("remove", n) /\ Shelved
    BY <2>1 DEF SweepSound
  <2>3. PICK s \in 1 .. Len(log) : log[s].kind = "remove" /\ log[s].object = n
    BY <2>2 DEF Posted
  <2>4. PICK t \in 1 .. s - 1 : log[t].kind = "attach" /\ log[t].object = n
    BY <2>3 DEF LogSound
  <2>5. t \in 1 .. Len(log)
    BY <1>1
  <2> QED BY <2>2, <2>4, <2>5 DEF Posted
<1>5. ASSUME NEW s \in 1 .. Len(log'), log'[s].kind = "attach", NEW n, n = log'[s].object
      PROVE  n \in blobs' \/ (Posted("remove", n)' /\ Shelved')
  <2>1. CASE s \in 1 .. Len(log) /\ log'[s] = log[s]
    <3>1. log[s].kind = "attach" /\ n = log[s].object
      BY <1>5, <2>1
    <3>2. n \in blobs \/ (Posted("remove", n) /\ Shelved)
      BY <2>1, <3>1 DEF BlobsSound
    <3> QED BY <1>2, <1>4, <3>2
  <2>2. CASE pc[h] = "uploaded" /\ log'[s].object = object[h] /\ log' # log
    <3>1. n \in blobs
      BY <1>5, <2>2 DEF UploadSound
    <3> QED BY <1>2, <1>4, <3>1
  <2> QED BY <1>3, <1>5, <2>1, <2>2
<1>6. BlobsSound'
  <2>1. ASSUME NEW s \in 1 .. Len(log'), log'[s].kind = "attach"
        PROVE  \/ log'[s].object \in blobs'
               \/ /\ Shelved'
                  /\ \E t \in 1 .. Len(log') : log'[t].kind = "remove" /\ log'[t].object = log'[s].object
    BY <1>5, <2>1 DEF Posted
  <2> QED BY <2>1 DEF BlobsSound, Posted
<1>7. ASSUME NEW g \in Handles, pc'[g] = "uploaded"
      PROVE  /\ object'[g] \in blobs'
             /\ \A s \in 1 .. Len(log') : log'[s].kind = "attach" => log'[s].object # object'[g]
             /\ \A f \in Handles \ {g} : pc'[f] = "uploaded" => object'[f] # object'[g]
  <2>1. \A f \in Handles \ {h} : pc'[f] = pc[f] /\ object'[f] = object[f]
    BY DEF Footprint, StillAt
  <2>2. CASE g = h
    <3>1. object'[h] = minted + 1 /\ minted + 1 \in blobs' /\ log' = log
      BY <1>7, <2>2 DEF BlobMoves
    <3>2. \A s \in 1 .. Len(log) : log[s].kind = "attach" => log[s].object # minted + 1
      BY <1>0 DEF LogSound
    <3>3. \A f \in Handles \ {h} : object'[f] # minted + 1
      BY <1>0, <2>1
    <3> QED BY <2>2, <3>1, <3>2, <3>3
  <2>3. CASE g # h
    <3>1. /\ pc[g] = "uploaded" /\ object'[g] = object[g]
          /\ object[g] \in blobs /\ ~Posted("attach", object[g])
          /\ \A f \in Handles \ {g} : pc[f] = "uploaded" => object[f] # object[g]
      BY <1>7, <2>1, <2>3 DEF UploadSound
    <3>2. object[g] \in blobs'
      BY <1>4, <3>1
    <3>3. ASSUME NEW s \in 1 .. Len(log'), log'[s].kind = "attach"
          PROVE  log'[s].object # object[g]
      <4>1. CASE s \in 1 .. Len(log) /\ log'[s] = log[s]
        BY <3>1, <3>3, <4>1 DEF Posted
      <4>2. CASE pc[h] = "uploaded" /\ log'[s].object = object[h]
        BY <2>3, <3>1, <4>2
      <4> QED BY <1>3, <3>3, <4>1, <4>2
    <3>4. pc'[h] = "uploaded" => object'[h] # object[g]
      BY <1>0 DEF BlobMoves
    <3>5. \A f \in Handles \ {g} : pc'[f] = "uploaded" => object'[f] # object'[g]
      BY <2>1, <2>3, <3>1, <3>4
    <3> QED BY <3>1, <3>2, <3>3, <3>5
  <2> QED BY <2>2, <2>3
<1>8. \A g \in Handles : UploadSound(g)'
  BY <1>7 DEF UploadSound, Posted
<1> QED BY <1>6, <1>8

(* What a drain has found withdrawn was withdrawn, and what it has found   *)
(* archived was archived.                                                  *)
LEMMA ViewIsTrue ==
  ASSUME TypeOK, LogSound, ~tainted, NEW h \in Handles, SoundReader(h), DrainSound(h),
         reader[h].base > 0
  PROVE  /\ \A n \in View(h).removed : Posted("remove", n)
         /\ View(h).archived => Shelved
<1>1. PICK b, R : b = reader[h].base /\ R = reader[h].records
  OBVIOUS
<1>2. b \in 1 .. Len(log) /\ R \subseteq 1 .. Len(log) /\ log[b].kind = "baseline"
  BY <1>1 DEF TypeOK, SoundReader, DrainSound
<1> DEFINE before == 1 .. b - 1
           d == Fold(log, EmptyDoc, before)
           v == Fold(log, d, R)
<1>3. log[b].doc = d /\ before \subseteq 1 .. Len(log)
  BY <1>2 DEF LogSound, TypeOK, History
<1> HIDE DEF before
<1>4. /\ d.removed = EmptyDoc.removed \cup (d.attached \cap Objects(log, before, "remove"))
      /\ d.archived <=> EmptyDoc.archived \/ \E s \in before : log[s].kind = "archived"
  BY FoldFields
<1>5. View(h) = v
  BY <1>1, <1>3 DEF View
<1> HIDE DEF d
<1>6. /\ v.removed = d.removed \cup (v.attached \cap Objects(log, R, "remove"))
      /\ v.archived <=> d.archived \/ \E s \in R : log[s].kind = "archived"
  BY FoldFields
<1> HIDE DEF v
<1>7. \A n \in Objects(log, before, "remove") \cup Objects(log, R, "remove") : Posted("remove", n)
  BY <1>2, <1>3 DEF Objects, Posted
<1>8. \A s \in before \cup R : log[s].kind = "archived" => Shelved
  BY <1>2, <1>3 DEF Shelved
<1>9. EmptyDoc.removed = {} /\ EmptyDoc.archived = FALSE
  BY DEF EmptyDoc
<1> QED BY <1>4, <1>5, <1>6, <1>7, <1>8, <1>9

(***************************************************************************)
(* What a step does to the aims and to the boxes                           *)
(***************************************************************************)

(* A drain for a compaction of Archive, or for its sweep, is begun when    *)
(* the handle knows of an archived topic.                                  *)
Knows(h) ==
  \/ pc[h] \in {"publishing", "cleaning"} \/ aim[h] # "look"
  \/ reader[h].base > 0 /\ View(h).archived
  \/ log' # log /\ log'[Len(log')].kind = "archived"

SweepMoves(h) ==
  \/ aim'[h] = "look" /\ pc'[h] \notin {"publishing", "cleaning", "sweeping"}
  \/ aim'[h] = "compact" /\ call'[h] = "rollup" /\ pc'[h] = "draining"
  \/ /\ call'[h] = call[h] /\ pc'[h] = "draining"
     /\ aim'[h] = "sweep" => call[h] = "archive"
     /\ Knows(h)
  \/ /\ call'[h] = call[h] /\ aim'[h] = aim[h] /\ pc'[h] # "idle"
     /\ pc'[h] \in {"publishing", "cleaning"} => aim[h] = "compact" \/ pc[h] = "publishing"
     /\ pc'[h] = "sweeping" =>
          \/ aim[h] = "sweep" /\ reader[h].base > 0 /\ waste'[h] = View(h).removed
          \/ pc[h] = "sweeping" /\ waste'[h] \subseteq waste[h]

LEMMA SweepStep ==
  ASSUME IInv, LogSound, ~tainted, NEW h \in Handles, Footprint(h), DrainSound(h),
         SweepMoves(h), \A g \in Handles : SweepSound(g),
         \A g \in Handles \ {h} : call'[g] = call[g] /\ aim'[g] = aim[g]
  PROVE  \A g \in Handles : SweepSound(g)'
<1>0. TypeOK /\ SoundReader(h)
  BY DEF IInv
<1>1. /\ Len(log) \in Nat /\ Len(log') \in Nat /\ Len(log) <= Len(log')
      /\ \A s \in 1 .. Len(log) : log'[s] = log[s]
      /\ log' # log => Len(log') \in 1 .. Len(log')
  <2>1. log \in Seq(Op)
    BY <1>0 DEF TypeOK
  <2>2. ASSUME NEW op \in Op, log' = Append(log, op)
        PROVE  Len(log') \in 1 .. Len(log')
    BY <2>1, <2>2
  <2> QED BY <1>0, <2>2, LogKept
<1>2. /\ \A n : Posted("remove", n) => Posted("remove", n)'
      /\ Shelved => Shelved'
  BY <1>1, PostedStays
<1>3. ASSUME NEW g \in Handles \ {h}
      PROVE  SweepSound(g)'
  <2>1. pc'[g] = pc[g] /\ waste'[g] = waste[g] /\ call'[g] = call[g] /\ aim'[g] = aim[g]
    BY DEF Footprint, StillAt
  <2> QED BY <1>2, <2>1 DEF SweepSound
<1>4. SweepSound(h)'
  <2>1. CASE aim'[h] = "look" /\ pc'[h] \notin {"publishing", "cleaning", "sweeping"}
    BY <2>1 DEF SweepSound
  <2>2. CASE aim'[h] = "compact" /\ call'[h] = "rollup" /\ pc'[h] = "draining"
    BY <2>2 DEF SweepSound
  <2>3. CASE /\ call'[h] = call[h] /\ pc'[h] = "draining"
             /\ aim'[h] = "sweep" => call[h] = "archive"
             /\ Knows(h)
    <3>1. call[h] = "archive" => Shelved'
      <4>1. CASE pc[h] \in {"publishing", "cleaning"} \/ aim[h] # "look"
        BY <1>2, <4>1 DEF SweepSound
      <4>2. CASE reader[h].base > 0 /\ View(h).archived
        BY <1>0, <1>2, <4>2, ViewIsTrue
      <4>3. CASE log' # log /\ log'[Len(log')].kind = "archived"
        BY <1>1, <4>3 DEF Shelved
      <4> QED BY <2>3, <4>1, <4>2, <4>3 DEF Knows
    <3> QED BY <2>3, <3>1 DEF SweepSound
  <2>4. CASE /\ call'[h] = call[h] /\ aim'[h] = aim[h] /\ pc'[h] # "idle"
             /\ pc'[h] \in {"publishing", "cleaning"} => aim[h] = "compact" \/ pc[h] = "publishing"
             /\ pc'[h] = "sweeping" =>
                  \/ aim[h] = "sweep" /\ reader[h].base > 0 /\ waste'[h] = View(h).removed
                  \/ pc[h] = "sweeping" /\ waste'[h] \subseteq waste[h]
    <3>1. pc'[h] = "sweeping" => Shelved' /\ \A n \in waste'[h] : Posted("remove", n)'
      <4>1. CASE aim[h] = "sweep" /\ reader[h].base > 0 /\ waste'[h] = View(h).removed
        <5>1. Shelved
          BY <4>1 DEF SweepSound
        <5>2. \A n \in View(h).removed : Posted("remove", n)
          BY <1>0, <4>1, ViewIsTrue
        <5> QED BY <1>2, <4>1, <5>1, <5>2
      <4>2. CASE pc[h] = "sweeping" /\ waste'[h] \subseteq waste[h]
        <5>1. Shelved /\ \A n \in waste[h] : Posted("remove", n)
          BY <4>2 DEF SweepSound
        <5> QED BY <1>2, <4>2, <5>1
      <4> QED BY <2>4, <4>1, <4>2
    <3>2. call'[h] = "archive" /\ aim'[h] # "look" => Shelved'
      BY <1>2, <2>4 DEF SweepSound
    <3> QED BY <2>4, <3>1, <3>2 DEF SweepSound
  <2> QED BY <2>1, <2>2, <2>3, <2>4 DEF SweepMoves
<1> QED BY <1>3, <1>4

BoxMoves(h) ==
  \/ stumbled'
  \/ /\ UNCHANGED <<boxes, first>> /\ log'[first] = log[first]
     /\ Draft(h) \subseteq {0} /\ Draft(h)' \subseteq {0}
     /\ Refuse(h) = {} /\ Refuse(h)' = {}
  \/ Puts(h) /\ pc[h] = "drained"
  \/ Bakes(h) /\ Refuse(h)' = Superseded(h)
  \/ Throws(h) /\ pc'[h] \notin {"publishing", "cleaning"}

LEMMA BoxesStep ==
  ASSUME IInv, LogSound, BoxesSound, NEW h \in Handles, Footprint(h), DrainSound(h),
         BoxMoves(h), ~stumbled', Bakes(h) => ~Torn(reader[h])
  PROVE  BoxesSound'
<1> DEFINE others == UNION {Draft(g) \cup Refuse(g) : g \in Handles \ {h}}
<1>0. /\ TypeOK /\ OwnBoxes /\ OwnDrafts /\ log \in Seq(Op) /\ first \in 1 .. Len(log)
      /\ minted \in Nat /\ first \in Nat /\ Len(log) \in Nat
      /\ \A g \in Handles : SoundReader(g) /\ SoundDraft(g) /\ SoundWaste(g)
      /\ \A g \in Handles : object[g] \in 0 .. minted
  BY DEF IInv, TypeOK
<1>1. \A g \in Handles \ {h} : Draft(g)' = Draft(g) /\ Refuse(g)' = Refuse(g)
  BY DEF Footprint, StillAt, Draft, Refuse
<1>2. others' = others
  BY <1>1
<1>3. /\ UNION {Draft(g) \cup Refuse(g) : g \in Handles} = others \cup Draft(h) \cup Refuse(h)
      /\ (UNION {Draft(g) \cup Refuse(g) : g \in Handles})'
           = others' \cup Draft(h)' \cup Refuse(h)'
  OBVIOUS
<1>4. DOMAIN boxes = ({log[first].box} \cup others \cup Draft(h) \cup Refuse(h)) \ {0}
  BY <1>3 DEF BoxesSound
<1>5. \A f, g \in Handles : f # g => Refuse(f) \cap Refuse(g) = {}
  BY DEF BoxesSound
<1>6. ASSUME DOMAIN boxes' = ({log'[first'].box} \cup others \cup Draft(h)' \cup Refuse(h)') \ {0},
             \A g \in Handles \ {h} : Refuse(g) \cap Refuse(h)' = {}
      PROVE  BoxesSound'
  <2>1. DOMAIN boxes' = ({log'[first'].box} \cup (UNION {Draft(g) \cup Refuse(g) : g \in Handles})') \ {0}
    BY <1>2, <1>3, <1>6
  <2>2. \A f, g \in Handles : f # g => Refuse(f)' \cap Refuse(g)' = {}
    BY <1>1, <1>5, <1>6
  <2> QED BY <2>1, <2>2 DEF BoxesSound
<1>7. \A g \in Handles : Refuse(g) \subseteq {log[s].box : s \in 1 .. first - 1} \ {0}
  BY <1>0 DEF SoundWaste, Refuse
<1> HIDE DEF others
<1>8. CASE /\ UNCHANGED <<boxes, first>> /\ log'[first] = log[first]
           /\ Draft(h) \subseteq {0} /\ Draft(h)' \subseteq {0}
           /\ Refuse(h) = {} /\ Refuse(h)' = {}
  BY <1>4, <1>6, <1>8
<1>9. CASE Puts(h) /\ pc[h] = "drained"
  <2>1. Draft(h) = {} /\ Refuse(h) = {} /\ Draft(h)' = {minted + 1} /\ Refuse(h)' = {}
    BY <1>9 DEF Puts, Draft, Refuse
  <2>2. DOMAIN boxes' = DOMAIN boxes \cup {minted + 1} /\ minted + 1 # 0
    BY <1>0, <1>9 DEF Puts
  <2>3. log'[first'] = log[first]
    BY <1>9 DEF Puts
  <2> QED BY <1>4, <1>6, <2>1, <2>2, <2>3
<1>10. CASE Bakes(h) /\ Refuse(h)' = Superseded(h)
  <2>1. reader[h].base = first
    <3>1. PICK r \in [base : Nat, pos : Nat, records : SUBSET Nat] : r = reader[h]
      BY <1>0 DEF TypeOK
    <3>2. r.base > 0 /\ r.base <= first /\ r.pos = Len(log) /\ ~Torn(r)
      BY <1>0, <1>10, <3>1 DEF Bakes, SoundReader, DrainSound
    <3>3. r.base < first => Torn(r) \/ r.pos < first
      BY <1>10, <3>1, <3>2 DEF Bakes, DrainSound
    <3> QED BY <1>0, <3>1, <3>2, <3>3
  <2>2. Draft(h) = {object[h]} /\ Draft(h)' = {} /\ Refuse(h) = {}
    BY <1>10 DEF Bakes, Draft, Refuse
  <2>3. Refuse(h)' = {log[first].box} \ {0}
    BY <1>10, <2>1 DEF Superseded
  <2>4. log'[first'].box = object[h] /\ boxes' = boxes
    <3>1. Baseline(View(h), object[h]).box = object[h]
      BY DEF Baseline
    <3> HIDE DEF Baseline, View
    <3> QED BY <1>0, <1>10, <3>1 DEF Bakes
  <2>5. \A g \in Handles : Refuse(g) \cap ({log[first].box} \ {0}) = {}
    <3>1. ASSUME NEW g \in Handles, NEW n \in Refuse(g), n = log[first].box, n # 0
          PROVE  FALSE
      <4>1. PICK s \in 1 .. first - 1 : n = log[s].box
        BY <1>7, <3>1
      <4>2. s \in 1 .. Len(log) /\ first \in 1 .. Len(log) /\ s # first
        BY <1>0
      <4>3. log[s].box = log[first].box
        BY <3>1, <4>1
      <4>4. log[s].box = 0
        BY <1>0, <4>2, <4>3 DEF OwnBoxes
      <4> QED BY <3>1, <4>1, <4>4
    <3> QED BY <3>1
  <2> QED BY <1>4, <1>6, <2>2, <2>3, <2>4, <2>5
<1>11. CASE Throws(h) /\ pc'[h] \notin {"publishing", "cleaning"}
  <2>1. Draft(h) = {} /\ Draft(h)' = {} /\ Refuse(h) = waste[h] /\ Refuse(h)' = {}
    BY <1>11 DEF Throws, Draft, Refuse
  <2>2. DOMAIN boxes' = DOMAIN boxes \ waste[h] /\ log'[first'] = log[first]
    BY <1>11 DEF Throws
  <2>3. log[first].box = 0 \/ log[first].box \notin waste[h]
    BY <1>0, <1>7, <2>1 DEF OwnBoxes
  <2>4. ASSUME NEW n \in others, n # 0
        PROVE  n \notin waste[h]
    <3>1. PICK g \in Handles \ {h} : n \in Draft(g) \cup Refuse(g)
      BY <2>4 DEF others
    <3>2. CASE n \in Refuse(g)
      BY <1>5, <2>1, <3>2
    <3>3. CASE n \in Draft(g)
      <4>1. pc[g] = "publishing" /\ n = object[g]
        BY <3>3 DEF Draft
      <4>2. \A s \in 1 .. Len(log) : log[s].box # n
        BY <1>0, <2>4, <4>1 DEF SoundDraft
      <4> QED BY <1>0, <1>7, <2>1, <4>2
    <3> QED BY <3>1, <3>2, <3>3
  <2>5. 0 \notin waste[h]
    BY <1>7, <2>1
  <2> QED BY <1>4, <1>6, <2>1, <2>2, <2>3, <2>4, <2>5
<1> QED BY <1>8, <1>9, <1>10, <1>11 DEF BoxMoves

(***************************************************************************)
(* What every action does                                                  *)
(***************************************************************************)

Moves(h) ==
  /\ StreamMoves(h) /\ DrainMoves(h) /\ BlobMoves(h) /\ BoxMoves(h)
  /\ ~tainted => SweepMoves(h)
  /\ \A g \in Handles \ {h} : call'[g] = call[g] /\ aim'[g] = aim[g]
  /\ first' = first \/ first' = Len(log) + 1
  /\ stumbled => stumbled'

LEMMA ReturnMoves ==
  ASSUME TypeOK, NEW h \in Handles, Return(h)
  PROVE  /\ pc'[h] = "idle" /\ DrainMoves(h) /\ SweepMoves(h)
         /\ \A g \in Handles \ {h} : call'[g] = call[g] /\ aim'[g] = aim[g]
         /\ Draft(h)' = {} /\ Refuse(h)' = {}
<1>1. pc'[h] = "idle" /\ reader'[h] = NoReader /\ aim'[h] = "look"
  BY DEF TypeOK, Return
<1>2. \A g \in Handles \ {h} : call'[g] = call[g] /\ aim'[g] = aim[g]
  BY DEF TypeOK, Return
<1> QED BY <1>1, <1>2 DEF DrainMoves, SweepMoves, Draft, Refuse

LEMMA DrainAgainMoves ==
  ASSUME TypeOK, NEW h \in Handles, NEW for, NEW try, Drain(h, for, try),
         for = "sweep" => call[h] = "archive", Knows(h)
  PROVE  /\ pc'[h] = "draining" /\ DrainMoves(h) /\ SweepMoves(h)
         /\ \A g \in Handles \ {h} : call'[g] = call[g] /\ aim'[g] = aim[g]
         /\ Draft(h)' = {} /\ Refuse(h)' = {}
<1>1. pc'[h] = "draining" /\ reader'[h] = NoReader /\ aim'[h] = for /\ call'[h] = call[h]
  BY DEF TypeOK, Drain
<1>2. \A g \in Handles \ {h} : call'[g] = call[g] /\ aim'[g] = aim[g]
  BY DEF TypeOK, Drain
<1> QED BY <1>1, <1>2 DEF DrainMoves, SweepMoves, Draft, Refuse

(* Nothing but the handle moves.                                           *)
LEMMA QuietMoves ==
  ASSUME UNCHANGED <<streamVars, blobs, minted>>, TypeOK, NEW h \in Handles, pc'[h] # "uploaded"
  PROVE  StreamMoves(h) /\ BlobMoves(h) /\ (first' = first \/ first' = Len(log) + 1)
BY DEF StreamMoves, BlobMoves, streamVars, TypeOK

LEMMA PostingMoves ==
  ASSUME TypeOK, NEW h \in Handles, NEW kind \in {"note", "attach", "remove", "archived"}, NEW n \in Nat,
         Publish(Plain(kind, n)), UNCHANGED storeVars, pc'[h] # "uploaded",
         kind = "attach" => pc[h] = "uploaded" /\ n = object[h],
         kind = "remove" => Posted("attach", n)
  PROVE  /\ StreamMoves(h) /\ BlobMoves(h) /\ first' = first
         /\ boxes' = boxes /\ log'[first] = log[first]
         /\ log' # log /\ log'[Len(log')].kind = kind
<1>1. PICK op : op = Plain(kind, n)
  OBVIOUS
<1>2. op \in Op /\ op.kind = kind /\ op.object = n
  BY <1>1, OpTypes DEF Plain
<1>3. log' = Append(log, op) /\ UNCHANGED <<first, tainted, minted, blobs, boxes>>
  BY <1>1 DEF Publish, storeVars
<1>4. Posting(h, op)
  BY <1>2, <1>3 DEF Posting
<1>5. Len(log') = Len(log) + 1 /\ log'[Len(log')] = op /\ log'[first] = log[first]
  BY <1>2, <1>3 DEF TypeOK
<1>6. Len(log') # Len(log)
  BY <1>5 DEF TypeOK
<1> QED BY <1>2, <1>3, <1>4, <1>5, <1>6 DEF StreamMoves, BlobMoves

LEMMA MovesStep ==
  ASSUME IInv, NEW h \in Handles, DrainSound(h), ~tainted => SweepSound(h),
         \/ PostNote(h) \/ BeginAttach(h) \/ PostAttachment(h) \/ PostRemoval(h)
         \/ BeginMaterialise(h) \/ BeginArchive(h) \/ BeginRollup(h) \/ BeginFollow(h)
         \/ Read(h) \/ CannotOpen(h) \/ FinishMaterialise(h)
         \/ ReadLive(h) \/ OpenBaseline(h)
         \/ RollupDeclined(h) \/ EncodeInline(h) \/ PutBox(h)
         \/ Commit(h) \/ DeleteSuperseded(h) \/ LoseRace(h)
         \/ ArchiveAgain(h) \/ ArchiveShelves(h) \/ PostArchived(h)
         \/ BeginSweep(h) \/ DeleteBlob(h)
         \/ GiveUp(h) \/ Crash(h)
  PROVE  Moves(h)
<1>0. /\ TypeOK /\ minted \in Nat /\ SoundReader(h) /\ SoundDraft(h)
      /\ pc[h] = "idle" => reader[h] = NoReader
  BY DEF IInv, TypeOK, DrainSound
<1>a. ASSUME UNCHANGED <<boxes, first>>, log'[first] = log[first],
             pc[h] \notin {"publishing", "cleaning"}, pc'[h] \notin {"publishing", "cleaning"}
      PROVE  BoxMoves(h)
  BY <1>a DEF BoxMoves, Draft, Refuse
<1>1. CASE PostNote(h) \/ PostRemoval(h)
  <2>1. UNCHANGED callVars /\ UNCHANGED <<storeVars, stumbled>> /\ pc[h] = "idle"
    BY <1>1 DEF PostNote, PostRemoval
  <2>2. \E kind \in {"note", "remove"}, n \in Nat :
          Publish(Plain(kind, n)) /\ (kind = "remove" => Posted("attach", n))
    <3>1. CASE PostNote(h)
      BY <3>1 DEF PostNote
    <3>2. CASE PostRemoval(h)
      <4>1. PICK s \in 1 .. Len(log) : log[s].kind = "attach" /\ Publish(Plain("remove", log[s].object))
        BY <3>2 DEF PostRemoval
      <4>2. log[s] \in Op
        BY <1>0 DEF TypeOK
      <4>3. log[s].object \in Nat /\ Posted("attach", log[s].object)
        BY <4>1, <4>2 DEF Op, Posted
      <4> QED BY <4>1, <4>3
    <3> QED BY <1>1, <3>1, <3>2
  <2>3. pc' = pc /\ reader' = reader /\ aim' = aim /\ call' = call
    BY <2>1 DEF callVars
  <2>4. /\ StreamMoves(h) /\ BlobMoves(h) /\ first' = first
        /\ boxes' = boxes /\ log'[first] = log[first]
    BY <1>0, <2>1, <2>2, <2>3, PostingMoves
  <2>5. BoxMoves(h)
    BY <1>a, <2>1, <2>3, <2>4
  <2>6. ~tainted => SweepMoves(h)
    BY <2>1, <2>3 DEF SweepMoves, SweepSound
  <2>7. DrainMoves(h)
    BY <1>0, <2>1, <2>3 DEF DrainMoves
  <2> QED BY <2>1, <2>3, <2>4, <2>5, <2>6, <2>7 DEF Moves
<1>2. CASE BeginAttach(h)
  <2>1. /\ pc[h] = "idle" /\ pc'[h] = "uploaded" /\ reader' = reader /\ aim' = aim
        /\ \A g \in Handles \ {h} : call'[g] = call[g]
        /\ blobs' = blobs \cup {minted + 1} /\ minted' = minted + 1 /\ object'[h] = minted + 1
        /\ UNCHANGED <<streamVars, boxes, stumbled>>
    BY <1>0, <1>2 DEF BeginAttach, Begin, TypeOK
  <2>2. /\ StreamMoves(h) /\ BlobMoves(h) /\ first' = first
        /\ boxes' = boxes /\ log'[first] = log[first]
    BY <1>0, <2>1 DEF StreamMoves, BlobMoves, streamVars
  <2>3. BoxMoves(h)
    BY <1>a, <2>1, <2>2
  <2>4. ~tainted => SweepMoves(h)
    BY <2>1 DEF SweepMoves, SweepSound
  <2>5. DrainMoves(h)
    BY <1>0, <2>1 DEF DrainMoves
  <2> QED BY <2>1, <2>2, <2>3, <2>4, <2>5 DEF Moves
<1>3. CASE PostAttachment(h)
  <2>1. /\ pc[h] = "uploaded" /\ Publish(Plain("attach", object[h])) /\ Return(h)
        /\ UNCHANGED <<storeVars, stumbled>> /\ object[h] \in Nat
    BY <1>0, <1>3 DEF PostAttachment, TypeOK
  <2>2. /\ pc'[h] = "idle" /\ DrainMoves(h) /\ SweepMoves(h)
        /\ \A g \in Handles \ {h} : call'[g] = call[g] /\ aim'[g] = aim[g]
    BY <1>0, <2>1, ReturnMoves
  <2>3. /\ StreamMoves(h) /\ BlobMoves(h) /\ first' = first
        /\ boxes' = boxes /\ log'[first] = log[first]
    BY <1>0, <2>1, <2>2, PostingMoves
  <2>4. BoxMoves(h)
    BY <1>a, <2>1, <2>2, <2>3
  <2> QED BY <2>1, <2>2, <2>3, <2>4 DEF Moves
<1>4. CASE BeginMaterialise(h) \/ BeginArchive(h) \/ BeginRollup(h) \/ BeginFollow(h)
  <2>1. /\ pc[h] = "idle" /\ UNCHANGED <<streamVars, storeVars, reader, stumbled>>
        /\ \E stage \in {"draining", "following"} : pc' = [pc EXCEPT ![h] = stage]
        /\ \A g \in Handles \ {h} : call'[g] = call[g] /\ aim'[g] = aim[g]
        /\ \/ aim'[h] = aim[h]
           \/ aim'[h] = "compact" /\ call'[h] = "rollup" /\ pc'[h] = "draining"
    BY <1>0, <1>4 DEF BeginMaterialise, BeginArchive, BeginRollup, BeginFollow, Begin, TypeOK
  <2>2. pc'[h] \in {"draining", "following"}
    BY <1>0, <2>1 DEF TypeOK
  <2>3. UNCHANGED <<log, first, boxes, blobs, minted>>
    BY <2>1 DEF streamVars, storeVars
  <2>4. StreamMoves(h) /\ BlobMoves(h) /\ BoxMoves(h)
    BY <1>0, <1>a, <2>1, <2>2, <2>3, QuietMoves
  <2>5. ~tainted => SweepMoves(h)
    BY <2>1, <2>2 DEF SweepMoves, SweepSound
  <2>6. DrainMoves(h)
    BY <1>0, <2>1, <2>2 DEF DrainMoves
  <2> QED BY <2>1, <2>3, <2>4, <2>5, <2>6 DEF Moves
<1>5. CASE Read(h) \/ ReadLive(h)
  <2>1. /\ pc[h] \in {"draining", "following"} /\ reader[h].pos < Len(log)
        /\ UNCHANGED <<streamVars, storeVars, call, aim, stumbled>>
        /\ reader' = [reader EXCEPT ![h] = Delivered(reader[h])]
    BY <1>5 DEF Read, ReadLive
  <2>2. /\ reader'[h] = Delivered(reader[h])
        /\ \/ pc[h] = "draining" /\ pc'[h] = IF reader'[h].pos = Len(log) THEN "drained" ELSE "draining"
           \/ pc[h] = "following" /\ pc'[h] \in {"following", "opening"}
    BY <1>0, <1>5, <2>1 DEF Read, ReadLive, TypeOK
  <2>3. UNCHANGED <<log, first, boxes, blobs, minted>>
    BY <2>1 DEF streamVars, storeVars
  <2>4. pc'[h] \in {"drained", "draining", "following", "opening"}
    BY <2>2
  <2>5. StreamMoves(h) /\ BlobMoves(h) /\ BoxMoves(h)
    BY <1>0, <1>a, <2>1, <2>2, <2>3, <2>4, QuietMoves
  <2>6. SweepMoves(h)
    BY <2>1, <2>4 DEF SweepMoves
  <2>7. DrainMoves(h)
    BY <2>1, <2>2, <2>3 DEF DrainMoves, Draining
  <2> QED BY <2>1, <2>3, <2>5, <2>6, <2>7 DEF Moves
<1>6. CASE CannotOpen(h) \/ FinishMaterialise(h)
  <2>1. Return(h) /\ UNCHANGED <<streamVars, storeVars, stumbled>> /\ pc[h] = "drained"
    BY <1>6 DEF CannotOpen, FinishMaterialise, Ready
  <2>2. UNCHANGED <<log, first, boxes, blobs, minted>>
    BY <2>1 DEF streamVars, storeVars
  <2>3. /\ pc'[h] = "idle" /\ DrainMoves(h) /\ SweepMoves(h)
        /\ \A g \in Handles \ {h} : call'[g] = call[g] /\ aim'[g] = aim[g]
    BY <1>0, <2>1, ReturnMoves
  <2>4. StreamMoves(h) /\ BlobMoves(h) /\ BoxMoves(h)
    BY <1>0, <1>a, <2>1, <2>2, <2>3, QuietMoves
  <2> QED BY <2>1, <2>2, <2>3, <2>4 DEF Moves
<1>7. CASE OpenBaseline(h) \/ ArchiveShelves(h)
  <2>1. /\ pc[h] \in {"opening", "drained"}
        /\ UNCHANGED <<streamVars, storeVars, call, aim, reader, stumbled>>
        /\ \E to \in {"following", "shelving"} : pc' = [pc EXCEPT ![h] = to]
    BY <1>7 DEF OpenBaseline, ArchiveShelves, Ready
  <2>2. pc'[h] \in {"following", "shelving"} /\ UNCHANGED <<log, first, boxes, blobs, minted>>
    BY <1>0, <2>1 DEF TypeOK, streamVars, storeVars
  <2>3. StreamMoves(h) /\ BlobMoves(h) /\ BoxMoves(h)
    BY <1>0, <1>a, <2>1, <2>2, QuietMoves
  <2>4. SweepMoves(h)
    BY <2>1, <2>2 DEF SweepMoves
  <2>5. DrainMoves(h)
    BY <2>1, <2>2 DEF DrainMoves, Draining
  <2> QED BY <2>1, <2>2, <2>3, <2>4, <2>5 DEF Moves
<1>8. CASE EncodeInline(h) \/ PutBox(h)
  <2>1. /\ pc[h] = "drained" /\ pc'[h] = "publishing" /\ aim[h] = "compact"
        /\ UNCHANGED <<streamVars, blobs, call, aim, reader, stumbled>>
        /\ Puts(h) \/ UNCHANGED <<boxes, minted, object>>
    BY <1>0, <1>8 DEF EncodeInline, PutBox, Puts, Compactable, Ready, TypeOK, streamVars, storeVars
  <2>2. UNCHANGED <<log, first, tainted>> /\ minted <= minted'
    BY <1>0, <2>1 DEF streamVars, Puts
  <2>3. StreamMoves(h) /\ BlobMoves(h)
    BY <2>1, <2>2 DEF StreamMoves, BlobMoves
  <2>4. BoxMoves(h)
    BY <1>0, <2>1, <2>2 DEF BoxMoves, Draft, Refuse, SoundDraft
  <2>5. SweepMoves(h)
    BY <2>1 DEF SweepMoves
  <2>6. DrainMoves(h)
    BY <2>1, <2>2 DEF DrainMoves, Draining
  <2> QED BY <2>1, <2>2, <2>3, <2>4, <2>5, <2>6 DEF Moves
<1>9. CASE RollupDeclined(h)
  <2>1. /\ pc[h] = "drained" /\ aim[h] = "compact" /\ UNCHANGED <<streamVars, storeVars, stumbled>>
        /\ Return(h) \/ (call[h] = "archive" /\ Drain(h, "sweep", 0))
    BY <1>9 DEF RollupDeclined, Ready
  <2>2. UNCHANGED <<log, first, boxes, blobs, minted>>
    BY <2>1 DEF streamVars, storeVars
  <2>3. /\ pc'[h] \in {"idle", "draining"} /\ DrainMoves(h) /\ SweepMoves(h)
        /\ \A g \in Handles \ {h} : call'[g] = call[g] /\ aim'[g] = aim[g]
    BY <1>0, <2>1, ReturnMoves, DrainAgainMoves DEF Knows
  <2>4. StreamMoves(h) /\ BlobMoves(h) /\ BoxMoves(h)
    BY <1>0, <1>a, <2>1, <2>2, <2>3, QuietMoves
  <2> QED BY <2>1, <2>2, <2>3, <2>4 DEF Moves
<1>10. CASE Commit(h)
  <2>0. /\ pc[h] = "publishing" /\ Knows(h)
        /\ tainted' = (tainted \/ Torn(reader[h])) /\ UNCHANGED <<blobs, minted>>
    BY <1>10 DEF Commit, Knows, storeVars
  <2>1. pc'[h] # "publishing" => Bakes(h)
    BY <1>10 DEF Commit, Bakes, storeVars
  <2>2. ASSUME pc'[h] \in {"idle", "cleaning", "draining"}
        PROVE  StreamMoves(h) /\ BlobMoves(h) /\ Bakes(h)
    BY <2>0, <2>1, <2>2 DEF StreamMoves, Baking, BlobMoves
  <2>3. first' = Len(log) + 1
    BY <1>10 DEF Commit
  <2>4. CASE /\ pc' = [pc EXCEPT ![h] = "cleaning"]
             /\ waste' = [waste EXCEPT ![h] = Superseded(h)]
             /\ UNCHANGED <<call, aim, attempt, reader, object, broken, archived, stumbled>>
    <3>1. pc'[h] = "cleaning" /\ waste'[h] = Superseded(h)
      BY <1>0, <2>4 DEF TypeOK
    <3>2. StreamMoves(h) /\ BlobMoves(h) /\ Bakes(h)
      BY <2>2, <3>1
    <3>3. BoxMoves(h)
      BY <3>1, <3>2 DEF BoxMoves, Refuse
    <3>4. SweepMoves(h)
      BY <2>0, <2>4, <3>1 DEF SweepMoves
    <3>5. DrainMoves(h)
      BY <2>4, <3>1 DEF DrainMoves
    <3> QED BY <2>3, <2>4, <3>2, <3>3, <3>4, <3>5 DEF Moves
  <2>5. CASE /\ Superseded(h) = {} \/ stumbled'
             /\ Return(h) \/ (call[h] = "archive" /\ Drain(h, "sweep", 0))
             /\ stumbled => stumbled'
    <3>1. /\ pc'[h] \in {"idle", "draining"} /\ DrainMoves(h) /\ SweepMoves(h)
          /\ \A g \in Handles \ {h} : call'[g] = call[g] /\ aim'[g] = aim[g]
          /\ Refuse(h)' = {}
      BY <1>0, <2>0, <2>5, ReturnMoves, DrainAgainMoves
    <3>2. StreamMoves(h) /\ BlobMoves(h) /\ Bakes(h)
      BY <2>2, <3>1
    <3>3. BoxMoves(h)
      BY <2>5, <3>1, <3>2 DEF BoxMoves
    <3> QED BY <2>3, <2>5, <3>1, <3>2, <3>3 DEF Moves
  <2> QED BY <1>0, <1>10, <2>4, <2>5 DEF Commit, Compacted, TypeOK
<1>11. CASE DeleteSuperseded(h)
  <2>1. /\ pc[h] = "cleaning" /\ Knows(h) /\ UNCHANGED <<streamVars, blobs, minted>>
        /\ Return(h) \/ (call[h] = "archive" /\ Drain(h, "sweep", 0))
        /\ Throws(h) \/ stumbled'
        /\ stumbled => stumbled'
    BY <1>0, <1>11 DEF DeleteSuperseded, Compacted, Throws, Knows, streamVars, TypeOK
  <2>2. /\ pc'[h] \in {"idle", "draining"} /\ DrainMoves(h) /\ SweepMoves(h)
        /\ \A g \in Handles \ {h} : call'[g] = call[g] /\ aim'[g] = aim[g]
    BY <1>0, <2>1, ReturnMoves, DrainAgainMoves
  <2>3. StreamMoves(h) /\ BlobMoves(h) /\ (first' = first \/ first' = Len(log) + 1)
    BY <1>0, <2>1, <2>2, QuietMoves
  <2>4. BoxMoves(h)
    BY <2>1, <2>2 DEF BoxMoves
  <2> QED BY <2>1, <2>2, <2>3, <2>4 DEF Moves
<1>12. CASE LoseRace(h)
  <2>1. /\ pc[h] = "publishing" /\ Knows(h) /\ UNCHANGED <<streamVars, storeVars>>
        /\ Return(h) \/ \E try : Drain(h, "compact", try)
        /\ stumbled' = (stumbled \/ object[h] # 0)
    BY <1>12 DEF LoseRace, Knows
  <2>2. UNCHANGED <<log, first, boxes, blobs, minted>>
    BY <2>1 DEF streamVars, storeVars
  <2>3. /\ pc'[h] \in {"idle", "draining"} /\ DrainMoves(h) /\ SweepMoves(h)
        /\ \A g \in Handles \ {h} : call'[g] = call[g] /\ aim'[g] = aim[g]
        /\ Draft(h)' = {} /\ Refuse(h)' = {}
    BY <1>0, <2>1, ReturnMoves, DrainAgainMoves
  <2>4. StreamMoves(h) /\ BlobMoves(h)
    BY <1>0, <2>1, <2>2, <2>3, QuietMoves
  <2>5. BoxMoves(h)
    <3>1. object[h] = 0 => Draft(h) \subseteq {0} /\ Refuse(h) = {}
      BY <2>1 DEF Draft, Refuse
    <3> QED BY <2>1, <2>2, <2>3, <3>1 DEF BoxMoves
  <2> QED BY <2>1, <2>2, <2>3, <2>4, <2>5 DEF Moves
<1>13. CASE ArchiveAgain(h)
  <2>1. /\ pc[h] = "drained" /\ View(h).archived /\ Drain(h, "compact", 1)
        /\ UNCHANGED <<streamVars, storeVars, stumbled>>
    BY <1>13 DEF ArchiveAgain, Ready
  <2>2. Knows(h)
    BY <1>0, <2>1 DEF Knows, SoundReader
  <2>3. UNCHANGED <<log, first, boxes, blobs, minted>>
    BY <2>1 DEF streamVars, storeVars
  <2>4. /\ pc'[h] = "draining" /\ DrainMoves(h) /\ SweepMoves(h)
        /\ \A g \in Handles \ {h} : call'[g] = call[g] /\ aim'[g] = aim[g]
    BY <1>0, <2>1, <2>2, DrainAgainMoves
  <2>5. StreamMoves(h) /\ BlobMoves(h) /\ BoxMoves(h)
    BY <1>0, <1>a, <2>1, <2>3, <2>4, QuietMoves
  <2> QED BY <2>1, <2>3, <2>4, <2>5 DEF Moves
<1>14. CASE PostArchived(h)
  <2>1. /\ pc[h] = "shelving" /\ Publish(Plain("archived", 0)) /\ UNCHANGED <<storeVars, stumbled>>
        /\ Return(h) \/ Drain(h, "compact", 1)
    BY <1>14 DEF PostArchived
  <2>2. pc'[h] \in {"idle", "draining"}
    BY <1>0, <2>1 DEF Return, Drain, TypeOK
  <2>3. /\ StreamMoves(h) /\ BlobMoves(h) /\ first' = first
        /\ boxes' = boxes /\ log'[first] = log[first]
        /\ log' # log /\ log'[Len(log')].kind = "archived"
    BY <1>0, <2>1, <2>2, PostingMoves
  <2>4. Knows(h)
    BY <2>3 DEF Knows
  <2>5. /\ DrainMoves(h) /\ SweepMoves(h)
        /\ \A g \in Handles \ {h} : call'[g] = call[g] /\ aim'[g] = aim[g]
    BY <1>0, <2>1, <2>4, ReturnMoves, DrainAgainMoves
  <2>6. BoxMoves(h)
    BY <1>a, <2>1, <2>2, <2>3
  <2> QED BY <2>1, <2>3, <2>5, <2>6 DEF Moves
<1>15. CASE BeginSweep(h) \/ DeleteBlob(h)
  <2>1. /\ UNCHANGED <<streamVars, boxes, minted, stumbled>>
        /\ pc[h] \in {"drained", "sweeping"}
        /\ UNCHANGED blobs \/ (pc[h] = "sweeping" /\ \E n \in waste[h] : blobs' = blobs \ {n})
    BY <1>15 DEF BeginSweep, DeleteBlob, Ready, storeVars
  <2>2. UNCHANGED <<log, first, tainted>>
    BY <2>1 DEF streamVars
  <2>3. StreamMoves(h)
    BY <1>0, <2>1, <2>2 DEF StreamMoves
  <2>4. CASE Return(h)
    <3>1. /\ pc'[h] = "idle" /\ DrainMoves(h) /\ SweepMoves(h)
          /\ \A g \in Handles \ {h} : call'[g] = call[g] /\ aim'[g] = aim[g]
      BY <1>0, <2>4, ReturnMoves
    <3>2. BlobMoves(h)
      BY <2>1, <2>2, <3>1 DEF BlobMoves
    <3>3. BoxMoves(h)
      BY <1>a, <2>1, <2>2, <3>1
    <3> QED BY <2>1, <2>2, <2>3, <3>1, <3>2, <3>3 DEF Moves
  <2>5. CASE ~Return(h)
    <3>1. /\ pc'[h] = "sweeping" /\ UNCHANGED <<call, aim, reader>>
          /\ \/ pc[h] = "drained" /\ aim[h] = "sweep" /\ waste'[h] = View(h).removed
             \/ pc[h] = "sweeping" /\ waste'[h] \subseteq waste[h]
      BY <1>0, <1>15, <2>5 DEF BeginSweep, DeleteBlob, Ready, TypeOK
    <3>2. BlobMoves(h)
      BY <2>1, <2>2, <3>1 DEF BlobMoves
    <3>3. BoxMoves(h)
      BY <1>a, <2>1, <2>2, <3>1
    <3>4. SweepMoves(h)
      BY <1>0, <3>1 DEF SweepMoves, SoundReader
    <3>5. DrainMoves(h)
      BY <2>2, <3>1 DEF DrainMoves, Draining
    <3> QED BY <2>1, <2>2, <2>3, <3>1, <3>2, <3>3, <3>4, <3>5 DEF Moves
  <2> QED BY <2>4, <2>5
<1>16. CASE GiveUp(h) \/ Crash(h)
  <2>1. /\ Return(h) /\ UNCHANGED <<streamVars, storeVars>>
        /\ stumbled' = (stumbled \/ pc[h] \in {"publishing", "cleaning"})
    BY <1>16 DEF GiveUp, Crash
  <2>2. UNCHANGED <<log, first, boxes, blobs, minted>>
    BY <2>1 DEF streamVars, storeVars
  <2>3. /\ pc'[h] = "idle" /\ DrainMoves(h) /\ SweepMoves(h)
        /\ \A g \in Handles \ {h} : call'[g] = call[g] /\ aim'[g] = aim[g]
    BY <1>0, <2>1, ReturnMoves
  <2>4. StreamMoves(h) /\ BlobMoves(h)
    BY <1>0, <2>1, <2>2, <2>3, QuietMoves
  <2>5. BoxMoves(h)
    <3>1. CASE pc[h] \in {"publishing", "cleaning"}
      BY <2>1, <3>1 DEF BoxMoves
    <3>2. CASE pc[h] \notin {"publishing", "cleaning"}
      BY <1>a, <2>2, <2>3, <3>2
    <3> QED BY <3>1, <3>2
  <2> QED BY <2>1, <2>2, <2>3, <2>4, <2>5 DEF Moves
<1> QED BY <1>1, <1>2, <1>3, <1>4, <1>5, <1>6, <1>7, <1>8, <1>9, <1>10, <1>11, <1>12,
           <1>13, <1>14, <1>15, <1>16

(***************************************************************************)
(* What was posted, and what is made of it: the theorems                   *)
(***************************************************************************)

LEMMA PostsInit == Init => PostsKept
<1> SUFFICES ASSUME Init PROVE PostsKept
  OBVIOUS
<1>1. /\ Len(log) = 1 /\ log[1] = Baseline(EmptyDoc, 0) /\ first = 1
      /\ \A s \in 1 .. Len(log) : s = 1
  BY DEF Init
<1>2. log[1].kind = "baseline" /\ log[1].doc = EmptyDoc /\ log[1].box = 0
  BY <1>1 DEF Baseline
<1>3. LogSound
  <2>1. \A s \in 1 .. Len(log) : log[s].kind = "baseline"
    BY <1>1, <1>2
  <2>2. History(0) = EmptyDoc
    <3> DEFINE none == 1 .. 0
               f == Fold(log, EmptyDoc, none)
    <3>1. none = {}
      OBVIOUS
    <3> HIDE DEF none
    <3>2. /\ f.said = EmptyDoc.said \cup {s \in none : log[s].kind = "note"}
          /\ f.attached = EmptyDoc.attached \cup Objects(log, none, "attach")
          /\ f.removed = EmptyDoc.removed \cup (f.attached \cap Objects(log, none, "remove"))
          /\ f.archived <=> EmptyDoc.archived \/ \E s \in none : log[s].kind = "archived"
          /\ f.archived \in BOOLEAN
          /\ f = [said |-> f.said, attached |-> f.attached,
                  removed |-> f.removed, archived |-> f.archived]
      BY FoldFields
    <3>3. History(0) = f
      BY DEF History, none
    <3> HIDE DEF f
    <3>4. f.said = {} /\ f.attached = {} /\ f.removed = {} /\ f.archived = FALSE
      BY <3>1, <3>2 DEF Objects, EmptyDoc
    <3> QED BY <3>2, <3>3, <3>4 DEF EmptyDoc
  <2>3. \A s \in 1 .. Len(log) : log[s].doc = History(s - 1)
    BY <1>1, <1>2, <2>2
  <2> QED BY <1>1, <2>1, <2>3 DEF LogSound
<1>4. ASSUME NEW h \in Handles
      PROVE  DrainSound(h) /\ UploadSound(h) /\ SweepSound(h) /\ Draft(h) = {} /\ Refuse(h) = {}
  BY DEF Init, DrainSound, UploadSound, SweepSound, Draft, Refuse, NoReader
<1>5. BlobsSound
  BY <1>1, <1>2 DEF BlobsSound
<1>6. BoxesSound
  <2>1. UNION {Draft(h) \cup Refuse(h) : h \in Handles} = {}
    BY <1>4
  <2>2. DOMAIN boxes = {}
    BY DEF Init
  <2> QED BY <1>1, <1>2, <1>4, <2>1, <2>2 DEF BoxesSound
<1> QED BY <1>3, <1>4, <1>5, <1>6 DEF PostsKept

LEMMA StepMoves ==
  ASSUME IInv, PostsKept, Next
  PROVE  \E h \in Handles : Footprint(h) /\ Moves(h)
<1>1. PICK h \in Handles :
         \/ PostNote(h) \/ BeginAttach(h) \/ PostAttachment(h) \/ PostRemoval(h)
         \/ BeginMaterialise(h) \/ BeginArchive(h) \/ BeginRollup(h) \/ BeginFollow(h)
         \/ Read(h) \/ CannotOpen(h) \/ FinishMaterialise(h)
         \/ ReadLive(h) \/ OpenBaseline(h)
         \/ RollupDeclined(h) \/ EncodeInline(h) \/ PutBox(h)
         \/ Commit(h) \/ DeleteSuperseded(h) \/ LoseRace(h)
         \/ ArchiveAgain(h) \/ ArchiveShelves(h) \/ PostArchived(h)
         \/ BeginSweep(h) \/ DeleteBlob(h)
         \/ GiveUp(h) \/ Crash(h)
  BY DEF Next
<1>2. Footprint(h)
  BY <1>1, FootprintStep
<1>3. DrainSound(h) /\ (~tainted => SweepSound(h))
  BY DEF PostsKept
<1>4. Moves(h)
  BY <1>1, <1>3, MovesStep
<1> QED BY <1>2, <1>4

(* Once tainted, tainted for good; and only an untorn drain is baked.      *)
LEMMA TaintStays ==
  ASSUME TypeOK, NEW h \in Handles, StreamMoves(h), ~tainted'
  PROVE  ~tainted /\ (Bakes(h) => ~Torn(reader[h]))
<1>1. Bakes(h) => Len(log') # Len(log) /\ first' # first
  BY DEF Bakes, TypeOK
<1>2. CASE UNCHANGED <<log, first, tainted>>
  BY <1>1, <1>2
<1>3. CASE \E op \in Op : Posting(h, op)
  BY <1>1, <1>3 DEF Posting
<1>4. CASE Baking(h)
  BY <1>4 DEF Baking
<1> QED BY <1>2, <1>3, <1>4 DEF StreamMoves

LEMMA PostsNext == IInv /\ PostsKept /\ IInv' /\ [Next]_vars => PostsKept'
<1> SUFFICES ASSUME IInv, PostsKept, IInv', [Next]_vars PROVE PostsKept'
  OBVIOUS
<1>1. CASE Next
  <2>1. PICK h \in Handles : Footprint(h) /\ Moves(h)
    BY <1>1, StepMoves
  <2>2. Footprint(h)
    BY <2>1
  <2>3. LogSound /\ (\A g \in Handles : DrainSound(g))
    BY DEF PostsKept
  <2>4. Moves(h)
    BY <2>1
  <2>5. TypeOK /\ SoundReader(h) /\ minted' \in Nat /\ first' \in Nat
    <3>1. TypeOK /\ SoundReader(h) /\ TypeOK'
      BY DEF IInv
    <3>2. minted' \in Nat /\ first' \in 1 .. Len(log')
      BY <3>1 DEF TypeOK
    <3> QED BY <3>1, <3>2
  <2>6. first <= first' /\ (log' = log \/ \E op \in Op : log' = Append(log, op))
    BY <2>2, <2>5, LogKept
  <2>7. LogSound'
    BY <2>3, <2>4, <2>5, LogSoundStep DEF Moves
  <2>8. \A g \in Handles : DrainSound(g)'
    BY <2>2, <2>3, <2>4, <2>5, <2>6, OwnDrain, OtherDrains DEF Moves
  <2>9. ~tainted' => ~tainted /\ (Bakes(h) => ~Torn(reader[h]))
    BY <2>4, <2>5, TaintStays DEF Moves
  <2>10. ASSUME ~tainted'
         PROVE  BlobsSound' /\ \A g \in Handles : UploadSound(g)' /\ SweepSound(g)'
    <3>1. BlobsSound /\ \A g \in Handles : UploadSound(g) /\ SweepSound(g)
      BY <2>9, <2>10 DEF PostsKept
    <3>2. log' = log \/ \E op \in Op : log' = Append(log, op)
                          /\ (op.kind = "attach" => pc[h] = "uploaded" /\ op.object = object[h])
      <4>1. CASE UNCHANGED <<log, first, tainted>>
        BY <4>1
      <4>2. CASE \E op \in Op : Posting(h, op)
        BY <4>2 DEF Posting
      <4>3. CASE Baking(h)
        <5>1. PICK op : op = Baseline(View(h), object[h])
          OBVIOUS
        <5>2. op.kind = "baseline" /\ log' = Append(log, op)
          BY <4>3, <5>1 DEF Baking, Bakes, Baseline
        <5>3. op \in Op
          <6>1. reader[h].base > 0
            BY <2>5, <4>3 DEF Baking, Bakes, SoundReader
          <6>2. View(h) \in Docs /\ object[h] \in Nat
            BY <2>5, <6>1, ViewType DEF TypeOK
          <6> QED BY <5>1, <6>2, OpTypes
        <5> QED BY <5>2, <5>3
      <4> QED BY <2>4, <4>1, <4>2, <4>3 DEF Moves, StreamMoves
    <3>3. BlobsSound' /\ \A g \in Handles : UploadSound(g)'
      BY <2>2, <2>3, <2>4, <3>1, <3>2, BlobsStep DEF Moves
    <3>4. \A g \in Handles : SweepSound(g)'
      BY <2>2, <2>3, <2>4, <2>9, <2>10, <3>1, SweepStep DEF Moves
    <3> QED BY <3>3, <3>4
  <2>11. ASSUME ~tainted', ~stumbled'
         PROVE  BoxesSound'
    <3>1. ~tainted /\ ~stumbled /\ (Bakes(h) => ~Torn(reader[h]))
      BY <2>4, <2>9, <2>11 DEF Moves
    <3>2. BoxesSound
      BY <3>1 DEF PostsKept
    <3> QED BY <2>2, <2>3, <2>4, <2>11, <3>1, <3>2, BoxesStep DEF Moves
  <2> QED BY <2>7, <2>8, <2>10, <2>11 DEF PostsKept
<1>2. CASE UNCHANGED vars
  <2>1. UNCHANGED <<log, first, tainted, boxes, blobs, minted, pc, call, aim, reader, object,
                    waste, stumbled>>
    BY <1>2 DEF vars, streamVars, storeVars, callVars
  <2>2. (\A n : History(n)' = History(n)) /\ (\A kind, n : Posted(kind, n)' <=> Posted(kind, n))
        /\ (Shelved' <=> Shelved)
    BY <2>1 DEF History, Posted, Shelved
  <2>3. LogSound'
    BY <2>1, <2>2 DEF PostsKept, LogSound
  <2>4. \A h \in Handles : DrainSound(h)'
    BY <2>1 DEF PostsKept, DrainSound
  <2>5. ~tainted' => BlobsSound' /\ \A h \in Handles : UploadSound(h)' /\ SweepSound(h)'
    BY <2>1 DEF PostsKept, BlobsSound, UploadSound, SweepSound, Posted, Shelved
  <2>6. ~tainted' /\ ~stumbled' => BoxesSound'
    BY <2>1 DEF PostsKept, BoxesSound, Draft, Refuse
  <2> QED BY <2>3, <2>4, <2>5, <2>6 DEF PostsKept
<1> QED BY <1>1, <1>2

(* The stronger invariant holds of every behaviour, for any handles,       *)
(* scenarios, bounds and faults: rollup, Attach, RemoveAttachment and      *)
(* Archive account for everything that was posted and put.                 *)
THEOREM PostsAreKept == Spec => [](IInv /\ PostsKept)
<1>1. Init => IInv /\ PostsKept
  BY InitInvariant, PostsInit
<1>2. (IInv /\ PostsKept) /\ [Next]_vars => (IInv /\ PostsKept)'
  BY NextInvariant, PostsNext
<1> QED BY <1>1, <1>2, PTL DEF Spec

(* Every attachment of the topic can be fetched, unless it is withdrawn    *)
(* and the topic archived: sweepRemovedBlobs deletes nothing else, and a   *)
(* compaction forgets no attachment and no withdrawal.                     *)
THEOREM BytesAreKept == Spec => []BytesKept
<1>1. IInv /\ PostsKept => BytesKept
  <2> SUFFICES ASSUME IInv, PostsKept, ~tainted, NEW n \in Cold.attached
               PROVE  n \in blobs \/ (n \in Cold.removed /\ Cold.archived)
    BY DEF BytesKept
  <2>1. TypeOK /\ LogSound /\ BlobsSound
    BY DEF IInv, PostsKept
  <2> DEFINE all == 1 .. Len(log)
             d == Fold(log, EmptyDoc, all)
  <2>2. Cold = d
    BY <2>1, ColdIsHistory DEF History
  <2>3. /\ d.attached = EmptyDoc.attached \cup Objects(log, all, "attach")
        /\ d.removed = EmptyDoc.removed \cup (d.attached \cap Objects(log, all, "remove"))
        /\ d.archived <=> EmptyDoc.archived \/ \E s \in all : log[s].kind = "archived"
    BY FoldFields
  <2> HIDE DEF d
  <2>4. n \in Objects(log, all, "attach")
    BY <2>2, <2>3 DEF EmptyDoc
  <2>5. n \in blobs \/ (Posted("remove", n) /\ Shelved)
    BY <2>1, <2>4 DEF Objects, BlobsSound
  <2>6. Posted("remove", n) => n \in Objects(log, all, "remove")
    BY DEF Posted, Objects
  <2>7. Shelved => \E s \in all : log[s].kind = "archived"
    BY DEF Shelved
  <2> QED BY <2>2, <2>3, <2>5, <2>6, <2>7
<1> QED BY <1>1, PostsAreKept, PTL

(* A step adds to what cold readers see at most what it posts, and takes   *)
(* nothing away: a baseline - inline or in a box - preserves the view, and *)
(* what it purges was in it.                                               *)
THEOREM ColdReadersLoseNothing == Spec => ColdOnlyGrows
<1> DEFINE Seen == ~tainted => Cold = History(Len(log))
<1>1. IInv /\ PostsKept => Seen
  BY ColdIsHistory DEF IInv, PostsKept
<1>2. IInv /\ PostsKept /\ IInv' /\ Seen /\ Seen' /\ [Next]_vars =>
        [log' # log /\ ~tainted' =>
           LET posted == Fold(log, EmptyDoc, {Len(log)})' IN
           /\ Cold'.said = Cold.said \cup posted.said
           /\ Cold'.attached = Cold.attached \cup posted.attached
           /\ Cold.removed \subseteq Cold'.removed
           /\ Cold'.archived = (Cold.archived \/ posted.archived)]_log
  <2> SUFFICES ASSUME IInv, PostsKept, IInv', Seen, Seen', [Next]_vars, log' # log, ~tainted'
               PROVE  LET posted == Fold(log, EmptyDoc, {Len(log)})' IN
                      /\ Cold'.said = Cold.said \cup posted.said
                      /\ Cold'.attached = Cold.attached \cup posted.attached
                      /\ Cold.removed \subseteq Cold'.removed
                      /\ Cold'.archived = (Cold.archived \/ posted.archived)
    OBVIOUS
  <2> DEFINE all == 1 .. Len(log)
             new == {Len(log')}
             more == 1 .. Len(log')
             c == Fold(log, EmptyDoc, all)
             p == Fold(log', EmptyDoc, new)
             d == Fold(log', EmptyDoc, more)
  <2>1. TypeOK /\ TypeOK'
    BY DEF IInv
  <2>2. ~tainted /\ \E op \in Op : log' = Append(log, op)
    <3>1. Next
      BY DEF vars, streamVars
    <3>2. PICK h \in Handles : Footprint(h) /\ Moves(h)
      BY <3>1, StepMoves
    <3>3. SoundReader(h)
      BY DEF IInv
    <3> QED BY <2>1, <3>2, <3>3, TaintStays, LogKept DEF Moves
  <2>3. c = Cold /\ Cold' = d
    BY <2>2 DEF History
  <2>4. more = all \cup new /\ \A s \in all : log'[s] = log[s]
    BY <2>1, <2>2 DEF TypeOK
  <2>5. c = Fold(log', EmptyDoc, all)
    <3>1. log \in Seq(Op) /\ all \in SUBSET (1 .. Len(log))
      BY <2>1 DEF TypeOK
    <3>2. PICK op \in Op : log' = Append(log, op)
      BY <2>2
    <3> HIDE DEF all
    <3>3. Fold(Append(log, op), EmptyDoc, all) = Fold(log, EmptyDoc, all)
      BY <3>1, FoldStable
    <3> QED BY <3>2, <3>3
  <2> HIDE DEF all, new, more
  <2>6. /\ c.said = EmptyDoc.said \cup {s \in all : log'[s].kind = "note"}
        /\ c.attached = EmptyDoc.attached \cup Objects(log', all, "attach")
        /\ c.removed = EmptyDoc.removed \cup (c.attached \cap Objects(log', all, "remove"))
        /\ c.archived <=> EmptyDoc.archived \/ \E s \in all : log'[s].kind = "archived"
        /\ c.archived \in BOOLEAN
    BY <2>5, FoldFields
  <2>7. /\ p.said = EmptyDoc.said \cup {s \in new : log'[s].kind = "note"}
        /\ p.attached = EmptyDoc.attached \cup Objects(log', new, "attach")
        /\ p.archived <=> EmptyDoc.archived \/ \E s \in new : log'[s].kind = "archived"
        /\ p.archived \in BOOLEAN
    BY FoldFields
  <2>8. /\ d.said = EmptyDoc.said \cup {s \in more : log'[s].kind = "note"}
        /\ d.attached = EmptyDoc.attached \cup Objects(log', more, "attach")
        /\ d.removed = EmptyDoc.removed \cup (d.attached \cap Objects(log', more, "remove"))
        /\ d.archived <=> EmptyDoc.archived \/ \E s \in more : log'[s].kind = "archived"
        /\ d.archived \in BOOLEAN
    BY FoldFields
  <2>9. \A kind : Objects(log', more, kind) = Objects(log', all, kind) \cup Objects(log', new, kind)
    BY <2>4, ObjectsSplit
  <2> HIDE DEF c, d
  <2>10. EmptyDoc.said = {} /\ EmptyDoc.attached = {} /\ EmptyDoc.removed = {}
         /\ EmptyDoc.archived = FALSE
    BY DEF EmptyDoc
  <2>11. /\ d.said = c.said \cup p.said /\ d.attached = c.attached \cup p.attached
         /\ c.removed \subseteq d.removed
    <3>1. d.said = c.said \cup p.said
      BY <2>4, <2>6, <2>7, <2>8, <2>10
    <3>2. d.attached = c.attached \cup p.attached
      BY <2>6, <2>7, <2>8, <2>9, <2>10
    <3> HIDE DEF p
    <3>3. c.removed \subseteq d.removed
      BY <2>6, <2>8, <2>9, <2>10, <3>2
    <3> QED BY <3>1, <3>2, <3>3
  <2>12. d.archived = (c.archived \/ p.archived)
    <3>1. d.archived <=> (c.archived \/ p.archived)
      BY <2>4, <2>6, <2>7, <2>8, <2>10
    <3> HIDE DEF p
    <3> QED BY <2>6, <2>7, <2>8, <3>1
  <2> QED BY <2>3, <2>11, <2>12 DEF p, new
<1> HIDE DEF Seen
<1> QED BY <1>1, <1>2, PostsAreKept, PTL DEF Spec, ColdOnlyGrows

(* Between calls the only box in the store is that of the baseline, unless *)
(* a rollup stumbled or was torn: rollup deletes what it supersedes.       *)
THEOREM NoLitterIsLeft == Spec => []NoLitter
<1>1. PostsKept => NoLitter
  <2> SUFFICES ASSUME PostsKept, ~tainted, ~stumbled, \A h \in Handles : pc[h] = "idle"
               PROVE  DOMAIN boxes = {log[first].box} \ {0}
    BY DEF NoLitter
  <2>1. \A h \in Handles : Draft(h) = {} /\ Refuse(h) = {}
    BY DEF Draft, Refuse
  <2>2. UNION {Draft(h) \cup Refuse(h) : h \in Handles} = {}
    BY <2>1
  <2> QED BY <2>2 DEF PostsKept, BoxesSound
<1> QED BY <1>1, PostsAreKept, PTL
=============================================================================
