--------------------------- MODULE TopicLog_proofs ---------------------------
(***************************************************************************)
(* Proofs about TopicLog, for any set of handles, any log length and any   *)
(* mix of requests and faults: type correctness, and the inductive         *)
(* invariant IInv with what follows from it.                               *)
(***************************************************************************)
EXTENDS TopicLog, TLAPS

(* The values the replay operators return.                                 *)
LEMMA BirthType == Birth \in Op
BY DEF Birth, Baseline, Op, Kinds, Lifecycles

(* What personas and others publish are operations.                        *)
LEMMA PostedTypes ==
  ASSUME NEW parents \in SUBSET Nat, NEW to \in Lifecycles
  PROVE  /\ Content(parents) \in Op
         /\ Transition(to, parents) \in Op
         /\ Unreadable \in Op
<1>1. Content(parents) \in Op /\ Transition(to, parents) \in Op
  BY DEF Content, Transition, Op, Kinds, Lifecycles
<1>2. Unreadable \in Op
  BY DEF Unreadable, Content, Op, Kinds, Lifecycles
<1> QED BY <1>1, <1>2

(* A replay starts as a replay.                                            *)
LEMMA SeedType ==
  ASSUME NEW id \in Nat, NEW op \in Op
  PROVE  Seed(id, op) \in Replay
BY DEF Seed, Replay, Op

(* Transitions lead to lifecycles.                                         *)
LEMMA LifeAfterType ==
  ASSUME NEW life \in Lifecycles, NEW to \in Lifecycles
  PROVE  LifeAfter(life, to) \in Lifecycles
BY DEF LifeAfter, Lifecycles

(* Applying an operation to a replay gives a replay.                       *)
LEMMA ApplyType ==
  ASSUME NEW r \in Replay, NEW id \in Nat, NEW op \in Op
  PROVE  Apply(r, id, op) \in Replay
<1>1. LifeAfter(r.life, op.to) \in Lifecycles
  BY LifeAfterType DEF Replay, Op
<1>2. CASE op.kind = "content"
  BY <1>2 DEF Apply, Replay, Op, Lifecycles
<1>3. CASE op.kind = "transition"
  BY <1>1, <1>3 DEF Apply, Replay, Op
<1>4. CASE op.kind = "baseline"
  BY <1>4 DEF Apply, Replay, Op
<1>5. CASE op.kind = "unreadable"
  BY <1>5 DEF Apply
<1> QED BY <1>2, <1>3, <1>4, <1>5 DEF Op, Kinds

(* The view of a replay is a view.                                         *)
LEMMA ViewType ==
  ASSUME NEW r \in Replay
  PROVE  View(r) \in Views
BY DEF View, Views, Life, Replay, Lifecycles

(* The baseline made from a view is an operation.                          *)
LEMMA CheckpointType ==
  ASSUME NEW v \in Views
  PROVE  Checkpoint(v) \in Op
BY DEF Checkpoint, Baseline, Views, Op, Kinds, Lifecycles

-----------------------------------------------------------------------------
(* Seeding a replay with the checkpoint of a view that has leaves gives    *)
(* that view back.                                                         *)
LEMMA SeedOfCheckpoint ==
  ASSUME NEW id \in Nat, NEW v \in Views, v.frontier # {}
  PROVE  View(Seed(id, Checkpoint(v))) = v
<1> DEFINE r == Seed(id, Checkpoint(v))
<1>1. r.content = v.content /\ Life(r) = v.life
  BY DEF Seed, Checkpoint, Baseline, Life
<1>2. r.seen = {id} \cup v.content \cup v.frontier
  BY DEF Seed, Checkpoint, Baseline
<1>3. r.referenced = (v.frontier \cup v.content \cup {id}) \ v.frontier
  BY DEF Seed, Checkpoint, Baseline
<1>4. r.seen \ r.referenced = v.frontier
  BY <1>2, <1>3
<1> QED BY <1>1, <1>4 DEF View, Views

(* One more operation moves the view as it moves the replay: what an       *)
(* operation does to a view depends on the view only, if its op-id is new  *)
(* and, for a baseline, if it recorded the leaves of that view.            *)
LEMMA ViewOfApply ==
  ASSUME NEW n \in Nat, NEW r \in Replay, NEW op \in Op,
         r.seen \subseteq 1 .. n, r.referenced \subseteq 1 .. n,
         op.parents \subseteq 1 .. n,
         op.kind = "baseline" => /\ op.leaves = View(r).frontier
                                 /\ op.parents = op.leaves
  PROVE  View(Apply(r, n + 1, op)) = ViewAfter(View(r), n + 1, op)
<1> DEFINE q == Apply(r, n + 1, op)
<1>0. n + 1 \notin r.seen \cup r.referenced \cup op.parents
  OBVIOUS
<1>1. CASE op.kind = "content"
  <2>1. q.seen = r.seen \cup {n + 1} /\ q.referenced = r.referenced \cup op.parents
    BY <1>1 DEF Apply
  <2>2. q.seen \ q.referenced = ((r.seen \ r.referenced) \ op.parents) \cup {n + 1}
    BY <1>0, <2>1
  <2>3. q.content = r.content \cup {n + 1}
        /\ Life(q) = IF Life(r) \in {"proposed", "dormant"} THEN "active" ELSE Life(r)
    BY <1>1 DEF Apply, Life, Replay, Lifecycles
  <2> QED BY <1>1, <2>2, <2>3 DEF View, ViewAfter
<1>2. CASE op.kind = "transition"
  <2>1. q.seen = r.seen \cup {n + 1} /\ q.referenced = r.referenced \cup op.parents
    BY <1>2 DEF Apply
  <2>2. q.seen \ q.referenced = ((r.seen \ r.referenced) \ op.parents) \cup {n + 1}
    BY <1>0, <2>1
  <2>3. q.content = r.content /\ Life(q) = LifeAfter(Life(r), op.to)
    BY <1>2 DEF Apply, Life, LifeAfter, Replay, Op, Lifecycles
  <2> QED BY <1>2, <2>2, <2>3 DEF View, ViewAfter
<1>3. CASE op.kind = "baseline"
  <2> DEFINE F == r.seen \ r.referenced
  <2>1. op.leaves = F /\ op.parents = F
    BY <1>3 DEF View
  <2>2. q.seen = r.seen \cup {n + 1} \cup F
        /\ q.referenced = (r.referenced \cup F \cup {n + 1}) \ F
    BY <1>3, <2>1 DEF Apply
  <2>3. q.seen \ q.referenced = F
    BY <1>0, <2>2
  <2>4. q.content = r.content /\ Life(q) = Life(r)
    BY <1>3 DEF Apply, Life
  <2> QED BY <1>3, <2>3, <2>4 DEF View, ViewAfter
<1>4. CASE op.kind = "unreadable"
  BY <1>4 DEF Apply, ViewAfter
<1> QED BY <1>1, <1>2, <1>3, <1>4 DEF Op, Kinds

-----------------------------------------------------------------------------
(* Type correctness.                                                       *)
LEMMA ReaderTypes ==
  /\ NoReader \in Readers
  /\ \A n \in Nat : NewReader(n) \in Readers
<1>1. Blank \in Replay
  BY DEF Blank, Replay, Lifecycles
<1>2. NoReader \in Readers
  BY <1>1 DEF NoReader, Readers
<1> QED BY <1>2 DEF NewReader, Readers

(* A reader that is handed the next message is a reader.                   *)
LEMMA DeliverType ==
  ASSUME TypeOK, NEW r \in Readers, r.pos < Len(log)
  PROVE  /\ NextSeq(r) \in 1 .. Len(log)
         /\ NextSeq(r) >= first /\ NextSeq(r) > r.pos
         /\ Deliver(r) \in Readers
         /\ Deliver(r).pos = NextSeq(r)
         /\ ~Deliver(r).torn => /\ ~r.torn
                                /\ r.records > 0 => NextSeq(r) = r.pos + 1
<1> DEFINE s == NextSeq(r)
           torn == r.torn \/ (r.records > 0 /\ s # r.pos + 1)
<1>1. s \in Nat /\ s \in 1 .. Len(log) /\ s >= first /\ s > r.pos
  BY DEF TypeOK, NextSeq, Readers
<1>2. log[s] \in Op
  BY <1>1 DEF TypeOK
<1>3. Seed(s, log[s]) \in Replay /\ Apply(r.replay, s, log[s]) \in Replay
  BY <1>1, <1>2, SeedType, ApplyType DEF Readers
<1>0. ~torn => ~r.torn /\ (r.records > 0 => s = r.pos + 1)
  OBVIOUS
<1> SUFFICES Deliver(r) \in Readers /\ Deliver(r).pos = s /\ Deliver(r).torn = torn
  <2> HIDE DEF torn
  <2> QED BY <1>1, <1>0
<1>4. torn \in BOOLEAN
  OBVIOUS
<1>5. CASE log[s].kind = "unreadable"
  <2>1. Deliver(r) = [r EXCEPT !.pos = s, !.torn = torn]
    BY <1>5 DEF Deliver
  <2> HIDE DEF s, torn
  <2> QED BY <1>1, <1>4, <2>1 DEF Readers
<1>6. CASE log[s].kind # "unreadable"
  <2> DEFINE next == IF r.records = 0 THEN Seed(s, log[s]) ELSE Apply(r.replay, s, log[s])
             parsed == r.records + 1
  <2>1. Deliver(r) = [r EXCEPT !.pos = s, !.tail = s, !.records = parsed,
                               !.replay = next, !.torn = torn]
    BY <1>6 DEF Deliver
  <2>2. next \in Replay
    BY <1>3
  <2>3. parsed \in Nat
    BY DEF Readers
  <2> HIDE DEF s, torn, next, parsed
  <2> QED BY <1>1, <1>4, <2>1, <2>2, <2>3 DEF Readers
<1> QED BY <1>5, <1>6

(* The two ways the log grows keep its type.                               *)
LEMMA AcceptType ==
  ASSUME TypeOK, NEW op \in Op, Accept(op)
  PROVE  /\ log' \in Seq(Op) /\ Len(log') = Len(log) + 1
         /\ first' \in 1 .. Len(log')
         /\ truth' \in Replay /\ cold' \in Replay
         /\ viewAt' \in Seq(Views) /\ tainted' \in BOOLEAN
<1>1. log' \in Seq(Op) /\ Len(log') = Len(log) + 1
  BY DEF TypeOK, Accept
<1>2. Apply(truth, Len(log) + 1, op) \in Replay /\ Apply(cold, Len(log) + 1, op) \in Replay
  BY ApplyType DEF TypeOK
<1>3. View(Apply(cold, Len(log) + 1, op)) \in Views
  BY <1>2, ViewType
<1> QED BY <1>1, <1>2, <1>3 DEF TypeOK, Accept

(* A rollup's publish keeps the type of what the server holds.             *)
LEMMA ReplaceType ==
  ASSUME TypeOK, NEW h \in Handles, Replace(h)
  PROVE  /\ log' \in Seq(Op) /\ Len(log') = Len(log) + 1
         /\ first' \in 1 .. Len(log')
         /\ truth' \in Replay /\ cold' \in Replay
         /\ viewAt' \in Seq(Views) /\ tainted' \in BOOLEAN
<1> DEFINE op == Checkpoint(View(reader[h].replay))
<1>1. reader[h] \in Readers
  BY DEF TypeOK
<1>2. op \in Op
  BY <1>1, ViewType, CheckpointType DEF Readers
<1>3. log' \in Seq(Op) /\ Len(log') = Len(log) + 1
  BY <1>2 DEF TypeOK, Replace
<1>4. Seed(Len(log) + 1, op) \in Replay
  BY <1>2, SeedType DEF TypeOK
<1>5. View(Seed(Len(log) + 1, op)) \in Views
  BY <1>4, ViewType
<1>6. reader[h].torn \in BOOLEAN
  BY <1>1 DEF Readers
<1>7. tainted' \in BOOLEAN
  BY <1>6 DEF TypeOK, Replace
<1> QED BY <1>3, <1>4, <1>5, <1>7 DEF TypeOK, Replace

(* A handle adopts a frontier and a lifecycle.                             *)
LEMMA AdoptType ==
  ASSUME TypeOK, NEW h \in Handles, NEW r \in Replay, Adopt(h, View(r))
  PROVE  /\ frontier' \in [Handles -> SUBSET Nat]
         /\ lifecycle' \in [Handles -> Lifecycles \cup {"unobserved"}]
BY ViewType DEF TypeOK, Adopt, Views

(* A call that ends leaves a handle of the right type.                     *)
LEMMA ReturnType ==
  ASSUME TypeOK, NEW h \in Handles, Return(h)
  PROVE  /\ pc' \in [Handles -> Stages]
         /\ call' \in [Handles -> Calls]
         /\ attempt' \in [Handles -> 0 .. Retries]
         /\ reader' \in [Handles -> Readers]
BY ReaderTypes, ConstantsAssumption DEF TypeOK, Return, Stages, Calls

(* So does a call that begins.                                             *)
LEMMA BeginType ==
  ASSUME TypeOK, NEW h \in Handles, NEW what \in Calls, NEW stage \in Stages,
         NEW n \in Nat, Begin(h, what, stage, n)
  PROVE  /\ pc' \in [Handles -> Stages]
         /\ call' \in [Handles -> Calls]
         /\ attempt' \in [Handles -> 0 .. Retries]
         /\ reader' \in [Handles -> Readers]
BY ReaderTypes DEF TypeOK, Begin

(* So does a drain that begins, or begins again.                           *)
LEMMA DrainType ==
  ASSUME TypeOK, NEW h \in Handles, Drain(h)
  PROVE  /\ pc' \in [Handles -> Stages]
         /\ reader' \in [Handles -> Readers]
BY ReaderTypes DEF TypeOK, Drain, Stages, Readers

(* TypeOK in three parts: what the stream, the handles and the calls hold. *)
LogTypes ==
  /\ log' \in Seq(Op) /\ first' \in 1 .. Len(log')
  /\ truth' \in Replay /\ cold' \in Replay
  /\ viewAt' \in Seq(Views) /\ tainted' \in BOOLEAN

HandleTypes ==
  /\ frontier' \in [Handles -> SUBSET Nat]
  /\ lifecycle' \in [Handles -> Lifecycles \cup {"unobserved"}]

CallTypes ==
  /\ pc' \in [Handles -> Stages]
  /\ call' \in [Handles -> Calls]
  /\ attempt' \in [Handles -> 0 .. Retries]
  /\ reader' \in [Handles -> Readers]

(* The three parts make up the type invariant.                             *)
LEMMA TypeParts ==
  /\ LogTypes /\ HandleTypes /\ CallTypes => TypeOK'
  /\ TypeOK /\ UNCHANGED serverVars => LogTypes
  /\ TypeOK /\ UNCHANGED handleVars => HandleTypes
  /\ TypeOK /\ UNCHANGED callVars => CallTypes
BY DEF TypeOK, LogTypes, HandleTypes, CallTypes, serverVars, handleVars, callVars

(* Acknowledged or not, a frontier stays one.                              *)
LEMMA AckTypes ==
  ASSUME TypeOK, NEW h \in Handles, Acked(h) \/ Unacked(h)
  PROVE  frontier' \in [Handles -> SUBSET Nat]
BY DEF TypeOK, Acked, Unacked

(* The type invariant holds at the start.                                  *)
LEMMA InitType == Init => TypeOK
<1> SUFFICES ASSUME Init PROVE TypeOK
  OBVIOUS
<1>1. Seed(1, Birth) \in Replay /\ View(Seed(1, Birth)) \in Views
  BY BirthType, SeedType, ViewType
<1>2. log \in Seq(Op) /\ first \in 1 .. Len(log)
  BY BirthType DEF Init
<1>3. truth \in Replay /\ cold \in Replay /\ viewAt \in Seq(Views)
  BY <1>1 DEF Init
<1>4. frontier \in [Handles -> SUBSET Nat]
  BY DEF Init
<1>5. pc \in [Handles -> Stages] /\ call \in [Handles -> Calls]
  BY DEF Init, Stages, Calls
<1>6. attempt \in [Handles -> 0 .. Retries]
  BY ConstantsAssumption DEF Init
<1>7. reader \in [Handles -> Readers]
  BY ReaderTypes DEF Init
<1>8. lifecycle \in [Handles -> Lifecycles \cup {"unobserved"}] /\ tainted \in BOOLEAN
  BY DEF Init
<1> QED BY <1>2, <1>3, <1>4, <1>5, <1>6, <1>7, <1>8 DEF TypeOK

(* Every step keeps the type invariant.                                    *)
LEMMA NextType == TypeOK /\ [Next]_vars => TypeOK'
<1> SUFFICES ASSUME TypeOK, [Next]_vars PROVE LogTypes /\ HandleTypes /\ CallTypes
  BY TypeParts
<1>1. CASE UNCHANGED vars
  BY <1>1, TypeParts DEF vars
<1>2. CASE PublishGarbage
  BY <1>2, PostedTypes, AcceptType, TypeParts DEF PublishGarbage, LogTypes, HandleTypes, Lifecycles
<1>3. ASSUME NEW h \in Handles, PostContent(h)
      PROVE  LogTypes /\ HandleTypes /\ CallTypes
  <2>1. Content(frontier[h]) \in Op
    BY PostedTypes DEF TypeOK, Lifecycles
  <2>2. LogTypes
    BY <1>3, <2>1, AcceptType DEF PostContent, LogTypes
  <2> QED BY <1>3, <2>2, AckTypes, TypeParts DEF PostContent, TypeOK, HandleTypes
<1>4. ASSUME NEW h \in Handles, NEW to \in Targets, PostTransition(h, to)
      PROVE  LogTypes /\ HandleTypes /\ CallTypes
  <2>1. Transition(to, frontier[h]) \in Op
    BY PostedTypes, ConstantsAssumption DEF TypeOK
  <2>2. LogTypes
    BY <1>4, <2>1, AcceptType DEF PostTransition, LogTypes
  <2> QED BY <1>4, <2>2, AckTypes, TypeParts DEF PostTransition, TypeOK, HandleTypes
<1>5. ASSUME NEW h \in Handles,
             BeginMaterialise(h) \/ BeginRollup(h) \/ BeginArchive(h) \/ BeginFollow(h)
      PROVE  LogTypes /\ HandleTypes /\ CallTypes
  <2>1. LogTypes /\ HandleTypes
    BY <1>5, TypeParts DEF BeginMaterialise, BeginRollup, BeginArchive, BeginFollow
  <2>2. Len(log) \in Nat /\ first \in Nat
    BY DEF TypeOK
  <2>3. \E what \in Calls, stage \in Stages, n \in Nat : Begin(h, what, stage, n)
    BY <1>5, <2>2 DEF BeginMaterialise, BeginRollup, BeginArchive, BeginFollow, Calls, Stages
  <2> QED BY <2>1, <2>3, BeginType DEF CallTypes
<1>6. ASSUME NEW h \in Handles, BeginClose(h)
      PROVE  LogTypes /\ HandleTypes /\ CallTypes
  <2>1. Transition("closed", frontier[h]) \in Op
    BY PostedTypes DEF TypeOK, Lifecycles
  <2>2. LogTypes /\ HandleTypes
    BY <1>6, <2>1, AcceptType, AckTypes DEF BeginClose, LogTypes, HandleTypes, TypeOK, Lifecycles
  <2>3. NewReader(Len(log) + 1) \in Readers
    BY ReaderTypes DEF TypeOK
  <2> QED BY <1>6, <2>2, <2>3 DEF BeginClose, CallTypes, TypeOK, Stages, Calls
<1>7. ASSUME NEW h \in Handles, Read(h) \/ ReadLive(h)
      PROVE  LogTypes /\ HandleTypes /\ CallTypes
  <2>1. reader[h] \in Readers /\ reader[h].pos < Len(log)
    BY <1>7 DEF Read, ReadLive, TypeOK
  <2>2. Deliver(reader[h]) \in Readers
    BY <2>1, DeliverType
  <2>3. CallTypes
    BY <1>7, <2>2 DEF Read, ReadLive, CallTypes, TypeOK, Stages
  <2>4. CASE Read(h)
    BY <2>3, <2>4, TypeParts DEF Read
  <2>5. CASE ReadLive(h)
    <3>1. Deliver(reader[h]).replay \in Replay
      BY <2>2 DEF Readers
    <3> QED BY <2>3, <2>5, <3>1, AdoptType, TypeParts DEF ReadLive, HandleTypes
  <2> QED BY <1>7, <2>4, <2>5
<1>8. ASSUME NEW h \in Handles, FinishMaterialise(h) \/ ArchiveAgain(h) \/ ArchiveAdopts(h)
      PROVE  LogTypes /\ HandleTypes /\ CallTypes
  <2>1. reader[h].replay \in Replay
    BY DEF TypeOK, Readers
  <2>2. LogTypes /\ HandleTypes
    BY <1>8, <2>1, AdoptType, TypeParts
    DEF FinishMaterialise, ArchiveAgain, ArchiveAdopts, HandleTypes
  <2>3. CASE FinishMaterialise(h)
    BY <2>2, <2>3, ReturnType DEF FinishMaterialise, CallTypes
  <2>4. CASE ArchiveAgain(h)
    BY <2>2, <2>4, DrainType, ConstantsAssumption DEF ArchiveAgain, CallTypes, TypeOK
  <2>5. CASE ArchiveAdopts(h)
    BY <2>2, <2>5 DEF ArchiveAdopts, CallTypes, TypeOK, Stages
  <2> QED BY <1>8, <2>3, <2>4, <2>5
<1>9. ASSUME NEW h \in Handles, ArchiveTransition(h)
      PROVE  LogTypes /\ HandleTypes /\ CallTypes
  <2>1. Transition("archived", frontier[h]) \in Op
    BY PostedTypes DEF TypeOK, Lifecycles
  <2>2. LogTypes
    BY <1>9, <2>1, AcceptType DEF ArchiveTransition, LogTypes
  <2>3. HandleTypes
    BY <1>9, AckTypes DEF ArchiveTransition, HandleTypes, TypeOK, Lifecycles
  <2>4. CASE /\ attempt' = [attempt EXCEPT ![h] = 1]
             /\ Drain(h) /\ call' = call
    <3>1. 1 \in 0 .. Retries
      BY ConstantsAssumption
    <3> QED BY <2>2, <2>3, <2>4, <3>1, DrainType DEF CallTypes, TypeOK
  <2>5. CASE Return(h)
    BY <2>2, <2>3, <2>5, ReturnType DEF CallTypes
  <2> QED BY <1>9, <2>4, <2>5 DEF ArchiveTransition
<1>10. ASSUME NEW h \in Handles,
              RollupDeclined(h) \/ PublishFails(h) \/ Interrupt(h)
       PROVE  LogTypes /\ HandleTypes /\ CallTypes
  BY <1>10, ReturnType, TypeParts DEF RollupDeclined, PublishFails, Interrupt, CallTypes
<1>11. ASSUME NEW h \in Handles, RollupCommits(h)
       PROVE  LogTypes /\ HandleTypes /\ CallTypes
  <2>1. reader[h].replay \in Replay
    BY DEF TypeOK, Readers
  <2>2. HandleTypes
    BY <1>11, <2>1, AdoptType, TypeParts DEF RollupCommits, HandleTypes
  <2> QED BY <1>11, <2>2, ReplaceType, ReturnType DEF RollupCommits, LogTypes, CallTypes
<1>12. ASSUME NEW h \in Handles, RollupLost(h)
       PROVE  LogTypes /\ HandleTypes /\ CallTypes
  <2>0. LogTypes /\ HandleTypes
    BY <1>12, TypeParts DEF RollupLost
  <2>1. CASE call[h] = "archive" /\ attempt[h] < Retries
    <3>1. attempt' = [attempt EXCEPT ![h] = attempt[h] + 1] /\ Drain(h) /\ call' = call
      BY <1>12, <2>1 DEF RollupLost
    <3>2. attempt[h] + 1 \in 0 .. Retries
      BY <2>1, ConstantsAssumption DEF TypeOK
    <3> QED BY <2>0, <3>1, <3>2, DrainType DEF CallTypes, TypeOK
  <2>2. CASE ~(call[h] = "archive" /\ attempt[h] < Retries)
    BY <1>12, <2>0, <2>2, ReturnType DEF RollupLost, CallTypes
  <2> QED BY <2>1, <2>2
<1>13. ASSUME NEW h \in Handles, Crash(h)
       PROVE  LogTypes /\ HandleTypes /\ CallTypes
  BY <1>13, ReturnType, TypeParts DEF Crash, CallTypes, HandleTypes, TypeOK
<1> QED
  BY <1>1, <1>2, <1>3, <1>4, <1>5, <1>6, <1>7, <1>8, <1>9, <1>10, <1>11, <1>12, <1>13
  DEF Next, Step

(* Every variable keeps its type, whatever handles, requests and faults    *)
(* there are and however long the log grows.                               *)
THEOREM TypeCorrect == Spec => []TypeOK
BY InitType, NextType, PTL DEF Spec

-----------------------------------------------------------------------------
(* Soundness of replays.                                                   *)

(* What is sound stays so when the log grows.                              *)
LEMMA SoundGrows ==
  ASSUME NEW ops \in Seq(Op), NEW op \in Op, NEW n \in 0 .. Len(ops)
  PROVE  /\ Plain(Append(ops, op), n) = Plain(ops, n)
         /\ \A v : SoundView(ops, v, n) => SoundView(Append(ops, op), v, n)
         /\ \A r : SoundReplay(ops, r, n) => SoundReplay(Append(ops, op), r, n)
<1>1. \A p \in 1 .. n : Append(ops, op)[p] = ops[p]
  OBVIOUS
<1>2. Plain(Append(ops, op), n) = Plain(ops, n)
  BY <1>1 DEF Plain
<1> QED BY <1>2 DEF SoundView, SoundReplay

(* What is sound of the operations up to m is sound of more of them.       *)
LEMMA SoundExtends ==
  ASSUME NEW ops, NEW m \in Nat, NEW n \in Nat, m <= n
  PROVE  /\ Plain(ops, m) \subseteq Plain(ops, n)
         /\ \A v : SoundView(ops, v, m) => SoundView(ops, v, n)
         /\ \A r : SoundReplay(ops, r, m) => SoundReplay(ops, r, n)
<1>1. 1 .. m \subseteq 1 .. n
  OBVIOUS
<1>2. Plain(ops, m) \subseteq Plain(ops, n)
  BY <1>1 DEF Plain
<1> QED BY <1>1, <1>2 DEF SoundView, SoundReplay

(* A replay that starts on a baseline is sound.                            *)
LEMMA SoundSeed ==
  ASSUME NEW ops \in Seq(Op), SoundOps(ops),
         NEW s \in 1 .. Len(ops), ops[s].kind = "baseline"
  PROVE  SoundReplay(ops, Seed(s, ops[s]), s)
<1> DEFINE r == Seed(s, ops[s])
<1>1. CASE s = 1
  <2>1. ops[s] = Birth
    BY <1>1 DEF SoundOps
  <2>2. r.seen = {1} /\ r.referenced = {} /\ r.content = {}
    BY <1>1, <2>1 DEF Seed, Birth, Baseline
  <2> QED BY <1>1, <2>2 DEF SoundReplay, SoundView, View, Plain
<1>2. CASE s > 1
  <2> DEFINE op == ops[s]
             v == View(r)
  <2>1. op = Checkpoint(v) /\ SoundView(ops, v, s - 1) /\ s - 1 \in Nat
    BY <1>2 DEF SoundOps, SoundOp
  <2>2. SoundView(ops, v, s) /\ v.content \subseteq 1 .. s /\ v.frontier \subseteq 1 .. s
    BY <2>1, SoundExtends DEF SoundView, Plain
  <2>3. op.baked = v.content /\ op.leaves = v.frontier /\ op.parents = v.frontier
    BY <2>1 DEF Checkpoint, Baseline
  <2>4. r.seen = {s} \cup op.baked \cup op.leaves
        /\ r.referenced \subseteq op.parents \cup op.baked \cup {s}
    BY DEF Seed
  <2>5. r.seen \subseteq 1 .. s /\ r.referenced \subseteq 1 .. s
    BY <2>2, <2>3, <2>4
  <2> QED BY <2>2, <2>5 DEF SoundReplay
<1> QED BY <1>1, <1>2

(* Applying the next operation keeps a replay sound, whatever it missed.   *)
LEMMA SoundApply ==
  ASSUME NEW ops \in Seq(Op), SoundOps(ops), NEW s \in 2 .. Len(ops),
         NEW r \in Replay, SoundReplay(ops, r, s - 1)
  PROVE  SoundReplay(ops, Apply(r, s, ops[s]), s)
<1> DEFINE op == ops[s]
           q == Apply(r, s, op)
<1>0. s - 1 \in Nat /\ op \in Op /\ op.parents \subseteq Plain(ops, s - 1)
  BY DEF SoundOps, SoundOp
<1>1. /\ SoundReplay(ops, r, s)
      /\ Plain(ops, s - 1) \subseteq Plain(ops, s)
      /\ op.parents \subseteq 1 .. s /\ s \notin op.parents
      /\ s \notin r.seen /\ s \notin r.referenced
  BY <1>0, SoundExtends DEF SoundReplay, Plain
<1>2. /\ r.seen \subseteq 1 .. s /\ r.referenced \subseteq 1 .. s
      /\ r.content \subseteq 1 .. s
      /\ r.seen \ r.referenced \subseteq Plain(ops, s)
      /\ r.seen \ r.referenced # {}
  BY <1>1 DEF SoundReplay, SoundView, View
<1>3. CASE op.kind \in {"content", "transition"}
  <2>1. /\ q.seen = r.seen \cup {s}
        /\ q.referenced = r.referenced \cup op.parents
        /\ q.content \subseteq r.content \cup {s}
    BY <1>3 DEF Apply
  <2>2. s \in Plain(ops, s)
    BY <1>3 DEF Plain
  <2>3. q.seen \ q.referenced \subseteq Plain(ops, s) /\ s \in q.seen \ q.referenced
    BY <1>1, <1>2, <2>1, <2>2
  <2> QED BY <1>1, <1>2, <2>1, <2>3 DEF SoundReplay, SoundView, View
<1>4. CASE op.kind = "baseline"
  <2> DEFINE v == View(Seed(s, op))
  <2>1. op = Checkpoint(v) /\ SoundView(ops, v, s - 1)
    BY <1>4 DEF SoundOps, SoundOp
  <2>2. op.leaves = v.frontier /\ v.frontier # {} /\ v.frontier \subseteq Plain(ops, s)
    BY <1>1, <2>1 DEF Checkpoint, Baseline, SoundView
  <2>3. op.leaves \subseteq 1 .. s
    BY <2>2 DEF Plain
  <2>4. /\ q.seen = r.seen \cup {s} \cup op.leaves
        /\ q.referenced = (r.referenced \cup op.parents \cup {s}) \ op.leaves
        /\ q.content = r.content
    BY <1>4 DEF Apply
  <2>5. s \notin op.leaves
    BY <2>1, <2>2 DEF SoundView, Plain
  <2>6. /\ q.seen \ q.referenced \subseteq (r.seen \ r.referenced) \cup op.leaves
        /\ op.leaves \subseteq q.seen \ q.referenced
    BY <2>4, <2>5
  <2>7. q.seen \ q.referenced \subseteq Plain(ops, s) /\ q.seen \ q.referenced # {}
    BY <1>2, <2>2, <2>6
  <2>8. q.seen \subseteq 1 .. s /\ q.referenced \subseteq 1 .. s
    BY <1>1, <1>2, <2>3, <2>4
  <2> QED BY <1>2, <2>4, <2>7, <2>8 DEF SoundReplay, SoundView, View
<1>5. CASE op.kind = "unreadable"
  BY <1>1, <1>5 DEF Apply
<1> QED BY <1>0, <1>3, <1>4, <1>5 DEF Op, Kinds

(* The view of a replay moves with the history, if the replay has missed   *)
(* nothing of it.                                                          *)
LEMMA ChainApply ==
  ASSUME NEW ops \in Seq(Op), SoundOps(ops), NEW views, Chained(ops, views),
         NEW s \in 2 .. Len(ops), NEW r \in Replay,
         SoundReplay(ops, r, s - 1), View(r) = views[s - 1]
  PROVE  View(Apply(r, s, ops[s])) = views[s]
<1> DEFINE n == s - 1
           op == ops[s]
<1>1. n \in Nat /\ n + 1 = s /\ op \in Op /\ op.parents \subseteq 1 .. n
  BY DEF SoundOps, SoundOp, Plain
<1>2. ASSUME op.kind = "baseline"
      PROVE  op.leaves = View(r).frontier /\ op.parents = op.leaves
  <2> DEFINE v == View(Seed(s, op))
  <2>1. op = Checkpoint(v)
    BY <1>2 DEF SoundOps, SoundOp
  <2>2. views[s] = v /\ views[s] = ViewAfter(views[s - 1], s, op)
    BY <1>2 DEF Chained
  <2>3. ViewAfter(views[s - 1], s, op) = views[s - 1]
    BY <1>2 DEF ViewAfter
  <2>4. op.leaves = v.frontier /\ op.parents = v.frontier
    BY <2>1 DEF Checkpoint, Baseline
  <2> QED BY <2>2, <2>3, <2>4
<1>3. r.seen \subseteq 1 .. n /\ r.referenced \subseteq 1 .. n
  BY DEF SoundReplay
<1>4. View(Apply(r, n + 1, op)) = ViewAfter(View(r), n + 1, op)
  BY <1>1, <1>2, <1>3, ViewOfApply
<1>5. views[s] = ViewAfter(views[s - 1], s, op)
  BY DEF Chained
<1> QED BY <1>1, <1>4, <1>5

-----------------------------------------------------------------------------
(* The inductive invariant, part by part.                                  *)

(* Reading the next message keeps a reader sound.                          *)
LEMMA SoundDeliver ==
  ASSUME TypeOK, SoundLog, SoundHistory,
         NEW r \in Readers, SoundReader(r), r.pos < Len(log)
  PROVE  SoundReader(Deliver(r)) /\ Deliver(r).records > 0
         /\ Deliver(r).since = r.since
<1> DEFINE s == NextSeq(r)
           op == log[s]
           q == Deliver(r)
<1>1. /\ s \in 1 .. Len(log) /\ s >= first /\ s > r.pos
      /\ q \in Readers /\ q.pos = s
  BY DeliverType
<1>2. /\ SoundOps(log) /\ log[first].kind = "baseline"
      /\ ~tainted => Chained(log, viewAt)
      /\ log \in Seq(Op) /\ op \in Op
  BY <1>1 DEF SoundLog, SoundHistory, TypeOK
<1>3. q.since = r.since /\ r.since <= Len(log) /\ q.pos <= Len(log) /\ q.pos > 0
  BY <1>1 DEF Deliver, SoundReader, Readers
<1>4. CASE r.records = 0
  <2>1. s = first /\ op.kind = "baseline"
    BY <1>2, <1>4 DEF SoundReader, NextSeq, TypeOK
  <2>2. q.tail = s /\ q.records = 1 /\ q.replay = Seed(s, op)
    BY <1>4, <2>1 DEF Deliver, Readers
  <2>3. SoundReplay(log, q.replay, s)
    BY <1>1, <1>2, <2>1, <2>2, SoundSeed
  <2>4. ~tainted => View(q.replay) = viewAt[s]
    BY <1>1, <1>2, <2>1, <2>2 DEF Chained
  <2> QED BY <1>1, <1>3, <2>2, <2>3, <2>4 DEF SoundReader
<1>5. CASE r.records > 0
  <2>1. /\ r.pos \in Nat /\ r.pos > 0 /\ r.pos <= s - 1 /\ s - 1 \in Nat
        /\ s \in 2 .. Len(log)
        /\ r.replay \in Replay
    BY <1>1, <1>5 DEF SoundReader, Readers
  <2>2. SoundReplay(log, r.replay, s - 1) /\ SoundReplay(log, r.replay, s)
    <3>1. SoundReplay(log, r.replay, r.pos)
      BY <1>5 DEF SoundReader
    <3>2. s \in Nat /\ r.pos <= s
      BY <2>1
    <3>3. SoundReplay(log, r.replay, s - 1)
      BY <2>1, <3>1, SoundExtends
    <3> QED BY <2>1, <3>1, <3>2, <3>3, SoundExtends
  <2>3. ~q.torn => ~r.torn /\ s - 1 = r.pos
    <3>1. ~q.torn => ~r.torn /\ (r.records > 0 => s = r.pos + 1)
      BY DeliverType
    <3> QED BY <1>5, <2>1, <3>1
  <2>4. ~q.torn /\ ~tainted => View(r.replay) = viewAt[s - 1]
    BY <1>5, <2>3 DEF SoundReader
  <2>5. CASE op.kind = "unreadable"
    <3>1. q.tail = r.tail /\ q.records = r.records /\ q.replay = r.replay
      BY <2>5 DEF Deliver, Readers
    <3>2. ~tainted => viewAt[s] = viewAt[s - 1]
      BY <1>2, <2>1, <2>5 DEF Chained, ViewAfter
    <3>3. q.tail <= q.pos
      BY <1>1, <3>1 DEF SoundReader, Readers
    <3> QED BY <1>1, <1>3, <1>5, <2>2, <2>4, <3>1, <3>2, <3>3 DEF SoundReader
  <2>6. CASE op.kind # "unreadable"
    <3>1. q.tail = s /\ q.records = r.records + 1 /\ q.replay = Apply(r.replay, s, op)
      BY <1>5, <2>6 DEF Deliver, Readers
    <3>2. q.records > 0
      BY <1>5, <3>1 DEF Readers
    <3>3. SoundReplay(log, q.replay, s)
      BY <1>2, <2>1, <2>2, <3>1, SoundApply
    <3>4. ~q.torn /\ ~tainted => View(q.replay) = viewAt[s]
      BY <1>2, <2>1, <2>2, <2>4, <3>1, ChainApply
    <3> QED BY <1>1, <1>3, <3>1, <3>2, <3>3, <3>4 DEF SoundReader
  <2> QED BY <2>5, <2>6
<1> QED BY <1>4, <1>5 DEF Readers

(* A new operation that is no baseline, parented on operations there are.  *)
LEMMA SoundAccept ==
  ASSUME TypeOK, SoundLog, SoundHistory,
         NEW op \in Op, op.kind # "baseline",
         op.parents \subseteq Plain(log, Len(log)), Accept(op)
  PROVE  SoundLog' /\ SoundHistory'
<1> DEFINE n == Len(log)
           s == n + 1
           ops == Append(log, op)
           views == Append(viewAt, View(Apply(cold, s, op)))
<1>1. /\ log' = ops /\ first' = first /\ viewAt' = views /\ tainted' = tainted
      /\ truth' = Apply(truth, s, op) /\ cold' = Apply(cold, s, op)
  BY DEF Accept
<1>2. /\ log \in Seq(Op) /\ ops \in Seq(Op) /\ Len(ops) = s /\ ops[s] = op
      /\ n \in Nat /\ n >= 1 /\ s \in 2 .. Len(ops) /\ s - 1 = n
      /\ \A i \in 1 .. n : ops[i] = log[i]
      /\ first \in 1 .. n
      /\ truth \in Replay /\ cold \in Replay
  BY DEF TypeOK
<1>3. Len(viewAt) = n /\ Len(views) = s /\ views[s] = View(cold')
      /\ \A i \in 1 .. n : views[i] = viewAt[i]
  BY <1>1, <1>2 DEF SoundHistory, TypeOK
<1>4. SoundOps(ops)
  <2>1. ops[1] = Birth
    BY <1>2 DEF SoundLog, SoundOps
  <2>2. ASSUME NEW i \in 1 .. n PROVE SoundOp(ops, i)
    <3>1. SoundOp(log, i) /\ ops[i] = log[i] /\ i - 1 \in 0 .. Len(log)
      BY <1>2 DEF SoundLog, SoundOps
    <3> QED BY <1>2, <3>1, SoundGrows DEF SoundOp
  <2>3. SoundOp(ops, s)
    BY <1>2, SoundGrows DEF SoundOp
  <2> QED BY <1>2, <2>1, <2>2, <2>3 DEF SoundOps
<1>5. SoundLog'
  BY <1>1, <1>2, <1>4 DEF SoundLog
<1>6. SoundReplay(ops, cold, s - 1) /\ SoundReplay(ops, truth, s - 1)
  BY <1>2, SoundGrows DEF SoundHistory
<1>7. SoundReplay(ops, cold', s) /\ SoundReplay(ops, truth', s)
  BY <1>1, <1>2, <1>4, <1>6, SoundApply
<1>8. ASSUME NEW r \in Replay, SoundReplay(ops, r, s - 1)
      PROVE  View(Apply(r, s, op)) = ViewAfter(View(r), s, op)
  <2>1. r.seen \subseteq 1 .. n /\ r.referenced \subseteq 1 .. n /\ op.parents \subseteq 1 .. n
    BY <1>2, <1>8 DEF SoundReplay, Plain
  <2> QED BY <1>2, <1>8, <2>1, ViewOfApply
<1>9. ~tainted => View(cold') = View(truth')
  BY <1>1, <1>2, <1>6, <1>8 DEF SoundHistory
<1>10. ASSUME ~tainted PROVE Chained(ops, views)
  <2>1. Chained(log, viewAt) /\ viewAt[n] = View(cold)
    BY <1>10 DEF SoundHistory
  <2>2. views[s] = ViewAfter(views[s - 1], s, ops[s])
    <3>1. View(Apply(cold, s, op)) = ViewAfter(View(cold), s, op)
      BY <1>2, <1>6, <1>8
    <3>2. n \in 1 .. n /\ s - 1 = n
      BY <1>2
    <3>3. views[s - 1] = View(cold)
      <4> HIDE DEF n, s, views
      <4> QED BY <1>3, <2>1, <3>2
    <3> QED BY <1>1, <1>2, <1>3, <3>1, <3>3
  <2>3. ASSUME NEW i \in 2 .. n PROVE views[i] = ViewAfter(views[i - 1], i, ops[i])
    <3>1. i \in 1 .. n /\ i - 1 \in 1 .. n
      OBVIOUS
    <3> QED BY <1>2, <1>3, <2>1, <3>1 DEF Chained
  <2>4. ASSUME NEW i \in 1 .. n, ops[i].kind = "baseline"
        PROVE  views[i] = View(Seed(i, ops[i]))
    BY <1>2, <1>3, <2>1, <2>4 DEF Chained
  <2>5. \A i \in 2 .. Len(ops) : i = s \/ i \in 2 .. n
    BY <1>2
  <2>6. \A i \in 1 .. Len(ops) : ops[i].kind = "baseline" => i \in 1 .. n
    BY <1>2
  <2> HIDE DEF ops, views, s, n
  <2> QED BY <2>2, <2>3, <2>4, <2>5, <2>6 DEF Chained
<1> QED BY <1>1, <1>2, <1>3, <1>5, <1>7, <1>9, <1>10 DEF SoundHistory

(* What a drain holds as it compacts: if its guard holds, the view it      *)
(* publishes is that of the whole log, unless it was torn.                 *)
LEMMA DrainIsTail ==
  ASSUME TypeOK, SoundHistory, NEW h \in Handles, SoundReader(reader[h]),
         reader[h].records > 0, GuardHolds(h)
  PROVE  /\ SoundReplay(log, reader[h].replay, Len(log))
         /\ ~tainted /\ ~reader[h].torn => View(reader[h].replay) = View(cold)
<1>1. reader[h] \in Readers
  BY DEF TypeOK
<1>2. reader[h].pos = Len(log)
  BY <1>1 DEF SoundReader, GuardHolds, Readers, TypeOK
<1> QED BY <1>2 DEF SoundReader, SoundHistory

(* Compaction is sound, and changes no view.                               *)
LEMMA SoundReplace ==
  ASSUME TypeOK, SoundLog, SoundHistory, NEW h \in Handles,
         SoundReader(reader[h]), reader[h].records > 0, Replace(h)
  PROVE  /\ SoundLog' /\ SoundHistory'
         /\ ~tainted' => View(cold') = View(cold)
<1> DEFINE n == Len(log)
           s == n + 1
           v == View(reader[h].replay)
           op == Checkpoint(v)
           ops == Append(log, op)
           views == Append(viewAt, View(Seed(s, op)))
<1>1. /\ log' = ops /\ first' = s /\ viewAt' = views /\ truth' = truth
      /\ cold' = Seed(s, op) /\ GuardHolds(h)
  BY DEF Replace
<1>2. ~tainted' => ~tainted /\ ~reader[h].torn
  BY DEF Replace
<1>3. v \in Views /\ op \in Op /\ op.kind = "baseline" /\ op.parents = v.frontier
  <2>1. reader[h].replay \in Replay
    BY DEF TypeOK, Readers
  <2> QED BY <2>1, ViewType, CheckpointType DEF Checkpoint, Baseline
<1>4. /\ SoundReplay(log, reader[h].replay, n) /\ SoundView(log, v, n)
      /\ ~tainted' => v = View(cold)
  BY <1>1, <1>2, DrainIsTail DEF SoundReplay
<1>5. v.frontier # {} /\ v.frontier \subseteq Plain(log, n)
  BY <1>4 DEF SoundView
<1>6. /\ log \in Seq(Op) /\ ops \in Seq(Op) /\ Len(ops) = s /\ ops[s] = op
      /\ n \in Nat /\ n >= 1 /\ s \in 2 .. Len(ops) /\ s \in 1 .. Len(ops) /\ s - 1 = n
      /\ \A i \in 1 .. n : ops[i] = log[i]
  BY <1>3 DEF TypeOK
<1>7. View(Seed(s, op)) = v
  BY <1>3, <1>5, <1>6, SeedOfCheckpoint
<1>8. Len(viewAt) = n /\ Len(views) = s /\ views[s] = v
      /\ \A i \in 1 .. n : views[i] = viewAt[i]
  BY <1>6, <1>7 DEF SoundHistory, TypeOK
<1>9. SoundOps(ops)
  <2>1. ops[1] = Birth
    BY <1>6 DEF SoundLog, SoundOps
  <2>2. ASSUME NEW i \in 1 .. n PROVE SoundOp(ops, i)
    <3>1. SoundOp(log, i) /\ ops[i] = log[i] /\ i - 1 \in 0 .. Len(log)
      BY <1>6 DEF SoundLog, SoundOps
    <3> QED BY <1>3, <1>6, <3>1, SoundGrows DEF SoundOp
  <2>3. n \in 0 .. Len(log)
    BY <1>6
  <2>4. SoundView(ops, v, n) /\ Plain(ops, n) = Plain(log, n)
    BY <1>3, <1>4, <1>6, <2>3, SoundGrows
  <2>5. SoundOp(ops, s)
    BY <1>3, <1>5, <1>6, <1>7, <2>4 DEF SoundOp
  <2>6. \A i \in 1 .. Len(ops) : i = s \/ i \in 1 .. n
    BY <1>6
  <2> HIDE DEF ops, s, n
  <2> QED BY <2>1, <2>2, <2>5, <2>6 DEF SoundOps
<1>10. SoundLog'
  BY <1>1, <1>3, <1>6, <1>9 DEF SoundLog
<1>11. SoundReplay(ops, cold', s) /\ SoundReplay(ops, truth', s)
  <2>1. SoundReplay(ops, cold', s)
    BY <1>1, <1>3, <1>6, <1>9, SoundSeed
  <2>2. n \in 0 .. Len(log) /\ SoundReplay(log, truth, n)
    BY <1>6 DEF SoundHistory
  <2>3. SoundReplay(ops, truth, n)
    BY <1>3, <1>6, <2>2, SoundGrows
  <2>4. n <= s /\ s \in Nat
    BY <1>6
  <2> QED BY <1>1, <1>6, <2>1, <2>3, <2>4, SoundExtends
<1>12. ~tainted' => View(cold') = View(cold) /\ View(cold') = View(truth')
  BY <1>1, <1>2, <1>4, <1>7 DEF SoundHistory
<1>13. ASSUME ~tainted' PROVE Chained(ops, views)
  <2>1. Chained(log, viewAt) /\ viewAt[n] = v
    BY <1>2, <1>4, <1>13 DEF SoundHistory
  <2>2. views[s] = ViewAfter(views[s - 1], s, ops[s])
    <3>1. ViewAfter(views[s - 1], s, op) = views[s - 1]
      BY <1>3 DEF ViewAfter
    <3>2. n \in 1 .. n
      BY <1>6
    <3> HIDE DEF ops, views, s, n
    <3> QED BY <1>6, <1>8, <2>1, <3>1, <3>2
  <2>3. ASSUME NEW i \in 2 .. n PROVE views[i] = ViewAfter(views[i - 1], i, ops[i])
    <3>1. i \in 1 .. n /\ i - 1 \in 1 .. n
      OBVIOUS
    <3> QED BY <1>6, <1>8, <2>1, <3>1 DEF Chained
  <2>4. ASSUME NEW i \in 1 .. n, ops[i].kind = "baseline"
        PROVE  views[i] = View(Seed(i, ops[i]))
    BY <1>6, <1>8, <2>1, <2>4 DEF Chained
  <2>5. views[s] = View(Seed(s, ops[s]))
    BY <1>6, <1>7, <1>8
  <2>6. \A i \in 2 .. Len(ops) : i = s \/ i \in 2 .. n
    BY <1>6
  <2>7. \A i \in 1 .. Len(ops) : i = s \/ i \in 1 .. n
    BY <1>6
  <2> HIDE DEF ops, views, s, n
  <2> QED BY <2>2, <2>3, <2>4, <2>5, <2>6, <2>7 DEF Chained
<1>14. SoundHistory'
  BY <1>1, <1>6, <1>7, <1>8, <1>11, <1>12, <1>13 DEF SoundHistory
<1> QED BY <1>10, <1>12, <1>14

(* A reader that takes no step stays sound as the log grows.               *)
LEMMA SoundStays ==
  ASSUME TypeOK, SoundHistory, NEW op \in Op, log' = Append(log, op),
         NEW v, viewAt' = Append(viewAt, v), ~tainted' => ~tainted,
         NEW r \in Readers, SoundReader(r)
  PROVE  SoundReader(r)'
<1>1. log \in Seq(Op) /\ r.pos \in 0 .. Len(log) /\ r.pos <= Len(log') /\ r.since <= Len(log')
  BY DEF TypeOK, SoundReader, Readers
<1>2. r.records > 0 => SoundReplay(log', r.replay, r.pos)
  BY <1>1, SoundGrows DEF SoundReader
<1>3. r.pos > 0 => viewAt'[r.pos] = viewAt[r.pos]
  BY <1>1 DEF SoundHistory, TypeOK
<1> QED BY <1>1, <1>2, <1>3 DEF SoundReader

(* A call begins with a sound reader.                                      *)
LEMMA SoundFresh ==
  /\ TypeOK => SoundReader(NoReader)
  /\ \A n \in Nat : TypeOK /\ n <= Len(log) => SoundReader(NewReader(n))
BY DEF NoReader, NewReader, SoundReader, TypeOK

-----------------------------------------------------------------------------
(* The invariant, step by step. A handle that a step does not move:        *)
Quiet(g) == reader'[g] = reader[g] /\ frontier'[g] = frontier[g] /\ pc'[g] = pc[g]

(* stays sound while the log grows.                                        *)
LEMMA QuietWhileGrowing ==
  ASSUME TypeOK, SoundHistory, NEW op \in Op, log' = Append(log, op),
         NEW v, viewAt' = Append(viewAt, v), ~tainted' => ~tainted,
         NEW g \in Handles, SoundHandle(g)
  PROVE  /\ reader'[g] = reader[g] => SoundReader(reader[g])'
         /\ frontier[g] \subseteq Plain(log', Len(log'))
         /\ Quiet(g) => SoundHandle(g)'
<1>1. reader[g] \in Readers /\ SoundReader(reader[g])
  BY DEF TypeOK, SoundHandle
<1>2. reader'[g] = reader[g] => SoundReader(reader[g])'
  BY <1>1, SoundStays DEF SoundReader
<1>3. frontier[g] \subseteq Plain(log', Len(log'))
  <2>1. /\ Len(log) \in Nat /\ Len(log') \in Nat /\ Len(log) <= Len(log')
        /\ Len(log) \in 0 .. Len(log)
    BY DEF TypeOK
  <2>2. Plain(log', Len(log)) = Plain(log, Len(log))
    BY <2>1, SoundGrows DEF TypeOK
  <2> QED BY <2>1, <2>2, SoundExtends DEF SoundHandle
<1> QED BY <1>2, <1>3 DEF Quiet, SoundHandle

(* Steps that leave the stream alone and move one handle.                  *)
LEMMA HandleStep ==
  ASSUME IInv, NEW h \in Handles, UNCHANGED serverVars,
         \A g \in Handles \ {h} : Quiet(g), SoundHandle(h)'
  PROVE  SoundLog' /\ SoundHistory' /\ \A g \in Handles : SoundHandle(g)'
<1>1. SoundLog' /\ SoundHistory'
  BY DEF IInv, SoundLog, SoundHistory, serverVars
<1>2. ASSUME NEW g \in Handles \ {h} PROVE SoundHandle(g)'
  BY <1>2 DEF IInv, SoundHandle, SoundReader, Quiet, serverVars
<1> QED BY <1>1, <1>2

(* Steps that append an operation of one handle.                           *)
LEMMA PostStep ==
  ASSUME IInv, NEW h \in Handles, NEW op \in Op, op.kind # "baseline",
         op.parents \in {{}, frontier[h]}, Accept(op),
         \A g \in Handles \ {h} : Quiet(g),
         frontier'[h] \in {frontier[h], {Len(log) + 1}},
         \/ Quiet(h)
         \/ reader'[h] = reader[h] /\ pc'[h] = pc[h]
         \/ SoundReader(reader[h])' /\ pc'[h] # "drained"
  PROVE  SoundLog' /\ SoundHistory' /\ \A g \in Handles : SoundHandle(g)'
<1>1. op.parents \subseteq Plain(log, Len(log))
  BY DEF IInv, SoundHandle
<1>2. SoundLog' /\ SoundHistory'
  BY <1>1, SoundAccept DEF IInv
<1>3. /\ log' = Append(log, op) /\ tainted' = tainted
      /\ \E v : viewAt' = Append(viewAt, v)
  BY DEF Accept
<1>4. \A g \in Handles :
        /\ reader'[g] = reader[g] => SoundReader(reader[g])'
        /\ frontier[g] \subseteq Plain(log', Len(log'))
        /\ Quiet(g) => SoundHandle(g)'
  BY <1>3, QuietWhileGrowing DEF IInv
<1>5. {Len(log) + 1} \subseteq Plain(log', Len(log'))
  <2>1. Len(log') = Len(log) + 1 /\ log'[Len(log) + 1] = op /\ Len(log) \in Nat
    BY <1>3 DEF IInv, TypeOK
  <2> QED BY <2>1 DEF Plain
<1>6. frontier'[h] \subseteq Plain(log', Len(log'))
  BY <1>4, <1>5
<1>7. SoundHandle(h)'
  BY <1>4, <1>6 DEF SoundHandle, IInv
<1> QED BY <1>2, <1>4, <1>7

(* The inductive invariant holds at the start.                             *)
LEMMA InitSound == Init => IInv
<1> SUFFICES ASSUME Init PROVE IInv
  OBVIOUS
<1>1. TypeOK
  BY InitType
<1> DEFINE r == Seed(1, Birth)
<1>2. r.seen = {1} /\ r.referenced = {} /\ r.content = {}
  BY DEF Seed, Birth, Baseline
<1>3. log = <<Birth>> /\ first = 1 /\ Len(log) = 1 /\ log[1] = Birth
  BY DEF Init
<1>4. Birth.kind = "baseline" /\ Birth.parents = {}
  BY DEF Birth, Baseline
<1>5. SoundLog
  BY <1>3, <1>4 DEF SoundLog, SoundOps, SoundOp
<1>6. Plain(log, 1) = {1}
  BY DEF Plain
<1>7. SoundReplay(log, r, 1)
  BY <1>2, <1>6 DEF SoundReplay, SoundView, View
<1>8. Chained(log, viewAt)
  BY <1>3 DEF Init, Chained
<1>9. SoundHistory
  BY <1>3, <1>7, <1>8 DEF Init, SoundHistory
<1>10. ASSUME NEW h \in Handles PROVE SoundHandle(h)
  BY <1>1, <1>3, <1>6, SoundFresh DEF Init, SoundHandle
<1> QED BY <1>1, <1>5, <1>9, <1>10 DEF IInv

(* Every step keeps the inductive invariant.                               *)
LEMMA NextSound == IInv /\ [Next]_vars => IInv'
<1> DEFINE Sound == SoundLog' /\ SoundHistory' /\ \A g \in Handles : SoundHandle(g)'
<1> SUFFICES ASSUME IInv, [Next]_vars PROVE Sound
  BY NextType DEF IInv
<1>0. /\ TypeOK /\ SoundLog /\ SoundHistory
      /\ \A h \in Handles : SoundHandle(h) /\ SoundReader(reader[h])
      /\ Len(log) \in Nat /\ first <= Len(log)
  BY DEF IInv, SoundHandle, TypeOK
<1>1. CASE UNCHANGED vars
  <2>1. UNCHANGED serverVars /\ \A h \in Handles : Quiet(h)
    BY <1>1 DEF vars, handleVars, callVars, Quiet
  <2> QED BY <1>0, <2>1 DEF SoundLog, SoundHistory, SoundHandle, SoundReader, Quiet, serverVars
<1>2. CASE PublishGarbage
  <2>1. Accept(Unreadable) /\ \A h \in Handles : Quiet(h)
    BY <1>2 DEF PublishGarbage, handleVars, callVars, Quiet
  <2>2. /\ Unreadable \in Op /\ Unreadable.kind # "baseline"
        /\ Unreadable.parents \subseteq Plain(log, Len(log))
    BY PostedTypes DEF Unreadable, Content, Lifecycles
  <2>3. SoundLog' /\ SoundHistory'
    BY <1>0, <2>1, <2>2, SoundAccept
  <2>4. log' = Append(log, Unreadable) /\ tainted' = tainted /\ \E v : viewAt' = Append(viewAt, v)
    BY <2>1 DEF Accept
  <2> QED BY <1>0, <2>1, <2>2, <2>3, <2>4, QuietWhileGrowing
<1>3. ASSUME NEW h \in Handles, PostContent(h) PROVE Sound
  <2> DEFINE op == Content(frontier[h])
  <2>1. op \in Op /\ op.kind # "baseline" /\ op.parents = frontier[h]
    BY <1>0, PostedTypes DEF TypeOK, Lifecycles, Content
  <2>2. Accept(op) /\ reader'[h] = reader[h] /\ pc'[h] = pc[h]
    BY <1>3 DEF PostContent, callVars
  <2>3. frontier'[h] \in {frontier[h], {Len(log) + 1}} /\ \A g \in Handles \ {h} : Quiet(g)
    BY <1>0, <1>3 DEF PostContent, Acked, Unacked, callVars, TypeOK, Quiet
  <2> HIDE DEF op
  <2> QED BY <2>1, <2>2, <2>3, PostStep
<1>4. ASSUME NEW h \in Handles, NEW to \in Targets, PostTransition(h, to) PROVE Sound
  <2> DEFINE op == Transition(to, frontier[h])
  <2>1. op \in Op /\ op.kind # "baseline" /\ op.parents = frontier[h]
    BY <1>0, PostedTypes, ConstantsAssumption DEF TypeOK, Transition
  <2>2. Accept(op) /\ reader'[h] = reader[h] /\ pc'[h] = pc[h]
    BY <1>4 DEF PostTransition, callVars
  <2>3. frontier'[h] \in {frontier[h], {Len(log) + 1}} /\ \A g \in Handles \ {h} : Quiet(g)
    BY <1>0, <1>4 DEF PostTransition, Acked, Unacked, callVars, TypeOK, Quiet
  <2> HIDE DEF op
  <2> QED BY <2>1, <2>2, <2>3, PostStep
<1>5. ASSUME NEW h \in Handles,
             BeginMaterialise(h) \/ BeginRollup(h) \/ BeginArchive(h) \/ BeginFollow(h)
      PROVE  Sound
  <2>1. UNCHANGED serverVars /\ \A g \in Handles \ {h} : Quiet(g)
    BY <1>0, <1>5 DEF BeginMaterialise, BeginRollup, BeginArchive, BeginFollow, Begin,
                      handleVars, TypeOK, Quiet
  <2>2. /\ \E n \in {Len(log), first} : reader'[h] = NewReader(n)
        /\ pc'[h] # "drained" /\ frontier'[h] = frontier[h]
    BY <1>0, <1>5 DEF BeginMaterialise, BeginRollup, BeginArchive, BeginFollow, Begin,
                      handleVars, TypeOK
  <2>3. SoundReader(reader'[h])
    <3>1. PICK n \in {Len(log), first} : reader'[h] = NewReader(n)
      BY <2>2
    <3>2. n \in Nat /\ n <= Len(log)
      BY <1>0, <3>1 DEF TypeOK
    <3>3. SoundReader(NewReader(n))
      BY <1>0, <3>2, SoundFresh
    <3> QED BY <3>1, <3>3
  <2>4. SoundHandle(h)'
    BY <1>0, <2>1, <2>2, <2>3 DEF SoundHandle, SoundReader, serverVars
  <2> QED BY <2>1, <2>4, HandleStep
<1>6. ASSUME NEW h \in Handles, BeginClose(h) PROVE Sound
  <2> DEFINE op == Transition("closed", frontier[h])
  <2>1. op \in Op /\ op.kind # "baseline" /\ op.parents = frontier[h]
    BY <1>0, PostedTypes DEF TypeOK, Transition, Lifecycles
  <2>2. Accept(op) /\ pc'[h] # "drained" /\ reader'[h] = NewReader(Len(log) + 1)
    BY <1>0, <1>6 DEF BeginClose, TypeOK
  <2>3. frontier'[h] \in {frontier[h], {Len(log) + 1}} /\ \A g \in Handles \ {h} : Quiet(g)
    BY <1>0, <1>6 DEF BeginClose, Acked, TypeOK, Quiet
  <2>4. Len(log') = Len(log) + 1
    BY <1>0, <2>2 DEF Accept, TypeOK
  <2>5. SoundReader(reader[h])'
    BY <1>0, <2>2, <2>4 DEF SoundReader, NewReader, NoReader
  <2> HIDE DEF op
  <2> QED BY <2>1, <2>2, <2>3, <2>5, PostStep
<1>7. ASSUME NEW h \in Handles, Read(h) \/ ReadLive(h) PROVE Sound
  <2> DEFINE q == Deliver(reader[h])
  <2>1. reader[h] \in Readers /\ reader[h].pos < Len(log)
    BY <1>0, <1>7 DEF Read, ReadLive, TypeOK
  <2>2. /\ SoundReader(q) /\ q.records > 0 /\ q \in Readers /\ q.since = reader[h].since
        /\ q.since <= Len(log)
    BY <1>0, <2>1, SoundDeliver, DeliverType DEF SoundReader
  <2>3. /\ UNCHANGED serverVars /\ \A g \in Handles \ {h} : Quiet(g)
        /\ reader'[h] = q
    BY <1>0, <1>7 DEF Read, ReadLive, Adopt, TypeOK, Quiet, handleVars
  <2>4. frontier'[h] \in {frontier[h], View(q.replay).frontier}
    BY <1>0, <1>7 DEF Read, ReadLive, Adopt, TypeOK, handleVars
  <2>5. View(q.replay).frontier \subseteq Plain(log, Len(log))
    <3>1. q.pos \in Nat /\ q.pos <= Len(log)
      BY <2>2 DEF SoundReader, Readers
    <3>2. SoundReplay(log, q.replay, q.pos)
      BY <2>2 DEF SoundReader
    <3> QED BY <1>0, <3>1, <3>2, SoundExtends DEF SoundReplay, SoundView
  <2>6. pc'[h] = "drained" => q.pos = Len(log)
    BY <1>0, <1>7 DEF Read, ReadLive, TypeOK
  <2>7. SoundReader(reader[h])'
    BY <2>2, <2>3 DEF SoundReader, serverVars
  <2>8. frontier'[h] \subseteq Plain(log', Len(log'))
    BY <1>0, <2>3, <2>4, <2>5 DEF SoundHandle, serverVars
  <2> HIDE DEF q
  <2>9. SoundHandle(h)'
    BY <2>2, <2>3, <2>6, <2>7, <2>8 DEF SoundHandle
  <2> QED BY <2>3, <2>9, HandleStep
<1>8. ASSUME NEW h \in Handles, NEW what, Drained(h, what),
             UNCHANGED serverVars, Adopt(h, View(reader[h].replay)),
             \A g \in Handles \ {h} : reader'[g] = reader[g] /\ pc'[g] = pc[g],
             reader'[h] \in {NoReader, reader[h], NewReader(reader[h].since)},
             pc'[h] # "drained"
      PROVE  Sound
  <2>1. SoundReader(reader[h]) /\ reader[h] \in Readers /\ reader[h].records > 0
    BY <1>0, <1>8 DEF Drained, SoundHandle, TypeOK
  <2>2. View(reader[h].replay).frontier \subseteq Plain(log, Len(log))
    <3>1. SoundReplay(log, reader[h].replay, reader[h].pos)
          /\ reader[h].pos \in Nat /\ reader[h].pos <= Len(log)
      BY <2>1 DEF SoundReader, Readers
    <3> QED BY <1>0, <3>1, SoundExtends DEF SoundReplay, SoundView
  <2>3. /\ frontier'[h] = View(reader[h].replay).frontier
        /\ \A g \in Handles \ {h} : Quiet(g)
    BY <1>0, <1>8 DEF Adopt, Quiet, TypeOK
  <2>4. SoundReader(reader'[h])
    <3>1. reader[h].since \in Nat /\ reader[h].since <= Len(log)
      BY <2>1 DEF SoundReader, Readers
    <3> QED BY <1>0, <1>8, <2>1, <3>1, SoundFresh
  <2>5. SoundHandle(h)'
    BY <1>8, <2>2, <2>3, <2>4 DEF SoundHandle, SoundReader, serverVars
  <2> QED BY <1>8, <2>3, <2>5, HandleStep
<1>9. ASSUME NEW h \in Handles, FinishMaterialise(h) \/ ArchiveAgain(h) \/ ArchiveAdopts(h)
      PROVE  Sound
  <2>1. \E what : Drained(h, what)
    BY <1>9 DEF FinishMaterialise, ArchiveAgain, ArchiveAdopts
  <2>2. UNCHANGED serverVars /\ Adopt(h, View(reader[h].replay))
    BY <1>9 DEF FinishMaterialise, ArchiveAgain, ArchiveAdopts
  <2>3. /\ \A g \in Handles \ {h} : reader'[g] = reader[g] /\ pc'[g] = pc[g]
        /\ reader'[h] \in {NoReader, reader[h], NewReader(reader[h].since)}
        /\ pc'[h] # "drained"
    BY <1>0, <1>9 DEF FinishMaterialise, ArchiveAgain, ArchiveAdopts, Return, Drain, TypeOK
  <2> QED BY <1>8, <2>1, <2>2, <2>3
<1>10. ASSUME NEW h \in Handles, ArchiveTransition(h) PROVE Sound
  <2> DEFINE op == Transition("archived", frontier[h])
  <2>1. op \in Op /\ op.kind # "baseline" /\ op.parents = frontier[h]
    BY <1>0, PostedTypes DEF TypeOK, Transition, Lifecycles
  <2>2. /\ Accept(op) /\ pc'[h] # "drained"
        /\ reader'[h] \in {NoReader, NewReader(reader[h].since)}
    BY <1>0, <1>10 DEF ArchiveTransition, Return, Drain, TypeOK
  <2>3. frontier'[h] \in {frontier[h], {Len(log) + 1}} /\ \A g \in Handles \ {h} : Quiet(g)
    BY <1>0, <1>10 DEF ArchiveTransition, Return, Drain, Acked, Unacked, TypeOK, Quiet
  <2>4. Len(log') = Len(log) + 1
    BY <1>0, <2>2 DEF Accept, TypeOK
  <2>5. reader[h].since \in Nat /\ reader[h].since <= Len(log)
    BY <1>0 DEF SoundReader, Readers, TypeOK
  <2>6. SoundReader(reader[h])'
    BY <1>0, <2>2, <2>4, <2>5 DEF SoundReader, NewReader, NoReader
  <2> HIDE DEF op
  <2> QED BY <2>1, <2>2, <2>3, <2>6, PostStep
<1>11. ASSUME NEW h \in Handles,
              \/ RollupDeclined(h) \/ RollupLost(h) \/ PublishFails(h)
              \/ Interrupt(h) \/ Crash(h)
       PROVE  Sound
  <2>1. /\ UNCHANGED serverVars /\ \A g \in Handles \ {h} : Quiet(g)
        /\ frontier'[h] \in {frontier[h], {}} /\ pc'[h] # "drained"
        /\ reader'[h] \in {NoReader, NewReader(reader[h].since)}
    <3>1. CASE RollupLost(h)
      BY <1>0, <1>11, <3>1 DEF RollupLost, Drain, Return, handleVars, TypeOK, Quiet
    <3>2. CASE RollupDeclined(h) \/ PublishFails(h) \/ Interrupt(h) \/ Crash(h)
      BY <1>0, <1>11, <3>2 DEF RollupDeclined, PublishFails, Interrupt, Crash,
                               Return, handleVars, TypeOK, Quiet
    <3> QED BY <1>11, <3>1, <3>2
  <2>2. reader[h].since \in Nat /\ reader[h].since <= Len(log)
    BY <1>0 DEF SoundReader, Readers, TypeOK
  <2>3. SoundReader(reader'[h])
    BY <1>0, <2>1, <2>2, SoundFresh
  <2>4. SoundHandle(h)'
    BY <1>0, <2>1, <2>3 DEF SoundHandle, SoundReader, serverVars
  <2> QED BY <2>1, <2>4, HandleStep
<1>12. ASSUME NEW h \in Handles, RollupCommits(h) PROVE Sound
  <2> DEFINE v == View(reader[h].replay)
  <2>1. SoundReader(reader[h]) /\ reader[h] \in Readers /\ reader[h].records > 0
    BY <1>0, <1>12 DEF RollupCommits, Publishing, Compacting, SoundHandle, TypeOK
  <2>2. Replace(h) /\ GuardHolds(h)
    BY <1>12 DEF RollupCommits, Replace
  <2>3. SoundLog' /\ SoundHistory'
    BY <1>0, <2>1, <2>2, SoundReplace
  <2>4. Checkpoint(v) \in Op
    BY <2>1, ViewType, CheckpointType DEF Readers
  <2>5. /\ log' = Append(log, Checkpoint(v)) /\ (~tainted' => ~tainted)
        /\ \E w : viewAt' = Append(viewAt, w)
    BY <2>2 DEF Replace
  <2>6. \A g \in Handles :
          /\ frontier[g] \subseteq Plain(log', Len(log'))
          /\ Quiet(g) => SoundHandle(g)'
    BY <1>0, <2>4, <2>5, QuietWhileGrowing
  <2>7. /\ \A g \in Handles \ {h} : Quiet(g)
        /\ frontier'[h] \in {frontier[h], v.frontier}
        /\ reader'[h] = NoReader /\ pc'[h] # "drained"
    BY <1>0, <1>12 DEF RollupCommits, Adopt, Return, handleVars, TypeOK, Quiet
  <2>8. v.frontier \subseteq Plain(log', Len(log'))
    <3>1. v.frontier \subseteq Plain(log, Len(log))
      BY <1>0, <2>1, <2>2, DrainIsTail DEF SoundReplay, SoundView
    <3>2. /\ Len(log) \in 0 .. Len(log) /\ Len(log') \in Nat /\ Len(log) <= Len(log')
      BY <1>0, <2>5 DEF TypeOK
    <3>3. Plain(log', Len(log)) = Plain(log, Len(log))
      BY <1>0, <2>4, <2>5, <3>2, SoundGrows DEF TypeOK
    <3> QED BY <1>0, <3>1, <3>2, <3>3, SoundExtends
  <2>9. SoundReader(reader[h])'
    BY <1>0, <2>5, <2>7 DEF SoundReader, NoReader, TypeOK
  <2> HIDE DEF v
  <2>10. SoundHandle(h)'
    BY <2>6, <2>7, <2>8, <2>9 DEF SoundHandle
  <2> QED BY <2>3, <2>6, <2>7, <2>10
<1> QED
  BY <1>1, <1>2, <1>3, <1>4, <1>5, <1>6, <1>7, <1>9, <1>10, <1>11, <1>12 DEF Next, Step

(* IInv holds of every reachable state.                                    *)
THEOREM Invariant == Spec => []IInv
BY InitSound, NextSound, PTL DEF Spec

-----------------------------------------------------------------------------
(* What follows from it.                                                   *)

(* Compaction is invisible to cold readers: whoever compacts, whenever,    *)
(* and whatever races it, as long as no purge tore a reader that compacts. *)
THEOREM CompactionIsInvisible == Spec => []CompactionInvisible
<1>1. IInv => CompactionInvisible
  BY DEF IInv, SoundHistory, CompactionInvisible
<1> QED BY <1>1, Invariant, PTL

(* Readers from under whom nothing was purged hold the view the topic had  *)
(* at the last operation they consumed, and finished drains are current    *)
(* as of their beginning.                                                  *)
THEOREM ReadsAreExact == Spec => []ReadsExact
<1>1. IInv => ReadsExact
  BY DEF IInv, SoundHandle, SoundReader, ReadsExact
<1> QED BY <1>1, Invariant, PTL

(* No operation is parented on a rollup's baseline, on itself or on a      *)
(* later operation, even where purges have torn readers and lost content.  *)
THEOREM ParentsReachAcrossSeams == Spec => []ParentsAcrossSeams
<1>1. ASSUME IInv, NEW s \in 1 .. Len(log), NEW p \in log[s].parents
      PROVE  p < s /\ (p = 1 \/ log[p].kind # "baseline")
  <2>1. s \in Nat /\ p \in Plain(log, s - 1)
    BY <1>1 DEF IInv, SoundLog, SoundOps, SoundOp
  <2> QED BY <2>1 DEF Plain
<1>2. IInv => ParentsAcrossSeams
  BY <1>1 DEF ParentsAcrossSeams
<1> QED BY <1>2, Invariant, PTL

(* Archived is terminal for cold readers: neither a transition nor         *)
(* anybody's compaction brings an archived topic back.                     *)
THEOREM ArchivedStaysArchived == Spec => ArchivedIsTerminal
<1> DEFINE A == Life(cold) = "archived" /\ ~tainted' => Life(cold') = "archived"
<1>1. ASSUME IInv, Next, Life(cold) = "archived", ~tainted'
      PROVE  Life(cold') = "archived"
  <2>1. cold.life = "archived"
    BY <1>1 DEF Life
  <2>2. CASE UNCHANGED serverVars
    BY <1>1, <2>2 DEF serverVars
  <2>3. CASE \E op : cold' = Apply(cold, Len(log) + 1, op)
                     /\ op.kind \in {"content", "transition", "unreadable"}
    BY <2>1, <2>3 DEF Apply, Life, LifeAfter
  <2>4. CASE \E h \in Handles : RollupCommits(h)
    <3>1. PICK h \in Handles : RollupCommits(h)
      BY <2>4
    <3>2. Replace(h) /\ SoundReader(reader[h]) /\ reader[h].records > 0
      BY <1>1, <3>1 DEF RollupCommits, Publishing, Compacting, IInv, SoundHandle
    <3>3. View(cold') = View(cold)
      BY <1>1, <3>2, SoundReplace DEF IInv
    <3> QED BY <1>1, <3>3 DEF View
  <2>5. \/ UNCHANGED serverVars
        \/ \E h \in Handles : RollupCommits(h)
        \/ Accept(Unreadable)
        \/ \E h \in Handles : Accept(Content(frontier[h]))
        \/ \E h \in Handles, to \in Lifecycles : Accept(Transition(to, frontier[h]))
    BY <1>1, ConstantsAssumption
    DEF Next, Step, PublishGarbage, PostContent, PostTransition, BeginMaterialise, BeginRollup,
        BeginArchive, BeginFollow, BeginClose, Read, ReadLive, FinishMaterialise, ArchiveAgain,
        ArchiveAdopts, ArchiveTransition, RollupDeclined, RollupLost, PublishFails, Interrupt,
        Crash, Lifecycles
  <2>6. \A op : Accept(op) => cold' = Apply(cold, Len(log) + 1, op)
    BY DEF Accept
  <2>7. /\ Unreadable.kind = "unreadable"
        /\ \A parents : Content(parents).kind = "content"
        /\ \A parents, to : Transition(to, parents).kind = "transition"
    BY DEF Unreadable, Content, Transition
  <2> QED BY <2>2, <2>3, <2>4, <2>5, <2>6, <2>7
<1>2. IInv /\ [Next]_vars => [A]_vars
  BY <1>1
<1> QED BY <1>2, Invariant, PTL DEF Spec, ArchivedIsTerminal
=============================================================================
