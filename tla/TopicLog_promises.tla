--------------------------- MODULE TopicLog_promises ---------------------------
(***************************************************************************)
(* What a topic's log promises the personas around it: an archived topic   *)
(* is known to be archived by whoever saw it so, and the whole of TopicLog *)
(* implements the abstract Topic. Both rest on the inductive invariant of  *)
(* TopicLog_proofs and on what is said here of calls in progress.          *)
(***************************************************************************)
EXTENDS TopicLog_proofs

-----------------------------------------------------------------------------
(* The invariant.                                                          *)

(* Once the conversation is archived it is archived in all its later       *)
(* states.                                                                 *)
ArchivedStands ==
  ~tainted =>
    \A s, t \in 1 .. Len(viewAt) :
      s <= t /\ viewAt[s].life = "archived" => viewAt[t].life = "archived"

(* A handle has a reader only while a call is in progress, and what is left*)
(* of an Archive after its transition is done by a handle that goes by the *)
(* archived topic.                                                         *)
OpenRead(h) ==
  /\ pc[h] = "idle" => reader[h] = NoReader
  /\ pc[h] # "idle" => reader[h].since >= 1
  /\ pc[h] = "following" => call[h] = "follow" /\ reader[h].since <= first
  /\ pc[h] = "shelving" => call[h] = "archive" /\ lifecycle[h] # "archived"
  /\ attempt[h] > 0 =>
       /\ lifecycle[h] = "archived"
       /\ call[h] = "archive" /\ pc[h] \in {"draining", "drained"}

(* A replay, even one that a purge made skip operations, and a handle say  *)
(* archived only of an archived conversation; a handle that does has not   *)
(* drained a reader to a point where it was not archived yet.              *)
KnowsArchived(h) ==
  ~tainted =>
    /\ reader[h].records > 0 /\ Life(reader[h].replay) = "archived"
         => viewAt[reader[h].pos].life = "archived"
    /\ lifecycle[h] = "archived"
         => /\ viewAt[Len(log)].life = "archived"
            /\ pc[h] = "drained" => viewAt[reader[h].pos].life = "archived"

CallsSound == ArchivedStands /\ \A h \in Handles : OpenRead(h) /\ KnowsArchived(h)

-----------------------------------------------------------------------------
(* Archived is where lifecycles end.                                       *)

(* No operation leads a view out of archived, and the archived transition  *)
(* leads every view there.                                                 *)
LEMMA ViewStaysArchived ==
  ASSUME NEW v \in Views, NEW id, NEW op \in Op
  PROVE  v.life = "archived" \/ (op.kind = "transition" /\ op.to = "archived")
           => ViewAfter(v, id, op).life = "archived"
BY DEF ViewAfter, LifeAfter, Op, Kinds, Views

(* The log grows by one message and the history by one view.               *)
Grows ==
  /\ \E op \in Op : log' = Append(log, op)
  /\ \E v : viewAt' = Append(viewAt, v)
  /\ ~tainted' => ~tainted
  /\ first' >= first

(* Growth changes no earlier view, and adds a view that the message makes  *)
(* of the last one.                                                        *)
LEMMA Growth ==
  ASSUME IInv, IInv', Grows
  PROVE  /\ Len(log') = Len(log) + 1 /\ Len(viewAt') = Len(log') /\ Len(viewAt) = Len(log)
         /\ Len(log) \in Nat \ {0}
         /\ log'[Len(log')] \in Op
         /\ \A s \in 1 .. Len(log) : viewAt'[s] = viewAt[s]
         /\ \A s \in 1 .. Len(log) : viewAt[s] \in Views
         /\ ~tainted' => viewAt'[Len(log')]
                           = ViewAfter(viewAt[Len(log)], Len(log'), log'[Len(log')])
<1>1. /\ log \in Seq(Op) /\ Len(log) \in Nat \ {0} /\ viewAt \in Seq(Views)
      /\ Len(viewAt) = Len(log) /\ Len(viewAt') = Len(log')
      /\ ~tainted' => Chained(log', viewAt')
  BY DEF IInv, TypeOK, SoundHistory
<1>2. PICK op \in Op : log' = Append(log, op)
  BY DEF Grows
<1>3. PICK v : viewAt' = Append(viewAt, v)
  BY DEF Grows
<1>4. Len(log') = Len(log) + 1 /\ log'[Len(log')] = op
  BY <1>1, <1>2
<1>5. \A s \in 1 .. Len(log) : viewAt'[s] = viewAt[s] /\ viewAt[s] \in Views
  BY <1>1, <1>3
<1>6. ASSUME ~tainted'
      PROVE  viewAt'[Len(log')] = ViewAfter(viewAt[Len(log)], Len(log'), log'[Len(log')])
  <2>1. Len(log') \in 2 .. Len(log') /\ Len(log') - 1 = Len(log) /\ Len(log) \in 1 .. Len(log)
    BY <1>1, <1>4
  <2>2. viewAt'[Len(log')] = ViewAfter(viewAt'[Len(log') - 1], Len(log'), log'[Len(log')])
    BY <1>1, <1>6, <2>1 DEF Chained
  <2> QED BY <1>5, <2>1, <2>2
<1> QED BY <1>1, <1>4, <1>5, <1>6

(* A handle that a step does not move.                                     *)
Still(g) == Quiet(g) /\ lifecycle'[g] = lifecycle[g] /\ call'[g] = call[g]
                     /\ attempt'[g] = attempt[g]

(* What the stream does leaves archived conversations archived and the     *)
(* handles that do not move sound.                                         *)
LEMMA StreamStep ==
  ASSUME IInv, IInv', CallsSound, UNCHANGED serverVars \/ Grows
  PROVE  /\ ArchivedStands'
         /\ ~tainted' => ~tainted
         /\ first' >= first
         /\ \A g \in Handles : Still(g) => OpenRead(g)' /\ KnowsArchived(g)'
         /\ ~tainted' /\ viewAt[Len(log)].life = "archived"
              => viewAt'[Len(log')].life = "archived"
         /\ \A s \in 1 .. Len(log) : viewAt'[s] = viewAt[s]
<1>0. first \in Nat /\ first' \in Nat
  BY DEF IInv, TypeOK
<1>1. CASE UNCHANGED serverVars
  BY <1>0, <1>1 DEF serverVars, CallsSound, ArchivedStands, Still, Quiet, OpenRead, KnowsArchived
<1>2. CASE Grows
  <2> DEFINE n == Len(log)
             m == Len(log')
  <2>1. /\ m = n + 1 /\ Len(viewAt') = m /\ Len(viewAt) = n /\ n \in Nat \ {0}
        /\ \A s \in 1 .. n : viewAt'[s] = viewAt[s]
        /\ (~tainted' => ~tainted) /\ first' >= first
    BY <1>2, Growth DEF Grows
  <2>2. ~tainted' /\ viewAt[n].life = "archived" => viewAt'[m].life = "archived"
    <3>1. n \in 1 .. n
      BY <2>1
    <3>2. viewAt[n] \in Views /\ log'[m] \in Op
      BY <1>2, <3>1, Growth
    <3> QED BY <1>2, <3>2, Growth, ViewStaysArchived
  <2>3. ArchivedStands'
    <3> SUFFICES ASSUME ~tainted', NEW s \in 1 .. m, NEW t \in 1 .. m, s <= t,
                        viewAt'[s].life = "archived"
                 PROVE  viewAt'[t].life = "archived"
      BY <2>1 DEF ArchivedStands
    <3>1. ArchivedStands /\ ~tainted
      BY <2>1 DEF CallsSound
    <3>2. CASE s = m
      BY <3>2, <2>1
    <3>3. CASE s \in 1 .. n /\ t \in 1 .. n
      BY <3>1, <3>3, <2>1 DEF ArchivedStands
    <3>4. CASE s \in 1 .. n /\ t = m
      <4>1. n \in 1 .. n /\ s <= n
        BY <2>1, <3>4
      <4>2. viewAt[n].life = "archived"
        BY <2>1, <3>1, <3>4, <4>1 DEF ArchivedStands
      <4> QED BY <2>2, <3>4, <4>2
    <3> HIDE DEF n, m
    <3> QED BY <2>1, <3>2, <3>3, <3>4
  <2>4. ASSUME NEW g \in Handles, Still(g)
        PROVE  OpenRead(g)' /\ KnowsArchived(g)'
    <3>1. reader[g] \in Readers /\ SoundReader(reader[g]) /\ OpenRead(g) /\ KnowsArchived(g)
      BY DEF IInv, TypeOK, SoundHandle, CallsSound
    <3>2. /\ reader'[g] = reader[g] /\ pc'[g] = pc[g] /\ lifecycle'[g] = lifecycle[g]
          /\ call'[g] = call[g] /\ attempt'[g] = attempt[g]
      BY <2>4 DEF Still, Quiet
    <3>3. OpenRead(g)'
      BY <1>0, <2>1, <3>1, <3>2 DEF OpenRead, Readers
    <3>4. reader[g].records > 0 => reader[g].pos \in 1 .. n
      BY <3>1 DEF SoundReader, Readers
    <3>5. pc[g] = "drained" => reader[g].records > 0
      BY DEF IInv, SoundHandle
    <3>6. reader[g].records > 0 => viewAt'[reader[g].pos] = viewAt[reader[g].pos]
      BY <2>1, <3>4
    <3>7. KnowsArchived(g)'
      BY <2>1, <2>2, <3>1, <3>2, <3>5, <3>6 DEF KnowsArchived
    <3> QED BY <3>3, <3>7
  <2> QED BY <2>1, <2>2, <2>3, <2>4
<1> QED BY <1>1, <1>2

-----------------------------------------------------------------------------
(* Readers and handles.                                                    *)

(* A replay comes to archived by the archived transition only.             *)
LEMMA ApplyArchives ==
  ASSUME NEW r \in Replay, NEW id, NEW op \in Op, Life(Apply(r, id, op)) = "archived"
  PROVE  Life(r) = "archived" \/ (op.kind = "transition" /\ op.to = "archived")
BY DEF Apply, Life, LifeAfter, Op, Kinds, Replay

(* Reading on, a reader says archived of an archived conversation only,    *)
(* whatever a purge has made it skip.                                      *)
LEMMA DeliverKnows ==
  ASSUME IInv, CallsSound, ~tainted, NEW h \in Handles, reader[h].pos < Len(log),
         Life(Deliver(reader[h]).replay) = "archived"
  PROVE  viewAt[Deliver(reader[h]).pos].life = "archived"
<1> DEFINE r == reader[h]
           s == NextSeq(r)
           op == log[s]
<1>1. /\ r \in Readers /\ SoundReader(r) /\ KnowsArchived(h) /\ Chained(log, viewAt)
      /\ Len(viewAt) = Len(log) /\ ArchivedStands
      /\ log \in Seq(Op) /\ viewAt \in Seq(Views)
      /\ log[first].kind = "baseline" /\ first \in 1 .. Len(log)
  BY DEF IInv, TypeOK, SoundHandle, SoundHistory, SoundLog, CallsSound
<1>2. s \in 1 .. Len(log) /\ s > r.pos /\ Deliver(r).pos = s
  BY <1>1, DeliverType DEF IInv
<1>3. CASE r.records = 0
  <2>1. s = first
    BY <1>1, <1>3 DEF SoundReader, NextSeq
  <2>2. Deliver(r).replay = Seed(s, op)
    BY <1>1, <1>3, <2>1 DEF Deliver, Readers
  <2>3. viewAt[s] = View(Seed(s, op))
    BY <1>1, <1>2, <2>1 DEF Chained
  <2> QED BY <1>2, <2>2, <2>3 DEF View
<1>4. CASE r.records > 0
  <2>1. r.pos \in 1 .. Len(log) /\ s \in 2 .. Len(log) /\ s - 1 \in 1 .. Len(log)
        /\ r.pos <= s
    BY <1>1, <1>2, <1>4 DEF SoundReader, Readers
  <2>2. Life(r.replay) = "archived" => viewAt[s].life = "archived"
    BY <1>1, <1>2, <1>4, <2>1 DEF KnowsArchived, ArchivedStands
  <2>3. op \in Op /\ viewAt[s - 1] \in Views
    BY <1>1, <1>2, <2>1
  <2>4. op.kind = "transition" /\ op.to = "archived" => viewAt[s].life = "archived"
    <3>1. viewAt[s] = ViewAfter(viewAt[s - 1], s, op)
      BY <1>1, <2>1 DEF Chained
    <3> QED BY <2>3, <3>1, ViewStaysArchived
  <2>5. CASE op.kind = "unreadable"
    <3>1. Deliver(r).replay = r.replay
      BY <1>1, <2>5 DEF Deliver, Readers
    <3> QED BY <1>2, <2>2, <3>1
  <2>6. CASE op.kind # "unreadable"
    <3>1. Deliver(r).replay = Apply(r.replay, s, op)
      BY <1>1, <1>4, <2>6 DEF Deliver, Readers
    <3>2. r.replay \in Replay
      BY <1>1 DEF Readers
    <3> HIDE DEF s, op
    <3> QED BY <1>2, <2>2, <2>3, <2>4, <3>1, <3>2, ApplyArchives
  <2> QED BY <2>5, <2>6
<1> QED BY <1>1, <1>3, <1>4 DEF Readers

(* What a handle adopts from a reader says archived only of a conversation *)
(* that is.                                                                *)
LEMMA ReplayKnows ==
  ASSUME IInv, CallsSound, ~tainted, NEW h \in Handles,
         reader[h].records > 0, View(reader[h].replay).life = "archived"
  PROVE  viewAt[reader[h].pos].life = "archived" /\ viewAt[Len(log)].life = "archived"
<1>1. /\ reader[h] \in Readers /\ SoundReader(reader[h]) /\ KnowsArchived(h) /\ ArchivedStands
      /\ Len(viewAt) = Len(log) /\ Len(log) \in Nat
  BY DEF IInv, TypeOK, SoundHandle, SoundHistory, CallsSound
<1>2. viewAt[reader[h].pos].life = "archived"
  BY <1>1 DEF KnowsArchived, View
<1>3. reader[h].pos \in 1 .. Len(log) /\ Len(log) \in 1 .. Len(log)
      /\ reader[h].pos <= Len(log)
  BY <1>1 DEF SoundReader, Readers
<1> QED BY <1>1, <1>2, <1>3 DEF ArchivedStands

(* And a drain that was not torn returns archived if its handle went by it *)
(* already.                                                                *)
LEMMA DrainKnows ==
  ASSUME IInv, CallsSound, ~tainted, NEW h \in Handles, pc[h] = "drained",
         ~reader[h].torn, lifecycle[h] = "archived"
  PROVE  View(reader[h].replay).life = "archived"
BY DEF IInv, SoundHandle, SoundReader, CallsSound, KnowsArchived

(* The invariant holds at the start.                                       *)
LEMMA InitCalls == Init => CallsSound
<1> SUFFICES ASSUME Init PROVE CallsSound
  OBVIOUS
<1>1. ArchivedStands
  BY DEF Init, ArchivedStands
<1>2. ASSUME NEW h \in Handles PROVE OpenRead(h) /\ KnowsArchived(h)
  BY DEF Init, OpenRead, KnowsArchived, NoReader
<1> QED BY <1>1, <1>2 DEF CallsSound

(* A handle whose reader is new, or gone.                                  *)
LEMMA FreshKnows ==
  ASSUME NEW h \in Handles, reader'[h].records = 0, pc'[h] # "drained",
         ~tainted' /\ lifecycle'[h] = "archived" => viewAt'[Len(log')].life = "archived"
  PROVE  KnowsArchived(h)'
BY DEF KnowsArchived

(* Every step keeps it.                                                    *)
LEMMA NextCalls == IInv /\ IInv' /\ CallsSound /\ [Next]_vars => CallsSound'
<1> SUFFICES ASSUME IInv, IInv', CallsSound, [Next]_vars PROVE CallsSound'
  OBVIOUS
<1> DEFINE Moved(h) == /\ UNCHANGED serverVars \/ Grows
                       /\ \A g \in Handles \ {h} : Still(g)
                       /\ OpenRead(h)' /\ KnowsArchived(h)'
<1>0. /\ TypeOK /\ first \in Nat
      /\ \A h \in Handles : OpenRead(h) /\ KnowsArchived(h)
      /\ NoReader.records = 0 /\ \A n : NewReader(n).records = 0 /\ NewReader(n).since = n
  BY DEF IInv, TypeOK, CallsSound, NoReader, NewReader
<1>g. ASSUME NEW op \in Op, Accept(op) PROVE Grows
  BY <1>0, <1>g DEF Accept, Grows, IInv, TypeOK
<1>t. /\ \A parents \in SUBSET Nat : Content(parents) \in Op
      /\ \A parents \in SUBSET Nat, to \in Lifecycles : Transition(to, parents) \in Op
      /\ Unreadable \in Op /\ Targets \subseteq Lifecycles
      /\ frontier \in [Handles -> SUBSET Nat]
  BY <1>0, PostedTypes, ConstantsAssumption DEF TypeOK, Lifecycles
<1>m. ASSUME NEW h \in Handles, Moved(h) PROVE CallsSound'
  <2>1. ArchivedStands' /\ \A g \in Handles : Still(g) => OpenRead(g)' /\ KnowsArchived(g)'
    BY <1>m, StreamStep
  <2> QED BY <1>m, <2>1 DEF CallsSound
<1>s. ASSUME UNCHANGED serverVars \/ Grows, \A g \in Handles : Still(g) PROVE CallsSound'
  BY <1>s, StreamStep DEF CallsSound
<1>1. CASE UNCHANGED vars
  BY <1>1, <1>s DEF vars, handleVars, callVars, Still, Quiet
<1>2. CASE PublishGarbage
  BY <1>2, <1>s, <1>g, <1>t DEF PublishGarbage, handleVars, callVars, Still, Quiet
<1>3. ASSUME NEW h \in Handles, PostContent(h) \/ \E to \in Targets : PostTransition(h, to)
      PROVE  CallsSound'
  <2>1. Grows
    BY <1>3, <1>g, <1>t DEF PostContent, PostTransition
  <2>2. /\ UNCHANGED <<lifecycle, callVars>> /\ pc[h] = "idle"
        /\ \A g \in Handles \ {h} : frontier'[g] = frontier[g]
    BY <1>3, <1>t DEF PostContent, PostTransition, Acked, Unacked
  <2>3. OpenRead(h)'
    BY <1>0, <2>2 DEF callVars, OpenRead
  <2>4. KnowsArchived(h)'
    <3>1. reader'[h].records = 0
      BY <1>0, <2>2 DEF callVars, OpenRead
    <3>2. ~tainted' /\ lifecycle'[h] = "archived" => viewAt'[Len(log')].life = "archived"
      BY <1>0, <2>1, <2>2, StreamStep DEF KnowsArchived
    <3> QED BY <2>2, <3>1, <3>2, FreshKnows DEF callVars
  <2> QED BY <2>1, <2>2, <2>3, <2>4, <1>m DEF Still, Quiet, callVars
<1>4. ASSUME NEW h \in Handles,
             BeginMaterialise(h) \/ BeginRollup(h) \/ BeginArchive(h) \/ BeginFollow(h)
      PROVE  CallsSound'
  <2>1. /\ UNCHANGED serverVars /\ UNCHANGED handleVars /\ UNCHANGED attempt /\ pc[h] = "idle"
        /\ \A g \in Handles \ {h} :
             pc'[g] = pc[g] /\ call'[g] = call[g] /\ reader'[g] = reader[g]
        /\ \/ pc'[h] = "draining" /\ reader'[h] = NewReader(Len(log))
           \/ pc'[h] = "following" /\ call'[h] = "follow" /\ reader'[h] = NewReader(first)
    BY <1>0, <1>4 DEF BeginMaterialise, BeginRollup, BeginArchive, BeginFollow, Begin, TypeOK
  <2>2. Len(log) >= 1 /\ first >= 1 /\ first' = first
    BY <1>0, <2>1 DEF TypeOK, serverVars
  <2>3. OpenRead(h)'
    BY <1>0, <2>1, <2>2 DEF OpenRead, handleVars
  <2>4. KnowsArchived(h)'
    <3>1. ~tainted' /\ lifecycle'[h] = "archived" => viewAt'[Len(log')].life = "archived"
      BY <1>0, <2>1 DEF KnowsArchived, serverVars, handleVars
    <3>2. reader'[h].records = 0 /\ pc'[h] # "drained"
      BY <1>0, <2>1
    <3> QED BY <3>1, <3>2, FreshKnows
  <2> QED BY <2>1, <2>3, <2>4, <1>m DEF Still, Quiet, handleVars
<1>5. ASSUME NEW h \in Handles, BeginClose(h) PROVE CallsSound'
  <2>1. Grows
    BY <1>5, <1>g, <1>t DEF BeginClose, Lifecycles
  <2>2. /\ pc'[h] = "draining" /\ reader'[h] = NewReader(Len(log) + 1)
        /\ lifecycle'[h] = "closed" /\ attempt' = attempt /\ pc[h] = "idle"
        /\ \A g \in Handles \ {h} : Still(g)
    BY <1>0, <1>5 DEF BeginClose, Acked, Still, Quiet, TypeOK
  <2>3. Len(log) + 1 >= 1
    BY <1>0 DEF TypeOK
  <2>4. OpenRead(h)'
    BY <1>0, <2>2, <2>3 DEF OpenRead
  <2>5. KnowsArchived(h)'
    BY <1>0, <2>2, FreshKnows
  <2> QED BY <2>1, <2>2, <2>4, <2>5, <1>m
<1>6. ASSUME NEW h \in Handles, Read(h) PROVE CallsSound'
  <2> DEFINE q == Deliver(reader[h])
  <2>1. /\ UNCHANGED serverVars /\ UNCHANGED handleVars /\ UNCHANGED <<call, attempt>>
        /\ pc[h] = "draining" /\ reader[h].pos < Len(log)
        /\ reader'[h] = q /\ pc'[h] = IF q.pos = Len(log) THEN "drained" ELSE "draining"
        /\ \A g \in Handles \ {h} : pc'[g] = pc[g] /\ reader'[g] = reader[g]
    BY <1>0, <1>6 DEF Read, TypeOK
  <2>2. \A g \in Handles \ {h} : Still(g)
    BY <2>1 DEF Still, Quiet, handleVars
  <2>3. q.since = reader[h].since
    BY DEF Deliver
  <2>4. OpenRead(h)'
    BY <1>0, <2>1, <2>3 DEF OpenRead, handleVars
  <2>5. ~tainted /\ Life(q.replay) = "archived" => viewAt[q.pos].life = "archived"
    BY <2>1, DeliverKnows
  <2> HIDE DEF q
  <2>6. KnowsArchived(h)'
    BY <1>0, <2>1, <2>5 DEF KnowsArchived, serverVars, handleVars
  <2> QED BY <2>1, <2>2, <2>4, <2>6, <1>m
<1>7. ASSUME NEW h \in Handles, ReadLive(h) PROVE CallsSound'
  <2> DEFINE q == Deliver(reader[h])
  <2>1. /\ UNCHANGED serverVars /\ UNCHANGED <<pc, call, attempt>>
        /\ pc[h] = "following" /\ reader[h].pos < Len(log)
        /\ reader'[h] = q /\ lifecycle'[h] \in {lifecycle[h], View(q.replay).life}
        /\ \A g \in Handles \ {h} : /\ reader'[g] = reader[g]
                                    /\ frontier'[g] = frontier[g] /\ lifecycle'[g] = lifecycle[g]
    BY <1>0, <1>7 DEF ReadLive, Adopt, handleVars, TypeOK
  <2>2. \A g \in Handles \ {h} : Still(g)
    BY <2>1 DEF Still, Quiet
  <2>3. q.since = reader[h].since
    BY DEF Deliver
  <2>4. OpenRead(h)'
    BY <1>0, <2>1, <2>3 DEF OpenRead, serverVars
  <2>5. ~tainted /\ Life(q.replay) = "archived" => viewAt[q.pos].life = "archived"
    BY <2>1, DeliverKnows
  <2>6. ~tainted /\ Life(q.replay) = "archived" => viewAt[Len(log)].life = "archived"
    <3>1. q.pos \in 1 .. Len(log) /\ Len(viewAt) = Len(log) /\ Len(log) \in 1 .. Len(log)
      BY <1>0, <2>1, DeliverType DEF IInv, SoundHistory, TypeOK
    <3> HIDE DEF q
    <3> QED BY <2>5, <3>1 DEF CallsSound, ArchivedStands
  <2> HIDE DEF q
  <2>7. View(q.replay).life = Life(q.replay)
    BY DEF View
  <2>8. KnowsArchived(h)'
    BY <1>0, <2>1, <2>5, <2>6, <2>7 DEF KnowsArchived, serverVars
  <2> QED BY <2>1, <2>2, <2>4, <2>8, <1>m
<1>8. ASSUME NEW h \in Handles, FinishMaterialise(h) \/ ArchiveAgain(h) \/ ArchiveAdopts(h)
      PROVE  CallsSound'
  <2>1. pc[h] = "drained" /\ reader[h].records > 0
    BY <1>8 DEF FinishMaterialise, ArchiveAgain, ArchiveAdopts, Drained, IInv, SoundHandle
  <2>2. /\ UNCHANGED serverVars /\ \A g \in Handles \ {h} : Still(g)
        /\ lifecycle'[h] = View(reader[h].replay).life
    BY <1>0, <1>8 DEF FinishMaterialise, ArchiveAgain, ArchiveAdopts, Adopt, Return, Drain,
                      Still, Quiet, TypeOK
  <2>3. ~tainted /\ lifecycle'[h] = "archived" => viewAt[Len(log)].life = "archived"
    BY <2>1, <2>2, ReplayKnows
  <2>4. CASE FinishMaterialise(h)
    <3>1. pc'[h] = "idle" /\ reader'[h] = NoReader /\ attempt'[h] = 0
      BY <1>0, <2>4 DEF FinishMaterialise, Return, TypeOK
    <3> QED BY <1>0, <1>m, <2>2, <2>3, <3>1, FreshKnows DEF OpenRead, serverVars
  <2>5. CASE ArchiveAgain(h)
    <3>1. /\ pc'[h] = "draining" /\ reader'[h] = NewReader(reader[h].since)
          /\ lifecycle'[h] = "archived" /\ call'[h] = "archive"
      BY <1>0, <2>2, <2>5 DEF ArchiveAgain, Drain, Drained, TypeOK
    <3>2. OpenRead(h)'
      BY <1>0, <2>1, <3>1 DEF OpenRead
    <3> QED BY <1>0, <1>m, <2>2, <2>3, <3>1, <3>2, FreshKnows DEF serverVars
  <2>6. CASE ArchiveAdopts(h)
    <3>1. /\ pc'[h] = "shelving" /\ UNCHANGED <<call, attempt, reader>>
          /\ call[h] = "archive" /\ attempt[h] = 0 /\ lifecycle'[h] # "archived"
      BY <1>0, <2>2, <2>6 DEF ArchiveAdopts, Drained, TypeOK
    <3>2. OpenRead(h)' /\ KnowsArchived(h)'
      BY <1>0, <2>1, <2>2, <3>1 DEF OpenRead, KnowsArchived, serverVars
    <3> QED BY <1>m, <2>2, <3>2
  <2> QED BY <1>8, <2>4, <2>5, <2>6
<1>9. ASSUME NEW h \in Handles, ArchiveTransition(h) PROVE CallsSound'
  <2> DEFINE op == Transition("archived", frontier[h])
  <2>1. Grows /\ Accept(op) /\ op \in Op
    BY <1>9, <1>g, <1>t DEF ArchiveTransition, Lifecycles
  <2>2. \A g \in Handles \ {h} : Still(g)
    BY <1>0, <1>9 DEF ArchiveTransition, Acked, Unacked, Drain, Return, Still, Quiet, TypeOK
  <2>3. lifecycle[h] # "archived" /\ attempt[h] = 0 /\ reader[h].since >= 1
    BY <1>0, <1>9 DEF ArchiveTransition, OpenRead, TypeOK
  <2>4. \/ /\ pc'[h] = "draining" /\ reader'[h] = NewReader(reader[h].since)
           /\ lifecycle'[h] = "archived" /\ attempt'[h] = 1 /\ call' = call
        \/ /\ pc'[h] = "idle" /\ reader'[h] = NoReader
           /\ lifecycle'[h] # "archived" /\ attempt'[h] = 0
    BY <1>0, <1>9, <2>3 DEF ArchiveTransition, Drain, Return, TypeOK
  <2>5. ~tainted' => viewAt'[Len(log')].life = "archived"
    <3>1. log'[Len(log')] = op
      BY <1>0, <2>1 DEF Accept, TypeOK
    <3>2. viewAt[Len(log)] \in Views
      BY <2>1, Growth
    <3>3. op.kind = "transition" /\ op.to = "archived"
      BY DEF Transition
    <3> HIDE DEF op
    <3> QED BY <2>1, <3>1, <3>2, <3>3, Growth, ViewStaysArchived
  <2>6. KnowsArchived(h)'
    BY <1>0, <2>4, <2>5, FreshKnows
  <2>7. call[h] = "archive"
    BY <1>0, <1>9 DEF ArchiveTransition, OpenRead
  <2>8. OpenRead(h)'
    BY <1>0, <2>3, <2>4, <2>7 DEF OpenRead
  <2> QED BY <1>m, <2>1, <2>2, <2>6, <2>8
<1>10. ASSUME NEW h \in Handles,
              RollupDeclined(h) \/ PublishFails(h) \/ Interrupt(h) \/ Crash(h)
       PROVE  CallsSound'
  <2>1. /\ UNCHANGED serverVars /\ \A g \in Handles \ {h} : Still(g)
        /\ pc'[h] = "idle" /\ reader'[h] = NoReader /\ attempt'[h] = 0
        /\ lifecycle'[h] \in {lifecycle[h], "unobserved"}
    BY <1>0, <1>10 DEF RollupDeclined, PublishFails, Interrupt, Crash, Return, Still, Quiet,
                       handleVars, TypeOK
  <2>2. OpenRead(h)'
    BY <2>1 DEF OpenRead
  <2>3. ~tainted' /\ lifecycle'[h] = "archived" => viewAt'[Len(log')].life = "archived"
    BY <1>0, <2>1 DEF KnowsArchived, serverVars
  <2> QED BY <1>0, <1>m, <2>1, <2>2, <2>3, FreshKnows
<1>11. ASSUME NEW h \in Handles, RollupLost(h) PROVE CallsSound'
  <2>1. /\ UNCHANGED serverVars /\ UNCHANGED handleVars /\ \A g \in Handles \ {h} : Still(g)
        /\ \/ /\ call[h] = "archive" /\ call' = call
              /\ pc'[h] = "draining" /\ reader'[h] = NewReader(reader[h].since)
              /\ attempt[h] > 0
           \/ pc'[h] = "idle" /\ reader'[h] = NoReader /\ attempt'[h] = 0
    BY <1>0, <1>11 DEF RollupLost, Publishing, Compacting, Drain, Return, Still, Quiet,
                       handleVars, TypeOK
  <2>2. pc[h] = "drained"
    BY <1>11 DEF RollupLost, Publishing, Compacting
  <2>3. OpenRead(h)'
    BY <1>0, <2>1, <2>2 DEF OpenRead, handleVars
  <2>4. ~tainted' /\ lifecycle'[h] = "archived" => viewAt'[Len(log')].life = "archived"
    BY <1>0, <2>1 DEF KnowsArchived, serverVars, handleVars
  <2>5. pc'[h] # "drained"
    BY <2>1
  <2> QED BY <1>0, <1>m, <2>1, <2>3, <2>4, <2>5, FreshKnows
<1>12. ASSUME NEW h \in Handles, RollupCommits(h) PROVE CallsSound'
  <2>1. Replace(h) /\ pc[h] = "drained" /\ reader[h].records > 0
    BY <1>12 DEF RollupCommits, Publishing, Compacting, IInv, SoundHandle
  <2>2. Grows
    <3>1. Checkpoint(View(reader[h].replay)) \in Op
      BY <1>0, ViewType, CheckpointType DEF TypeOK, Readers
    <3> QED BY <1>0, <2>1, <3>1 DEF Replace, Grows, IInv, TypeOK
  <2>3. /\ \A g \in Handles \ {h} : Still(g)
        /\ pc'[h] = "idle" /\ reader'[h] = NoReader /\ attempt'[h] = 0
        /\ lifecycle'[h] \in {lifecycle[h], View(reader[h].replay).life}
    BY <1>0, <1>12 DEF RollupCommits, Adopt, Return, Still, Quiet, handleVars, TypeOK
  <2>4. OpenRead(h)'
    BY <2>3 DEF OpenRead
  <2>5. ~tainted' /\ lifecycle'[h] = "archived" => viewAt'[Len(log')].life = "archived"
    <3>1. ASSUME ~tainted', lifecycle'[h] = "archived" PROVE viewAt[Len(log)].life = "archived"
      <4>1. ~tainted
        BY <3>1, <2>2 DEF Grows
      <4>2. CASE lifecycle[h] = "archived"
        BY <1>0, <4>1, <4>2 DEF KnowsArchived
      <4>3. CASE View(reader[h].replay).life = "archived"
        BY <2>1, <4>1, <4>3, ReplayKnows
      <4> QED BY <2>3, <3>1, <4>2, <4>3
    <3> QED BY <2>2, <3>1, StreamStep
  <2> QED BY <1>0, <1>m, <2>2, <2>3, <2>4, <2>5, FreshKnows
<1> QED
  BY <1>1, <1>2, <1>3, <1>4, <1>5, <1>6, <1>7, <1>8, <1>9, <1>10, <1>11, <1>12
  DEF Next, Step

(* Every reachable state satisfies both invariants.                        *)
THEOREM CallsAreSound == Spec => [](IInv /\ CallsSound)
<1>1. Init => IInv /\ CallsSound
  BY InitSound, InitCalls
<1>2. IInv /\ CallsSound /\ [Next]_vars => (IInv /\ CallsSound)'
  BY NextSound, NextCalls
<1> QED BY <1>1, <1>2, PTL DEF Spec

-----------------------------------------------------------------------------
(* What follows.                                                           *)

(* However its compactions lose and restart, an Archive that gets to its   *)
(* final compaction has drained a log that says archived.                  *)
THEOREM ArchivalIsVisible == Spec => []ArchiveSeesArchived
<1>1. IInv /\ CallsSound => ArchiveSeesArchived
  BY DrainKnows DEF CallsSound, OpenRead, ArchiveSeesArchived, Drained, View
<1> QED BY <1>1, CallsAreSound, PTL

(* A handle that saw the topic archived goes on refusing posts, whatever   *)
(* it reads and compacts later and whoever else compacts meanwhile.        *)
THEOREM RefusalsStick == Spec => RefusalSticks
<1> DEFINE A == \A h \in Handles :
                  lifecycle[h] = "archived" /\ call[h] # "follow" /\ ~reader[h].torn /\ ~tainted'
                    => lifecycle'[h] \in {"archived", "unobserved"}
<1>1. ASSUME IInv, CallsSound, Next, NEW h \in Handles, ~tainted',
             lifecycle[h] = "archived", call[h] # "follow", ~reader[h].torn
      PROVE  lifecycle'[h] \in {"archived", "unobserved"}
  <2>1. /\ lifecycle \in [Handles -> Lifecycles \cup {"unobserved"}]
        /\ OpenRead(h)
    BY <1>1 DEF IInv, TypeOK, CallsSound
  <2>2. pc[h] = "drained" => View(reader[h].replay).life = "archived"
    <3>1. ~tainted
      BY <1>1, ConstantsAssumption
      DEF Next, Step, PublishGarbage, PostContent, PostTransition, BeginMaterialise, BeginRollup,
          BeginArchive, BeginFollow, BeginClose, Read, ReadLive, FinishMaterialise, ArchiveAgain,
          ArchiveAdopts, ArchiveTransition, RollupDeclined, RollupLost, RollupCommits,
          PublishFails, Interrupt, Crash, Accept, Replace, serverVars
    <3> QED BY <1>1, <3>1, DrainKnows
  <2>3. CASE UNCHANGED lifecycle
    BY <1>1, <2>3
  <2>4. CASE \E g \in Handles : \/ BeginClose(g) \/ ReadLive(g) \/ FinishMaterialise(g)
                                \/ ArchiveAgain(g) \/ ArchiveAdopts(g) \/ ArchiveTransition(g)
                                \/ RollupCommits(g) \/ Crash(g)
    <3>1. PICK g \in Handles : \/ BeginClose(g) \/ ReadLive(g) \/ FinishMaterialise(g)
                               \/ ArchiveAgain(g) \/ ArchiveAdopts(g) \/ ArchiveTransition(g)
                               \/ RollupCommits(g) \/ Crash(g)
      BY <2>4
    <3>2. CASE g # h
      BY <1>1, <2>1, <3>1, <3>2
      DEF BeginClose, ReadLive, FinishMaterialise, ArchiveAgain, ArchiveAdopts,
          ArchiveTransition, RollupCommits, Crash, Adopt, handleVars
    <3>3. CASE g = h
      BY <1>1, <2>1, <2>2, <3>1, <3>3
      DEF BeginClose, ReadLive, FinishMaterialise, ArchiveAgain, ArchiveAdopts, Drained,
          Publishing, Compacting, ArchiveTransition, RollupCommits, Crash, Adopt, handleVars,
          OpenRead
    <3> QED BY <3>2, <3>3
  <2> QED
    BY <1>1, <2>3, <2>4
    DEF Next, Step, PublishGarbage, PostContent, PostTransition, BeginMaterialise, BeginRollup,
        BeginArchive, BeginFollow, Read, RollupDeclined, RollupLost, PublishFails, Interrupt,
        handleVars
<1>2. IInv /\ CallsSound /\ [Next]_vars => [A]_vars
  BY <1>1
<1> QED BY <1>2, CallsAreSound, PTL DEF Spec, RefusalSticks

-----------------------------------------------------------------------------
(* TopicLog implements Topic. What the mapping makes of the handles:       *)
Observed == [h \in Handles |-> [frontier |-> frontier[h], life |-> lifecycle[h]]]

Since == [h \in Handles |-> reader[h].since]

Overlaps(r) == r.torn \/ (r.records > 0 /\ r.pos + 1 < first)

Overlapped == [h \in Handles |->
                 reader[h].torn \/ (reader[h].records > 0 /\ reader[h].pos + 1 < first)]

(* Topic speaks of the same operations and views.                          *)
LEMMA SameTerms ==
  /\ Promise!Lifecycles = Lifecycles
  /\ \A parents : Promise!Content(parents) = Content(parents)
  /\ \A to, parents : Promise!Transition(to, parents) = Transition(to, parents)
  /\ \A v, id, op : Promise!ViewAfter(v, id, op) = ViewAfter(v, id, op)
<1>1. \A life, to : Promise!LifeAfter(life, to) = LifeAfter(life, to)
  BY DEF Promise!LifeAfter, LifeAfter
<1>2. \A v, id, op : Promise!ViewAfter(v, id, op) = ViewAfter(v, id, op)
  BY <1>1 DEF Promise!ViewAfter, ViewAfter
<1> QED
  BY <1>2 DEF Promise!Lifecycles, Lifecycles, Promise!Content, Content,
              Promise!Transition, Transition

(* The steps of Topic, over what the mapping makes of the state.           *)
LEMMA TopicTerms ==
  ASSUME NEW h
  PROVE  /\ Promise!Robbed(h) <=> Overlapped[h] \/ ~ ~tainted
         /\ Promise!Learnable(h)
              = IF Promise!Robbed(h) THEN [frontier : SUBSET (1 .. Len(viewAt)), life : Lifecycles]
                ELSE {Promise!Observation(viewAt[s]) : s \in Since[h] .. Len(viewAt)}
BY SameTerms
DEF Promise!Robbed, Promise!Learnable, Promise!accepted, Overlapped, Since

(* A handle that moves to a frontier and a lifecycle observes them.        *)
LEMMA Observing ==
  ASSUME TypeOK, NEW h \in Handles, NEW f, NEW l,
         frontier' = [frontier EXCEPT ![h] = f],
         lifecycle' = [lifecycle EXCEPT ![h] = l]
  PROVE  Observed' = [Observed EXCEPT ![h] = [frontier |-> f, life |-> l]]
BY DEF TypeOK, Observed

(* A handle that leaves its frontier and lifecycle alone observes nothing. *)
LEMMA ObservingNothing ==
  ASSUME TypeOK, NEW h \in Handles, UNCHANGED handleVars
  PROVE  /\ frontier' = [frontier EXCEPT ![h] = frontier[h]]
         /\ lifecycle' = [lifecycle EXCEPT ![h] = lifecycle[h]]
BY DEF TypeOK, handleVars

(* One reader moves, and nothing is purged.                                *)
LEMMA ReaderMoves ==
  ASSUME TypeOK, first' = first, NEW h \in Handles, NEW r \in Readers,
         reader' = [reader EXCEPT ![h] = r]
  PROVE  /\ Since' = [Since EXCEPT ![h] = r.since]
         /\ Since[h] = reader[h].since
         /\ ~Overlaps(r) => Overlapped' = [Overlapped EXCEPT ![h] = FALSE]
         /\ (Overlaps(r) <=> Overlaps(reader[h])) => Overlapped' = Overlapped
<1>1. Overlapped' = [Overlapped EXCEPT ![h] = Overlaps(r)] /\ Overlapped[h] = Overlaps(reader[h])
  BY DEF TypeOK, Overlaps, Overlapped
<1>2. Since' = [Since EXCEPT ![h] = r.since] /\ Since[h] = reader[h].since
  BY DEF TypeOK, Since
<1>3. ASSUME ~Overlaps(r) PROVE Overlapped' = [Overlapped EXCEPT ![h] = FALSE]
  <2>1. Overlaps(r) = FALSE
    BY <1>3 DEF Overlaps
  <2> QED BY <1>1, <2>1, Zenon
<1>4. ASSUME Overlaps(r) <=> Overlaps(reader[h]) PROVE Overlapped' = Overlapped
  <2>1. Overlaps(r) = Overlaps(reader[h])
    BY <1>4 DEF Overlaps
  <2>2. Overlapped' = [Overlapped EXCEPT ![h] = Overlapped[h]]
    BY <1>1, <2>1, Zenon
  <2> QED BY <2>2 DEF Overlapped
<1> QED BY <1>2, <1>3, <1>4

(* A reader is not overlapped as it begins                                 *)
LEMMA FreshReads == ~Overlaps(NoReader) /\ \A n : ~Overlaps(NewReader(n))
BY DEF Overlaps, NoReader, NewReader

(* and, reading on, only if it was before.                                 *)
LEMMA ReadingOn ==
  ASSUME TypeOK, NEW r \in Readers, r.pos < Len(log)
  PROVE  Overlaps(Deliver(r)) <=> Overlaps(r)
<1> DEFINE s == NextSeq(r)
           torn == r.torn \/ (r.records > 0 /\ s # r.pos + 1)
           q == Deliver(r)
<1>1. q.pos = s /\ q.torn = torn
  BY DEF Deliver, Readers
<1>2. /\ s \in Nat /\ s + 1 > first /\ first \in Nat /\ r.pos \in Nat
      /\ q.torn \in BOOLEAN /\ r.torn \in BOOLEAN
  BY DeliverType DEF TypeOK, Readers
<1>3. Overlaps(q) <=> q.torn
  BY <1>1, <1>2 DEF Overlaps
<1>4. s # r.pos + 1 <=> r.pos + 1 < first
  BY <1>2 DEF NextSeq
<1>5. Overlaps(r) <=> torn
  BY <1>4 DEF Overlaps
<1> QED BY <1>1, <1>3, <1>5

(* What the view of a sound reader that is no older than its call tells    *)
(* the handle is what its open read may tell it.                           *)
LEMMA ViewIsLearnable ==
  ASSUME IInv, NEW h \in Handles, NEW q \in Readers, SoundReader(q), q.records > 0,
         q.pos >= reader[h].since, q.torn => Overlaps(reader[h])
  PROVE  [frontier |-> View(q.replay).frontier, life |-> View(q.replay).life]
           \in Promise!Learnable(h)
<1>1. /\ q.pos \in Nat /\ q.pos <= Len(log) /\ Len(viewAt) = Len(log) /\ Len(log) \in Nat
      /\ reader[h].since \in Nat /\ q.replay \in Replay /\ tainted \in BOOLEAN
  BY DEF IInv, TypeOK, SoundHistory, SoundReader, Readers
<1>2. ~q.torn /\ ~tainted => View(q.replay) = viewAt[q.pos]
  BY DEF SoundReader
<1>3. View(q.replay).life \in Lifecycles
  BY <1>1, ViewType DEF Views
<1>4. View(q.replay).frontier \subseteq 1 .. Len(viewAt)
  <2>1. View(q.replay).frontier \subseteq Plain(log, q.pos)
    BY DEF SoundReader, SoundReplay, SoundView
  <2>2. Plain(log, q.pos) \subseteq 1 .. Len(log)
    BY <1>1 DEF Plain
  <2> QED BY <1>1, <2>1, <2>2
<1>5. CASE Promise!Robbed(h)
  BY <1>3, <1>4, <1>5, TopicTerms
<1>6. CASE ~Promise!Robbed(h)
  <2>1. ~Overlaps(reader[h]) /\ ~tainted
    BY <1>1, <1>6, TopicTerms DEF Overlapped, Overlaps
  <2>2. View(q.replay) = viewAt[q.pos] /\ q.pos \in Since[h] .. Len(viewAt)
    BY <1>1, <1>2, <2>1 DEF Since
  <2>3. [frontier |-> View(q.replay).frontier, life |-> View(q.replay).life]
          = Promise!Observation(viewAt[q.pos])
    BY <2>2 DEF Promise!Observation
  <2>4. Promise!Learnable(h)
          = {Promise!Observation(viewAt[s]) : s \in Since[h] .. Len(viewAt)}
    BY <1>6, TopicTerms, Zenon
  <2>5. Promise!Observation(viewAt[q.pos])
          \in {Promise!Observation(viewAt[s]) : s \in Since[h] .. Len(viewAt)}
    BY <2>2, Zenon
  <2> QED BY <2>3, <2>4, <2>5, Zenon
<1> QED BY <1>5, <1>6

(* Steps within an open read, and the end of one.                          *)
LEMMA LearnsStep ==
  ASSUME IInv, CallsSound, UNCHANGED serverVars, NEW h \in Handles, pc[h] # "idle",
         NEW r \in Readers, reader' = [reader EXCEPT ![h] = r],
         r.since \in {0, reader[h].since}, ~Overlaps(r) \/ (Overlaps(r) <=> Overlaps(reader[h])),
         NEW f, frontier' = [frontier EXCEPT ![h] = f],
         NEW l, lifecycle' = [lifecycle EXCEPT ![h] = l],
         [frontier |-> f, life |-> l]
           \in {[frontier |-> frontier[h], life |-> lifecycle[h]]} \cup Promise!Learnable(h)
  PROVE  Promise!Learns(h)
<1>1. TypeOK /\ first' = first /\ viewAt' = viewAt /\ tainted' = tainted
  BY DEF IInv, serverVars
<1>2. /\ Since' = [Since EXCEPT ![h] = r.since] /\ Since[h] = reader[h].since
      /\ ~Overlaps(r) => Overlapped' = [Overlapped EXCEPT ![h] = FALSE]
      /\ (Overlaps(r) <=> Overlaps(reader[h])) => Overlapped' = Overlapped
  BY <1>1, ReaderMoves
<1>3. Since[h] # 0
  BY <1>1, <1>2 DEF CallsSound, OpenRead, TypeOK, Readers
<1>4. Observed[h] = [frontier |-> frontier[h], life |-> lifecycle[h]]
  BY DEF Observed
<1>5. \E o \in {Observed[h]} \cup Promise!Learnable(h) : Observed' = [Observed EXCEPT ![h] = o]
  <2> DEFINE o == [frontier |-> f, life |-> l]
  <2>1. Observed' = [Observed EXCEPT ![h] = o]
    BY <1>1, Observing
  <2>2. o \in {Observed[h]} \cup Promise!Learnable(h)
    BY <1>4
  <2> HIDE DEF o
  <2> QED BY <2>1, <2>2
<1>6. /\ \E s \in {0, Since[h]} : Since' = [Since EXCEPT ![h] = s]
      /\ \E b \in {FALSE, Overlapped[h]} : Overlapped' = [Overlapped EXCEPT ![h] = b]
  <2>1. Overlapped = [Overlapped EXCEPT ![h] = Overlapped[h]]
    BY DEF Overlapped
  <2> QED BY <1>2, <2>1
<1>7. UNCHANGED <<viewAt, ~tainted>>
  BY <1>1
<1> QED BY <1>3, <1>5, <1>6, <1>7 DEF Promise!Learns, Promise!Learn, Since, Overlapped, Observed

(* Steps that write.                                                       *)
LEMMA WriteStep ==
  ASSUME IInv, CallsSound, NEW h \in Handles, lifecycle[h] # "archived",
         NEW op \in {Content(frontier[h])} \cup {Transition(to, frontier[h]) : to \in Lifecycles},
         Accept(op),
         NEW r \in Readers, reader' = [reader EXCEPT ![h] = r],
         r.since \in {0, reader[h].since, Len(log) + 1}, ~Overlaps(r),
         NEW f \in {frontier[h], {Len(log) + 1}}, frontier' = [frontier EXCEPT ![h] = f],
         NEW l \in {lifecycle[h], "closed", "archived"},
         lifecycle' = [lifecycle EXCEPT ![h] = l]
  PROVE  Promise!Write(h)
<1>1. /\ TypeOK /\ first' = first /\ tainted' = tainted
      /\ Len(viewAt) = Len(log) /\ Len(log) \in Nat
      /\ viewAt' = Append(viewAt, View(Apply(cold, Len(log) + 1, op)))
  BY DEF IInv, TypeOK, SoundHistory, Accept
<1>2. /\ Since' = [Since EXCEPT ![h] = r.since] /\ Since[h] = reader[h].since
      /\ Overlapped' = [Overlapped EXCEPT ![h] = FALSE]
  BY <1>1, ReaderMoves
<1>3. Observed[h] = [frontier |-> frontier[h], life |-> lifecycle[h]]
  BY DEF Observed
<1>4. \E o \in [frontier : {Observed[h].frontier, {Len(viewAt) + 1}},
                life : {Observed[h].life, "closed", "archived"}] :
        Observed' = [Observed EXCEPT ![h] = o]
  <2>1. Observed' = [Observed EXCEPT ![h] = [frontier |-> f, life |-> l]]
    BY <1>1, Observing
  <2>2. Observed[h].frontier = frontier[h] /\ Observed[h].life = lifecycle[h]
    BY <1>3
  <2>3. /\ f \in {Observed[h].frontier, {Len(viewAt) + 1}}
        /\ l \in {Observed[h].life, "closed", "archived"}
    BY <1>1, <2>2
  <2>4. [frontier |-> f, life |-> l]
          \in [frontier : {Observed[h].frontier, {Len(viewAt) + 1}},
              life : {Observed[h].life, "closed", "archived"}]
    BY <2>3
  <2> QED BY <2>1, <2>4
<1>5. View(Apply(cold, Len(log) + 1, op)) = ViewAfter(viewAt[Len(viewAt)], Len(viewAt) + 1, op)
  <2>1. /\ SoundReplay(log, cold, Len(log)) /\ cold \in Replay
        /\ viewAt[Len(log)] = View(cold) /\ frontier[h] \subseteq Plain(log, Len(log))
    BY DEF IInv, SoundHistory, SoundHandle, TypeOK
  <2>2. op.parents = frontier[h] /\ op.kind # "baseline"
    BY DEF Content, Transition
  <2>3. op.parents \subseteq 1 .. Len(log)
    BY <2>1, <2>2 DEF Plain
  <2>4. op \in Op
    BY <1>1, PostedTypes DEF TypeOK, Lifecycles
  <2>5. cold.seen \subseteq 1 .. Len(log) /\ cold.referenced \subseteq 1 .. Len(log)
    BY <2>1 DEF SoundReplay
  <2>6. View(Apply(cold, Len(log) + 1, op)) = ViewAfter(View(cold), Len(log) + 1, op)
    BY <1>1, <2>1, <2>2, <2>3, <2>4, <2>5, ViewOfApply
  <2> QED BY <1>1, <2>1, <2>6
<1>6. /\ viewAt' = Append(viewAt, ViewAfter(viewAt[Len(viewAt)], Len(viewAt) + 1, op))
      /\ Len(viewAt') = Len(viewAt) + 1
  BY <1>1, <1>5 DEF TypeOK
<1>7. op \in {Content(Observed[h].frontier)}
             \cup {Transition(to, Observed[h].frontier) : to \in Lifecycles}
  BY <1>3
<1>8. Observed[h].life # "archived"
  BY <1>3
<1>9. \E s \in {0, Since[h], Len(viewAt) + 1} : Since' = [Since EXCEPT ![h] = s]
  BY <1>1, <1>2
<1>10. UNCHANGED ~tainted
  BY <1>1
<1>11. \E o \in {Promise!Content(Observed[h].frontier)}
                 \cup {Promise!Transition(to, Observed[h].frontier) : to \in Promise!Lifecycles} :
         viewAt' = Append(viewAt, Promise!ViewAfter(viewAt[Len(viewAt)], Len(viewAt) + 1, o))
  BY <1>6, <1>7, SameTerms
<1> QED
  BY <1>2, <1>4, <1>6, <1>8, <1>9, <1>10, <1>11
  DEF Promise!Write, Promise!Learn, Promise!accepted, Promise!view, Since, Overlapped, Observed

(* The initial states of TopicLog are initial states of Topic.             *)
LEMMA InitPromise == Init => Promise!Init
<1> SUFFICES ASSUME Init PROVE Promise!Init
  OBVIOUS
<1>1. Promise!View(Promise!Seed(1, Promise!Birth)) = View(Seed(1, Birth))
  BY DEF Promise!View, Promise!Life, Promise!Seed, Promise!Birth, Promise!Baseline,
         View, Life, Seed, Birth, Baseline
<1>2. viewAt = <<View(Seed(1, Birth))>> /\ (~tainted) = TRUE
  BY DEF Init
<1>3. Since = [h \in Handles |-> 0] /\ Overlapped = [h \in Handles |-> FALSE]
  <2>1. \A h \in Handles : reader[h] = NoReader
    BY DEF Init
  <2>2. NoReader.since = 0 /\ NoReader.torn = FALSE /\ ~(NoReader.records > 0)
    BY DEF NoReader
  <2>3. Since = [h \in Handles |-> 0]
    BY <2>1, <2>2 DEF Since
  <2>4. \A h \in Handles :
          (reader[h].torn \/ (reader[h].records > 0 /\ reader[h].pos + 1 < first)) = FALSE
    BY <2>1, <2>2
  <2> QED BY <2>3, <2>4 DEF Overlapped
<1>4. Observed \in [Handles -> {Promise!Unread, [Promise!Unread EXCEPT !.frontier = {1}]}]
  <2>1. /\ Promise!Unread = [frontier |-> {}, life |-> "unobserved"]
        /\ [Promise!Unread EXCEPT !.frontier = {1}] = [frontier |-> {1}, life |-> "unobserved"]
    BY DEF Promise!Unread
  <2>2. \A h \in Handles : frontier[h] \in {{}, {1}} /\ lifecycle[h] = "unobserved"
    BY DEF Init
  <2>3. \A h \in Handles :
          [frontier |-> frontier[h], life |-> lifecycle[h]]
            \in {Promise!Unread, [Promise!Unread EXCEPT !.frontier = {1}]}
    BY <2>1, <2>2
  <2> QED BY <2>3 DEF Observed
<1> QED BY <1>1, <1>2, <1>3, <1>4 DEF Promise!Init, Since, Overlapped, Observed

(* Every step of TopicLog is a step of Topic, or changes nothing Topic     *)
(* speaks of.                                                              *)
LEMMA NextPromise == IInv /\ CallsSound /\ [Next]_vars => [Promise!Next]_(Promise!topicVars)
<1> SUFFICES ASSUME IInv, CallsSound, [Next]_vars
             PROVE  [Promise!Next]_(Promise!topicVars)
  OBVIOUS
<1>0. /\ TypeOK /\ Len(viewAt) = Len(log) /\ Len(log) \in Nat \ {0}
      /\ first \in 1 .. Len(log) /\ first \in Nat
  BY DEF IInv, TypeOK, SoundHistory
<1>h. \A h \in Handles : OpenRead(h) /\ SoundHandle(h) /\ reader[h] \in Readers
  BY DEF IInv, TypeOK, CallsSound
<1>n. NoReader \in Readers /\ NoReader.since = 0 /\ ~Overlaps(NoReader)
  BY ReaderTypes, FreshReads DEF NoReader
<1>f. ASSUME NEW n \in Nat
      PROVE  NewReader(n) \in Readers /\ NewReader(n).since = n /\ ~Overlaps(NewReader(n))
  BY ReaderTypes, FreshReads DEF NewReader, NoReader
<1>u. ASSUME UNCHANGED <<viewAt, tainted, Since, Overlapped, Observed>>
      PROVE  [Promise!Next]_(Promise!topicVars)
  BY <1>u DEF Promise!topicVars, Since, Overlapped, Observed
<1>1. CASE UNCHANGED vars
  BY <1>1, <1>u DEF vars, serverVars, handleVars, callVars, Since, Overlapped, Observed
<1>2. CASE PublishGarbage
  <2>1. viewAt' = Append(viewAt, viewAt[Len(viewAt)])
    <3>1. Apply(cold, Len(log) + 1, Unreadable) = cold
      BY DEF Apply, Unreadable, Content
    <3>2. viewAt' = Append(viewAt, View(cold))
      BY <1>2, <3>1 DEF PublishGarbage, Accept
    <3> QED BY <3>2 DEF IInv, SoundHistory
  <2>2. UNCHANGED <<tainted, Since, Overlapped, Observed>>
    BY <1>2 DEF PublishGarbage, Accept, handleVars, callVars, Since, Overlapped, Observed
  <2> QED BY <2>1, <2>2 DEF Promise!Next, Promise!Idle, Promise!view, Promise!accepted,
                            Since, Overlapped, Observed
<1>3. ASSUME NEW h \in Handles, PostContent(h) \/ \E to \in Targets : PostTransition(h, to)
      PROVE  Promise!Write(h)
  <2>1. PICK op \in {Content(frontier[h])} \cup {Transition(to, frontier[h]) : to \in Lifecycles} :
          Accept(op)
    BY <1>3, ConstantsAssumption DEF PostContent, PostTransition
  <2>2. /\ lifecycle[h] # "archived" /\ reader[h] = NoReader
        /\ reader' = [reader EXCEPT ![h] = NoReader]
        /\ lifecycle' = [lifecycle EXCEPT ![h] = lifecycle[h]]
    BY <1>0, <1>h, <1>3 DEF PostContent, PostTransition, callVars, OpenRead, TypeOK
  <2>3. PICK f \in {frontier[h], {Len(log) + 1}} : frontier' = [frontier EXCEPT ![h] = f]
    BY <1>0, <1>3 DEF PostContent, PostTransition, Acked, Unacked, TypeOK
  <2> QED BY <1>n, <2>1, <2>2, <2>3, WriteStep
<1>4. ASSUME NEW h \in Handles, BeginMaterialise(h) \/ BeginRollup(h) \/ BeginArchive(h)
      PROVE  Promise!Open(h)
  <2>1. /\ UNCHANGED serverVars /\ UNCHANGED handleVars /\ reader[h] = NoReader
        /\ reader' = [reader EXCEPT ![h] = NewReader(Len(log))]
    BY <1>h, <1>4 DEF BeginMaterialise, BeginRollup, BeginArchive, Begin, OpenRead
  <2>2. PICK r \in Readers : r = NewReader(Len(log)) /\ r.since = Len(log) /\ ~Overlaps(r)
    BY <1>0, <1>f
  <2>3. /\ Since[h] = 0 /\ Since' = [Since EXCEPT ![h] = Len(viewAt)] /\ Overlapped' = Overlapped
    <3>1. reader' = [reader EXCEPT ![h] = r] /\ first' = first
      BY <2>1, <2>2 DEF serverVars
    <3>2. reader[h].since = 0 /\ ~Overlaps(reader[h])
      BY <1>n, <2>1
    <3>3. Overlaps(r) <=> Overlaps(reader[h])
      BY <2>2, <3>2
    <3>4. /\ Since' = [Since EXCEPT ![h] = r.since] /\ Since[h] = reader[h].since
          /\ Overlapped' = Overlapped
      BY <1>0, <3>1, <3>3, ReaderMoves
    <3> QED BY <1>0, <2>2, <3>2, <3>4
  <2>4. UNCHANGED <<viewAt, tainted, Observed>>
    BY <2>1 DEF serverVars, handleVars, Observed
  <2> QED BY <2>3, <2>4 DEF Promise!Open, Promise!accepted, Since, Overlapped, Observed
<1>5. ASSUME NEW h \in Handles, BeginFollow(h)
      PROVE  Promise!Follow(h)
  <2>1. /\ UNCHANGED serverVars /\ UNCHANGED handleVars /\ reader[h] = NoReader
        /\ reader' = [reader EXCEPT ![h] = NewReader(first)]
    BY <1>h, <1>5 DEF BeginFollow, Begin, OpenRead
  <2>2. PICK r \in Readers : r = NewReader(first) /\ r.since = first /\ ~Overlaps(r)
    BY <1>0, <1>f
  <2>3. /\ Since[h] = 0 /\ Since' = [Since EXCEPT ![h] = first] /\ Overlapped' = Overlapped
    <3>1. reader' = [reader EXCEPT ![h] = r] /\ first' = first
      BY <2>1, <2>2 DEF serverVars
    <3>2. reader[h].since = 0 /\ ~Overlaps(reader[h])
      BY <1>n, <2>1
    <3>3. Overlaps(r) <=> Overlaps(reader[h])
      BY <2>2, <3>2
    <3>4. /\ Since' = [Since EXCEPT ![h] = r.since] /\ Since[h] = reader[h].since
          /\ Overlapped' = Overlapped
      BY <1>0, <3>1, <3>3, ReaderMoves
    <3> QED BY <1>0, <2>2, <3>2, <3>4
  <2>4. UNCHANGED <<viewAt, tainted, Observed>> /\ first \in 1 .. Len(viewAt)
    BY <1>0, <2>1 DEF serverVars, handleVars, Observed
  <2> QED BY <2>3, <2>4 DEF Promise!Follow, Promise!accepted, Since, Overlapped, Observed
<1>6. ASSUME NEW h \in Handles, BeginClose(h) PROVE Promise!Write(h)
  <2>1. /\ Accept(Transition("closed", frontier[h])) /\ lifecycle[h] # "archived"
        /\ reader' = [reader EXCEPT ![h] = NewReader(Len(log) + 1)]
        /\ lifecycle' = [lifecycle EXCEPT ![h] = "closed"]
        /\ frontier' = [frontier EXCEPT ![h] = {Len(log) + 1}]
    BY <1>6 DEF BeginClose, Acked
  <2>2. Transition("closed", frontier[h])
          \in {Content(frontier[h])} \cup {Transition(to, frontier[h]) : to \in Lifecycles}
    BY DEF Lifecycles
  <2>3. PICK r \in Readers :
          r = NewReader(Len(log) + 1) /\ r.since = Len(log) + 1 /\ ~Overlaps(r)
    BY <1>0, <1>f
  <2> QED BY <2>1, <2>2, <2>3, WriteStep
<1>7. ASSUME NEW h \in Handles, Read(h) PROVE [Promise!Next]_(Promise!topicVars)
  <2>1. /\ UNCHANGED serverVars /\ UNCHANGED handleVars /\ reader[h].pos < Len(log)
        /\ reader' = [reader EXCEPT ![h] = Deliver(reader[h])]
    BY <1>7 DEF Read
  <2>2. /\ Deliver(reader[h]) \in Readers
        /\ Overlaps(Deliver(reader[h])) <=> Overlaps(reader[h])
        /\ Deliver(reader[h]).since = reader[h].since
    <3>1. Deliver(reader[h]).since = reader[h].since
      BY DEF Deliver
    <3> QED BY <1>0, <1>h, <2>1, <3>1, DeliverType, ReadingOn
  <2>3. Since' = [Since EXCEPT ![h] = Since[h]] /\ Overlapped' = Overlapped
    <3>1. first' = first /\ Since[h] = reader[h].since
      BY <1>0, <2>1, <2>2, ReaderMoves DEF serverVars
    <3> QED BY <1>0, <2>1, <2>2, <3>1, ReaderMoves
  <2>4. Since' = Since /\ Overlapped' = Overlapped
    BY <2>3 DEF Since
  <2> QED BY <1>u, <2>1, <2>4 DEF serverVars, handleVars, Observed
<1>8. ASSUME NEW h \in Handles, ReadLive(h) PROVE Promise!Learns(h)
  <2> DEFINE q == Deliver(reader[h])
  <2>1. /\ UNCHANGED serverVars /\ reader[h].pos < Len(log) /\ pc[h] = "following"
        /\ reader' = [reader EXCEPT ![h] = q]
        /\ Adopt(h, View(q.replay)) \/ UNCHANGED handleVars
    BY <1>8 DEF ReadLive
  <2>2. /\ q \in Readers /\ (Overlaps(q) <=> Overlaps(reader[h]))
        /\ q.since = reader[h].since
        /\ SoundReader(q) /\ q.records > 0 /\ q.pos >= first
        /\ q.torn => Overlaps(reader[h])
    <3>0. q.since = reader[h].since
      BY DEF Deliver
    <3>1. /\ q \in Readers /\ (Overlaps(q) <=> Overlaps(reader[h])) /\ q.since = reader[h].since
          /\ q.pos >= first
      BY <1>0, <1>h, <2>1, <3>0, DeliverType, ReadingOn
    <3>2. SoundReader(q) /\ q.records > 0
      BY <1>h, <2>1, SoundDeliver DEF IInv, SoundHandle
    <3>3. q.torn => Overlaps(q)
      BY DEF Overlaps
    <3> HIDE DEF q
    <3> QED BY <3>1, <3>2, <3>3
  <2>3. q.pos >= reader[h].since
    <3>1. reader[h].since <= first
      BY <1>h, <2>1 DEF OpenRead
    <3> HIDE DEF q
    <3>2. q.pos \in Nat /\ reader[h].since \in Nat /\ first \in Nat
      BY <1>0, <2>2 DEF Readers
    <3> QED BY <2>2, <3>1, <3>2
  <2> HIDE DEF q
  <2>4. [frontier |-> View(q.replay).frontier, life |-> View(q.replay).life]
          \in Promise!Learnable(h)
    BY <2>2, <2>3, ViewIsLearnable
  <2>5. pc[h] # "idle" /\ (Overlaps(q) <=> Overlaps(reader[h]))
        /\ q.since \in {0, reader[h].since}
    BY <2>1, <2>2
  <2>6. CASE Adopt(h, View(q.replay))
    BY <2>1, <2>2, <2>4, <2>5, <2>6, LearnsStep DEF Adopt
  <2>7. CASE UNCHANGED handleVars
    BY <1>0, <2>1, <2>2, <2>5, <2>7, ObservingNothing, LearnsStep
  <2> QED BY <2>1, <2>6, <2>7
<1>9. ASSUME NEW h \in Handles, FinishMaterialise(h) \/ ArchiveAgain(h) \/ ArchiveAdopts(h)
      PROVE  Promise!Learns(h)
  <2>1. /\ UNCHANGED serverVars /\ pc[h] = "drained" /\ Adopt(h, View(reader[h].replay))
    BY <1>9 DEF FinishMaterialise, ArchiveAgain, ArchiveAdopts, Drained
  <2>2. PICK r \in {NoReader, NewReader(reader[h].since), reader[h]} :
          reader' = [reader EXCEPT ![h] = r]
    BY <1>0, <1>9 DEF FinishMaterialise, ArchiveAgain, ArchiveAdopts, Return, Drain, TypeOK
  <2>3. /\ r \in Readers /\ r.since \in {0, reader[h].since}
        /\ ~Overlaps(r) \/ (Overlaps(r) <=> Overlaps(reader[h]))
    BY <1>h, <1>n, <1>f, <2>2 DEF Readers
  <2>4. [frontier |-> View(reader[h].replay).frontier, life |-> View(reader[h].replay).life]
          \in Promise!Learnable(h)
    <3>1. reader[h].records > 0 /\ reader[h].pos >= reader[h].since /\ SoundReader(reader[h])
      BY <1>h, <2>1 DEF SoundHandle
    <3>2. reader[h].torn => Overlaps(reader[h])
      BY DEF Overlaps
    <3> QED BY <1>h, <3>1, <3>2, ViewIsLearnable
  <2> QED BY <2>1, <2>2, <2>3, <2>4, LearnsStep DEF Adopt
<1>10. ASSUME NEW h \in Handles, ArchiveTransition(h) PROVE Promise!Write(h)
  <2>1. /\ Accept(Transition("archived", frontier[h])) /\ lifecycle[h] # "archived"
    BY <1>h, <1>10 DEF ArchiveTransition, OpenRead
  <2>2. PICK r \in {NoReader, NewReader(reader[h].since)} : reader' = [reader EXCEPT ![h] = r]
    BY <1>10 DEF ArchiveTransition, Return, Drain
  <2>3. r \in Readers /\ r.since \in {0, reader[h].since, Len(log) + 1} /\ ~Overlaps(r)
    BY <1>h, <1>n, <1>f, <2>2 DEF Readers
  <2>4. \E f \in {frontier[h], {Len(log) + 1}}, l \in {lifecycle[h], "closed", "archived"} :
          frontier' = [frontier EXCEPT ![h] = f] /\ lifecycle' = [lifecycle EXCEPT ![h] = l]
    BY <1>0, <1>10 DEF ArchiveTransition, Acked, Unacked, TypeOK
  <2>5. Transition("archived", frontier[h])
          \in {Content(frontier[h])} \cup {Transition(to, frontier[h]) : to \in Lifecycles}
    BY DEF Lifecycles
  <2> QED BY <2>1, <2>2, <2>3, <2>4, <2>5, WriteStep
<1>11. ASSUME NEW h \in Handles,
              RollupDeclined(h) \/ RollupLost(h) \/ PublishFails(h) \/ Interrupt(h)
       PROVE  Promise!Learns(h)
  <2>1. /\ UNCHANGED serverVars /\ UNCHANGED handleVars /\ pc[h] # "idle"
    BY <1>11 DEF RollupDeclined, RollupLost, PublishFails, Interrupt, Publishing, Compacting
  <2>2. PICK r \in {NoReader, NewReader(reader[h].since)} : reader' = [reader EXCEPT ![h] = r]
    BY <1>11 DEF RollupDeclined, RollupLost, PublishFails, Interrupt, Return, Drain
  <2>3. /\ r \in Readers /\ r.since \in {0, reader[h].since}
        /\ ~Overlaps(r) \/ (Overlaps(r) <=> Overlaps(reader[h]))
    BY <1>h, <1>n, <1>f, <2>2 DEF Readers
  <2> QED BY <1>0, <2>1, <2>2, <2>3, ObservingNothing, LearnsStep
<1>12. ASSUME NEW h \in Handles, Crash(h) PROVE Promise!Forget(h)
  <2>1. /\ UNCHANGED serverVars /\ reader' = [reader EXCEPT ![h] = NoReader]
        /\ frontier' = [frontier EXCEPT ![h] = {}]
        /\ lifecycle' = [lifecycle EXCEPT ![h] = "unobserved"]
    BY <1>12 DEF Crash, Return
  <2>2. /\ Since' = [Since EXCEPT ![h] = 0] /\ Overlapped' = [Overlapped EXCEPT ![h] = FALSE]
    BY <1>0, <1>n, <2>1, ReaderMoves DEF serverVars
  <2>3. Observed' = [Observed EXCEPT ![h] = Promise!Unread]
    BY <1>0, <2>1, Observing DEF Promise!Unread
  <2>4. UNCHANGED <<viewAt, ~tainted>>
    BY <2>1 DEF serverVars
  <2> QED BY <2>2, <2>3, <2>4 DEF Promise!Forget, Since, Overlapped, Observed
<1>13. ASSUME NEW h \in Handles, RollupCommits(h) PROVE Promise!Compact(h)
  <2> DEFINE r == reader[h]
             v == View(r.replay)
  <2>1. /\ Replace(h) /\ pc[h] = "drained" /\ reader' = [reader EXCEPT ![h] = NoReader]
        /\ Adopt(h, v) \/ UNCHANGED handleVars
    BY <1>13 DEF RollupCommits, Publishing, Compacting, Return
  <2>2. /\ r.records > 0 /\ r.pos >= r.since /\ SoundReader(r) /\ r \in Readers
        /\ r.since # 0 /\ r.torn \in BOOLEAN /\ tainted \in BOOLEAN
    <3>1. r \in Readers /\ OpenRead(h) /\ SoundHandle(h) /\ tainted \in BOOLEAN
      BY <1>0, <1>h DEF TypeOK
    <3>2. r.records > 0 /\ r.pos >= r.since /\ SoundReader(r)
      BY <2>1, <3>1 DEF SoundHandle
    <3>3. r.since >= 1
      BY <2>1, <3>1 DEF OpenRead
    <3> HIDE DEF r
    <3> QED BY <3>1, <3>2, <3>3 DEF Readers
  <2>3. Overlapped[h] = r.torn
    <3>1. r.pos = Len(log)
      <4>1. r.tail = Len(log)
        BY <2>1 DEF Replace, GuardHolds
      <4>2. r.tail <= r.pos /\ r.pos <= Len(log) /\ r.pos \in Nat /\ r.tail \in Nat
        BY <2>2 DEF SoundReader, Readers
      <4> HIDE DEF r
      <4> QED BY <1>0, <4>1, <4>2
    <3>2. ~(r.pos + 1 < first)
      BY <1>0, <3>1
    <3>3. Overlapped[h] <=> r.torn
      BY <3>2 DEF Overlapped
    <3>4. Overlapped[h] \in BOOLEAN
      BY DEF Overlapped
    <3> QED BY <2>2, <3>3, <3>4
  <2>4. /\ viewAt' = Append(viewAt, View(Seed(Len(log) + 1, Checkpoint(v))))
        /\ tainted' = (tainted \/ r.torn)
        /\ first' = Len(log) + 1
    BY <2>1 DEF Replace
  <2>5. /\ Len(viewAt') = Len(viewAt) + 1
        /\ SubSeq(viewAt', 1, Len(viewAt)) = viewAt
        /\ viewAt'[Len(viewAt) + 1] = View(Seed(Len(log) + 1, Checkpoint(v)))
    <3>1. viewAt \in Seq(Views)
      BY <1>0 DEF TypeOK
    <3>2. View(Seed(Len(log) + 1, Checkpoint(v))) \in Views
      BY <2>2, ViewType, CheckpointType, SeedType DEF Readers
    <3> HIDE DEF v
    <3>3. viewAt' \in Seq(Views) /\ Len(viewAt') = Len(viewAt) + 1
      BY <2>4, <3>1, <3>2
    <3>4. \A i \in 1 .. Len(viewAt) : SubSeq(viewAt', 1, Len(viewAt))[i] = viewAt[i]
      BY <2>4, <3>1, <3>2, <3>3
    <3>5. /\ SubSeq(viewAt', 1, Len(viewAt)) \in Seq(Views)
          /\ Len(SubSeq(viewAt', 1, Len(viewAt))) = Len(viewAt)
      BY <3>1, <3>3
    <3> QED BY <2>4, <3>1, <3>2, <3>3, <3>4, <3>5
  <2>6. Overlapped[h] \/ tainted \/ viewAt'[Len(viewAt) + 1] = viewAt[Len(viewAt)]
    <3>1. ~r.torn /\ ~tainted => View(cold') = View(cold) /\ ~tainted'
      BY <2>1, <2>2, <2>4, SoundReplace DEF IInv
    <3>2. View(cold') = View(Seed(Len(log) + 1, Checkpoint(v))) /\ viewAt[Len(viewAt)] = View(cold)
      BY <2>1 DEF Replace, IInv, SoundHistory
    <3> QED BY <2>3, <2>5, <3>1, <3>2
  <2>7. Since' = [Since EXCEPT ![h] = 0] /\ Since[h] # 0
    BY <1>0, <1>n, <2>1, <2>2 DEF Since, TypeOK
  <2>8. Overlapped' \in [Handles -> BOOLEAN]
    BY DEF Overlapped
  <2>9. ASSUME NEW g \in Handles, Overlapped'[g]
        PROVE  g # h /\ (Overlapped[g] \/ Since[g] # 0)
    <3>1. reader'[h].torn = FALSE /\ reader'[h].records = 0
      <4>1. reader'[h] = NoReader
        BY <1>0, <2>1 DEF TypeOK
      <4> QED BY <4>1 DEF NoReader
    <3>2. g # h
      <4>1. reader'[g].torn \/ reader'[g].records > 0
        BY <2>9 DEF Overlapped
      <4> QED BY <3>1, <4>1
    <3>3. reader'[g] = reader[g]
      BY <2>1, <3>2 DEF TypeOK
    <3>4. reader[g].torn \/ reader[g].records > 0
      BY <2>9, <3>3 DEF Overlapped
    <3>5. pc[g] # "idle" \/ reader[g] = NoReader
      BY <1>h DEF OpenRead
    <3>6. NoReader.torn = FALSE /\ ~(NoReader.records > 0)
      BY DEF NoReader
    <3>7. reader[g].since >= 1 /\ reader[g].since \in Nat
      BY <1>h, <3>4, <3>5, <3>6 DEF OpenRead, Readers
    <3> QED BY <3>2, <3>7 DEF Since
  <2>10. \E o \in {Observed[h]} \cup Promise!Learnable(h) : Observed' = [Observed EXCEPT ![h] = o]
    <3>1. Observed[h] = [frontier |-> frontier[h], life |-> lifecycle[h]]
      BY DEF Observed
    <3>2. r.torn => Overlaps(reader[h])
      BY DEF Overlaps
    <3>3. [frontier |-> v.frontier, life |-> v.life] \in Promise!Learnable(h)
      BY <2>2, <3>2, ViewIsLearnable
    <3>4. CASE Adopt(h, v)
      <4>1. Observed' = [Observed EXCEPT ![h] = [frontier |-> v.frontier, life |-> v.life]]
        <5>1. /\ frontier' = [frontier EXCEPT ![h] = v.frontier]
              /\ lifecycle' = [lifecycle EXCEPT ![h] = v.life]
          BY <3>4 DEF Adopt
        <5> HIDE DEF v
        <5> QED BY <1>0, <5>1, Observing
      <4> QED BY <3>3, <4>1
    <3>5. CASE UNCHANGED handleVars
      <4>1. Observed' = [Observed EXCEPT ![h] = [frontier |-> frontier[h], life |-> lifecycle[h]]]
        <5>1. /\ frontier' = [frontier EXCEPT ![h] = frontier[h]]
              /\ lifecycle' = [lifecycle EXCEPT ![h] = lifecycle[h]]
          BY <1>0, <3>5, ObservingNothing
        <5> QED BY <1>0, <5>1, Observing
      <4> QED BY <3>1, <4>1
    <3> QED BY <2>1, <3>4, <3>5
  <2>11. (~tainted)' = (~tainted /\ ~Overlapped[h])
    BY <2>2, <2>3, <2>4
  <2>12. Promise!Robbed(h) \/ viewAt'[Len(viewAt) + 1] = viewAt[Len(viewAt)]
    BY <2>6, TopicTerms
  <2> HIDE DEF r, v
  <2> QED
    BY <2>5, <2>7, <2>8, <2>9, <2>10, <2>11, <2>12
    DEF Promise!Compact, Promise!Learn, Promise!accepted, Promise!view,
        Since, Overlapped, Observed
<1>14. ASSUME Next
       PROVE  [Promise!Next]_(Promise!topicVars)
  <2>1. \A h \in Handles :
          Promise!Learns(h) \/ Promise!Forget(h) \/ Promise!Open(h) \/ Promise!Follow(h)
            \/ Promise!Write(h) \/ Promise!Compact(h) => Promise!Next
    BY DEF Promise!Next
  <2> QED
    BY <1>2, <1>3, <1>4, <1>5, <1>6, <1>7, <1>8, <1>9, <1>10, <1>11, <1>12, <1>13, <1>14, <2>1
    DEF Next, Step
<1> QED BY <1>1, <1>14

(* TopicLog implements Topic: compactions change nothing anyone can read,  *)
(* a read returns the conversation as it stood at some moment of the read, *)
(* and a handle knows the topic from such reads and its own operations     *)
(* only, in every interleaving of calls, lost acknowledgements and crashes.*)
THEOREM TopicIsImplemented == Spec => KeepsPromise
BY InitPromise, NextPromise, CallsAreSound, PTL DEF Spec, KeepsPromise, Promise!Spec
=============================================================================
