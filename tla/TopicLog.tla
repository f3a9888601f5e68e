------------------------------ MODULE TopicLog ------------------------------
(***************************************************************************)
(* One topic: its ops subject on the stream, and the handles through which *)
(* personas post to it, materialise it, follow it, compact it, close it    *)
(* and archive it (topic/post.go, materialise.go, replay.go, follow.go,    *)
(* rollup.go, lifecycle.go).                                               *)
(*                                                                         *)
(* The server is modelled by what the code asks of it: it gives messages   *)
(* increasing sequence numbers, an ordered consumer delivers the retained  *)
(* ones in order, one at a time, and a publish that carries a per-subject  *)
(* rollup header and an expected last sequence either is rejected or       *)
(* purges every earlier message as it lands.                               *)
(***************************************************************************)
EXTENDS TopicReplay

CONSTANTS
  Handles,   (* The handles open on the topic, one call at a time on each. *)
  Requests,  (* The calls personas make beside Post.                       *)
  Targets,   (* The lifecycles personas post bare transitions to.          *)
  Faulty,    (* Whether acknowledgements are lost, calls fail or are       *)
             (* cancelled, and processes die.                              *)
  Garbage,   (* Whether somebody publishes messages no reader can parse.   *)
  MaxOps,    (* Bound: operations the stream ever accepts.                 *)
  Retries    (* archiveRetries: compaction attempts of one Archive.        *)

ASSUME ConstantsAssumption ==
  /\ Requests \subseteq {"materialise", "rollup", "close", "archive", "follow"}
  /\ Targets \subseteq Lifecycles
  /\ Faulty \in BOOLEAN
  /\ Garbage \in BOOLEAN
  /\ MaxOps \in Nat
  /\ Retries \in Nat \ {0}

VARIABLES
  log,        (* Every operation ever accepted, by sequence number.        *)
  first,      (* The oldest one the stream still retains.                  *)
  pc,         (* Where each handle is in its call.                         *)
  call,       (* The call it is in.                                        *)
  attempt,    (* Archive's compaction attempt; 0 before the first.         *)
  reader,     (* The ordered consumer of the call and the replay so far.   *)
  frontier,   (* Handle.frontier.                                          *)
  lifecycle,  (* Handle.lifecycle; "unobserved" until one is observed.     *)
  (* History variables.                                                    *)
  truth,      (* The replay of everything accepted, had nothing compacted. *)
  cold,       (* The replay of what is retained: what a cold reader gets.  *)
  viewAt,     (* The view a cold reader got after each operation.          *)
  tainted     (* A reader that skipped purged operations has compacted.    *)

serverVars == <<log, first, truth, cold, viewAt, tainted>>
handleVars == <<frontier, lifecycle>>
callVars   == <<pc, call, attempt, reader>>
vars       == <<serverVars, handleVars, callVars>>

Calls  == {"none", "materialise", "rollup", "close", "archive", "follow"}
Stages == {"idle", "draining", "drained", "shelving", "following"}

(* A consumer: the last sequence number it delivered, that of the last     *)
(* record that parsed, how many parsed and the replay of them; and, as     *)
(* history, whether a purge made it skip any and the earliest moment its   *)
(* views may be of: the start of the call, or for a follower the oldest    *)
(* operation it was to replay.                                             *)
Readers == [pos : Nat, tail : Nat, records : Nat, replay : Replay,
            torn : BOOLEAN, since : Nat]

NoReader == [pos |-> 0, tail |-> 0, records |-> 0, replay |-> Blank,
             torn |-> FALSE, since |-> 0]

NewReader(since) == [NoReader EXCEPT !.since = since]

TypeOK ==
  /\ log \in Seq(Op)
  /\ first \in 1 .. Len(log)
  /\ pc \in [Handles -> Stages]
  /\ call \in [Handles -> Calls]
  /\ attempt \in [Handles -> 0 .. Retries]
  /\ reader \in [Handles -> Readers]
  /\ frontier \in [Handles -> SUBSET Nat]
  /\ lifecycle \in [Handles -> Lifecycles \cup {"unobserved"}]
  /\ truth \in Replay
  /\ cold \in Replay
  /\ viewAt \in Seq(Views)
  /\ tainted \in BOOLEAN

(* StartTopic has published the birth baseline. Its handle parents on it;  *)
(* every other handle is Open: nothing observed.                           *)
Init ==
  /\ log = <<Birth>>
  /\ first = 1
  /\ pc = [h \in Handles |-> "idle"]
  /\ call = [h \in Handles |-> "none"]
  /\ attempt = [h \in Handles |-> 0]
  /\ reader = [h \in Handles |-> NoReader]
  /\ \E opener \in Handles :
       frontier = [h \in Handles |-> IF h = opener THEN {1} ELSE {}]
  /\ lifecycle = [h \in Handles |-> "unobserved"]
  /\ truth = Seed(1, Birth)
  /\ cold = Seed(1, Birth)
  /\ viewAt = <<View(Seed(1, Birth))>>
  /\ tainted = FALSE

-----------------------------------------------------------------------------
(* The server.                                                             *)

(* An ordinary publish: nothing is demanded of the subject.                *)
Accept(op) ==
  LET id == Len(log) + 1 IN
  /\ Len(log) < MaxOps
  /\ log' = Append(log, op)
  /\ truth' = Apply(truth, id, op)
  /\ cold' = Apply(cold, id, op)
  /\ viewAt' = Append(viewAt, View(Apply(cold, id, op)))
  /\ UNCHANGED <<first, tainted>>

(* Wrong: the publish demands nothing of the subject.                      *)
GuardHolds_Unasked(h) == h \in Handles

(* A rollup publish: accepted only while the last message is the last      *)
(* record its publisher consumed; then it replaces all of them.            *)
GuardHolds(h) == reader[h].tail = Len(log)

Replace(h) ==
  LET id == Len(log) + 1
      op == Checkpoint(View(reader[h].replay))
  IN
  /\ GuardHolds(h)
  /\ Len(log) < MaxOps
  /\ log' = Append(log, op)
  /\ first' = id
  /\ cold' = Seed(id, op)
  /\ viewAt' = Append(viewAt, View(Seed(id, op)))
  /\ tainted' = (tainted \/ reader[h].torn)
  /\ UNCHANGED truth

(* The ordered consumer hands over the next retained message. It is blind  *)
(* to messages purged before it got to them.                               *)
NextSeq(r) == IF r.pos + 1 < first THEN first ELSE r.pos + 1

Deliver(r) ==
  LET s    == NextSeq(r)
      torn == r.torn \/ (r.records > 0 /\ s # r.pos + 1)
  IN
  IF log[s].kind = "unreadable"
  THEN [r EXCEPT !.pos = s, !.torn = torn]
  ELSE [r EXCEPT !.pos     = s,
                 !.tail    = s,
                 !.records = @ + 1,
                 !.replay  = IF r.records = 0 THEN Seed(s, log[s])
                             ELSE Apply(@, s, log[s]),
                 !.torn    = torn]

-----------------------------------------------------------------------------
(* The handles.                                                            *)

Begin(h, what, stage, since) ==
  /\ what \in Requests
  /\ pc[h] = "idle"
  /\ pc' = [pc EXCEPT ![h] = stage]
  /\ call' = [call EXCEPT ![h] = what]
  /\ reader' = [reader EXCEPT ![h] = NewReader(since)]
  /\ UNCHANGED attempt

Return(h) ==
  /\ pc' = [pc EXCEPT ![h] = "idle"]
  /\ call' = [call EXCEPT ![h] = "none"]
  /\ attempt' = [attempt EXCEPT ![h] = 0]
  /\ reader' = [reader EXCEPT ![h] = NoReader]

Drain(h) ==
  /\ pc' = [pc EXCEPT ![h] = "draining"]
  /\ reader' = [reader EXCEPT ![h] = NewReader(reader[h].since)]

(* Wrong: the frontier is left behind.                                     *)
Adopt_LifecycleOnly(h, v) ==
  /\ lifecycle' = [lifecycle EXCEPT ![h] = v.life]
  /\ UNCHANGED frontier

Adopt(h, v) ==
  /\ frontier' = [frontier EXCEPT ![h] = v.frontier]
  /\ lifecycle' = [lifecycle EXCEPT ![h] = v.life]

(* Post: refused on a topic last observed archived; the handle moves to    *)
(* the new op once the publish is acknowledged. When the acknowledgement   *)
(* is lost the op stands and the caller gets an error.                     *)
Acked(h)   == frontier' = [frontier EXCEPT ![h] = {Len(log) + 1}]
Unacked(h) == Faulty /\ UNCHANGED frontier

PostContent(h) ==
  /\ pc[h] = "idle"
  /\ lifecycle[h] # "archived"
  /\ Accept(Content(frontier[h]))
  /\ Acked(h) \/ Unacked(h)
  /\ UNCHANGED <<lifecycle, callVars>>

(* Transition (and MarkDormant): a Post of a life.transition.              *)
PostTransition(h, to) ==
  /\ pc[h] = "idle"
  /\ lifecycle[h] # "archived"
  /\ Accept(Transition(to, frontier[h]))
  /\ Acked(h) \/ Unacked(h)
  /\ UNCHANGED <<lifecycle, callVars>>

BeginMaterialise(h) ==
  /\ Begin(h, "materialise", "draining", Len(log))
  /\ UNCHANGED <<serverVars, handleVars>>

BeginRollup(h) ==
  /\ Begin(h, "rollup", "draining", Len(log))
  /\ UNCHANGED <<serverVars, handleVars>>

BeginArchive(h) ==
  /\ Begin(h, "archive", "draining", Len(log))
  /\ UNCHANGED <<serverVars, handleVars>>

BeginFollow(h) ==
  /\ Begin(h, "follow", "following", first)
  /\ UNCHANGED <<serverVars, handleVars>>

(* Close posts the closed transition and, once that is acknowledged, drains*)
(* for the tidy-up compaction. (Not acknowledged, Close returns the error: *)
(* the steps of PostTransition(h, "closed").)                              *)
BeginClose(h) ==
  /\ "close" \in Requests
  /\ pc[h] = "idle"
  /\ lifecycle[h] # "archived"
  /\ Accept(Transition("closed", frontier[h]))
  /\ Acked(h)
  /\ lifecycle' = [lifecycle EXCEPT ![h] = "closed"]
  /\ pc' = [pc EXCEPT ![h] = "draining"]
  /\ call' = [call EXCEPT ![h] = "close"]
  /\ reader' = [reader EXCEPT ![h] = NewReader(Len(log) + 1)]
  /\ UNCHANGED attempt

(* Wrong: a message that does not parse is skipped before asking whether   *)
(* it was the last.                                                        *)
Read_SkipsGarbage(h) ==
  LET r == Deliver(reader[h]) IN
  /\ pc[h] = "draining"
  /\ reader[h].pos < Len(log)
  /\ reader' = [reader EXCEPT ![h] = r]
  /\ pc' = [pc EXCEPT ![h] = IF r.tail = Len(log) THEN "drained" ELSE "draining"]
  /\ UNCHANGED <<serverVars, handleVars, call, attempt>>

(* One iteration of drainOps' loop: it stops at the message that was the   *)
(* last of the backlog when it was delivered.                              *)
Read(h) ==
  LET r == Deliver(reader[h]) IN
  /\ pc[h] = "draining"
  /\ reader[h].pos < Len(log)
  /\ reader' = [reader EXCEPT ![h] = r]
  /\ pc' = [pc EXCEPT ![h] = IF r.pos = Len(log) THEN "drained" ELSE "draining"]
  /\ UNCHANGED <<serverVars, handleVars, call, attempt>>

(* Wrong: a follower that insists on the next sequence number.             *)
ReadLive_InSequence(h) ==
  LET r == Deliver(reader[h]) IN
  /\ pc[h] = "following"
  /\ reader[h].pos < Len(log) /\ r.pos = reader[h].pos + 1
  /\ reader' = [reader EXCEPT ![h] = r]
  /\ Adopt(h, View(r.replay))
  /\ UNCHANGED <<serverVars, pc, call, attempt>>

(* One iteration of Follow's loop: the view is folded and adopted after    *)
(* every message that parses, and the consumer waits for more.             *)
ReadLive(h) ==
  LET r == Deliver(reader[h]) IN
  /\ pc[h] = "following"
  /\ reader[h].pos < Len(log)
  /\ reader' = [reader EXCEPT ![h] = r]
  /\ IF r.records > reader[h].records THEN Adopt(h, View(r.replay)) ELSE UNCHANGED handleVars
  /\ UNCHANGED <<serverVars, pc, call, attempt>>

Drained(h, what) == pc[h] = "drained" /\ call[h] = what

FinishMaterialise(h) ==
  /\ Drained(h, "materialise")
  /\ Adopt(h, View(reader[h].replay))
  /\ Return(h)
  /\ UNCHANGED serverVars

(* Wrong: a topic at rest is taken for an archived one.                    *)
ArchiveAgain_IfResting(h) ==
  /\ Drained(h, "archive") /\ attempt[h] = 0
  /\ View(reader[h].replay).life \in {"dormant", "closed", "archived"}
  /\ Adopt(h, View(reader[h].replay))
  /\ attempt' = [attempt EXCEPT ![h] = 1]
  /\ Drain(h)
  /\ UNCHANGED <<serverVars, call>>

(* Archive has materialised. An archived topic only needs its compaction   *)
(* finished; any other gets the archived transition first.                 *)
ArchiveAgain(h) ==
  /\ Drained(h, "archive") /\ attempt[h] = 0
  /\ View(reader[h].replay).life = "archived"
  /\ Adopt(h, View(reader[h].replay))
  /\ attempt' = [attempt EXCEPT ![h] = 1]
  /\ Drain(h)
  /\ UNCHANGED <<serverVars, call>>

ArchiveAdopts(h) ==
  /\ Drained(h, "archive") /\ attempt[h] = 0
  /\ View(reader[h].replay).life # "archived"
  /\ Adopt(h, View(reader[h].replay))
  /\ pc' = [pc EXCEPT ![h] = "shelving"]
  /\ UNCHANGED <<serverVars, call, attempt, reader>>

ArchiveTransition(h) ==
  /\ pc[h] = "shelving"
  /\ Accept(Transition("archived", frontier[h]))
  /\ \/ /\ Acked(h)
        /\ lifecycle' = [lifecycle EXCEPT ![h] = "archived"]
        /\ attempt' = [attempt EXCEPT ![h] = 1]
        /\ Drain(h)
        /\ UNCHANGED call
     \/ /\ Unacked(h)
        /\ Return(h)
        /\ UNCHANGED lifecycle

(* rollup has drained, for Rollup, for Close or for an Archive attempt.    *)
Compacting(h) ==
  /\ pc[h] = "drained"
  /\ call[h] \in {"rollup", "close"} \/ (call[h] = "archive" /\ attempt[h] > 0)

(* Every caller but Archive is refused an archived topic.                  *)
Refused(h) == call[h] # "archive" /\ View(reader[h].replay).life = "archived"

(* rollup returns before its publish: refused, or nothing but a baseline.  *)
RollupDeclined(h) ==
  /\ Compacting(h)
  /\ Refused(h) \/ reader[h].records <= 1
  /\ Return(h)
  /\ UNCHANGED <<serverVars, handleVars>>

Publishing(h) == Compacting(h) /\ ~Refused(h) /\ reader[h].records > 1

(* Wrong: the handle goes on from the baseline it published.               *)
RollupCommits_OntoBaseline(h) ==
  /\ Publishing(h)
  /\ Replace(h)
  /\ Acked(h)
  /\ Return(h)
  /\ UNCHANGED lifecycle

(* The publish lands. Acknowledged, the handle adopts the recorded frontier*)
(* and lifecycle; otherwise the caller gets an error and the handle stays. *)
RollupCommits(h) ==
  /\ Publishing(h)
  /\ Replace(h)
  /\ Adopt(h, View(reader[h].replay)) \/ (Faulty /\ UNCHANGED handleVars)
  /\ Return(h)

(* The publish is rejected: ErrRollupLost. Archive drains again, a bounded *)
(* number of times; Rollup and Close give up.                              *)
RollupLost(h) ==
  /\ Publishing(h)
  /\ ~GuardHolds(h)
  /\ IF call[h] = "archive" /\ attempt[h] < Retries
     THEN /\ attempt' = [attempt EXCEPT ![h] = @ + 1]
          /\ Drain(h)
          /\ UNCHANGED call
     ELSE Return(h)
  /\ UNCHANGED <<serverVars, handleVars>>

(* The publish fails for another reason and nothing lands: the call returns*)
(* the error.                                                              *)
PublishFails(h) ==
  /\ Faulty \/ Len(log) >= MaxOps
  /\ Publishing(h) \/ pc[h] = "shelving"
  /\ Return(h)
  /\ UNCHANGED <<serverVars, handleVars>>

(* The call ends early: its context is cancelled or a request fails.       *)
Interrupt(h) ==
  /\ Faulty \/ call[h] = "follow"
  /\ pc[h] # "idle"
  /\ Return(h)
  /\ UNCHANGED <<serverVars, handleVars>>

(* The process dies; its successor Opens a fresh handle.                   *)
Crash(h) ==
  /\ Faulty
  /\ Return(h)
  /\ frontier' = [frontier EXCEPT ![h] = {}]
  /\ lifecycle' = [lifecycle EXCEPT ![h] = "unobserved"]
  /\ UNCHANGED serverVars

Step(h) ==
  \/ Read(h) \/ ReadLive(h)
  \/ FinishMaterialise(h)
  \/ ArchiveAgain(h) \/ ArchiveAdopts(h) \/ ArchiveTransition(h)
  \/ RollupDeclined(h) \/ RollupCommits(h) \/ RollupLost(h)
  \/ PublishFails(h)

(* Somebody else puts a message on the subject that is no record.          *)
PublishGarbage ==
  /\ Garbage
  /\ Accept(Unreadable)
  /\ UNCHANGED <<handleVars, callVars>>

Next ==
  \/ PublishGarbage
  \/ \E h \in Handles :
       \/ PostContent(h)
       \/ \E to \in Targets : PostTransition(h, to)
       \/ BeginMaterialise(h) \/ BeginRollup(h) \/ BeginArchive(h)
       \/ BeginFollow(h) \/ BeginClose(h)
       \/ Step(h)
       \/ Interrupt(h) \/ Crash(h)

Spec == Init /\ [][Next]_vars

(* A call in progress is a goroutine that keeps running.                   *)
FairSpec == Spec /\ \A h \in Handles : WF_vars(Step(h))
-----------------------------------------------------------------------------
(* Properties.                                                             *)

(* rollup.go: "later ops parent across the boundary as if the rollup never *)
(* happened". Compaction is invisible: a cold reader of the compacted log  *)
(* gets the content, lifecycle and frontier of the log as it would stand   *)
(* had nobody ever compacted it. The one exception is named by tainted: a  *)
(* reader from under whom operations were purged has compacted.            *)
CompactionInvisible == ~tainted => View(cold) = View(truth)

(* Materialise and Follow return the truth: a reader that was not robbed   *)
(* holds exactly the view the topic had at the last operation delivered to *)
(* it, wherever in a sequence of compactions it started and stopped, and a *)
(* drain that ends has caught up with everything there was when the call   *)
(* began.                                                                  *)
ReadsExact ==
  ~tainted =>
    \A h \in Handles :
      /\ reader[h].records > 0 /\ ~reader[h].torn
           => View(reader[h].replay) = viewAt[reader[h].pos]
      /\ pc[h] = "drained" => reader[h].pos >= reader[h].since

(* Parents reach across compactions: no operation is ever parented on the  *)
(* baseline of a rollup, on itself or on anything later, so the reply      *)
(* graph of the topic is the one it would have uncompacted. This holds     *)
(* even where content was lost.                                            *)
ParentsAcrossSeams ==
  \A s \in 1 .. Len(log) : \A p \in log[s].parents :
    p < s /\ (p = 1 \/ log[p].kind # "baseline")

(* Archived is terminal: what cold readers are told never leaves archived, *)
(* not by a transition and not by a compaction of someone who read the     *)
(* topic before it was archived.                                           *)
ArchivedIsTerminal ==
  [][Life(cold) = "archived" /\ ~tainted' => Life(cold') = "archived"]_vars

(* A handle that has observed the topic archived goes on refusing posts    *)
(* for as long as it lives: no later read or compaction of its own makes   *)
(* it forget. (Follow does: it adopts the past it replays.)                *)
RefusalSticks ==
  [][\A h \in Handles :
       lifecycle[h] = "archived" /\ call[h] # "follow" /\ ~reader[h].torn /\ ~tainted'
         => lifecycle'[h] \in {"archived", "unobserved"}]_vars

(* When Archive gets as far as its final compaction, or finds there is     *)
(* nothing left to compact, the log it has drained says archived: the call *)
(* never reports an archival that a reader of the topic cannot see.        *)
ArchiveSeesArchived ==
  \A h \in Handles :
    Drained(h, "archive") /\ attempt[h] > 0 /\ ~reader[h].torn /\ ~tainted
      => Life(reader[h].replay) = "archived"

(* Why those hold: the inductive invariant. Known to a replay of the       *)
(* operations up to n are op-ids up to n; its leaves are operations, or    *)
(* the birth baseline, and there is always one.                            *)
Plain(ops, n) == {p \in 1 .. n : p = 1 \/ ops[p].kind # "baseline"}

SoundView(ops, v, n) ==
  /\ v.content \subseteq 1 .. n
  /\ v.frontier # {} /\ v.frontier \subseteq Plain(ops, n)

SoundReplay(ops, r, n) ==
  /\ r.seen \subseteq 1 .. n /\ r.referenced \subseteq 1 .. n
  /\ SoundView(ops, View(r), n)

(* An operation is parented on earlier operations, and the baseline of a   *)
(* rollup is the checkpoint of a sound view of what came before it.        *)
SoundOp(ops, s) ==
  /\ ops[s].parents \subseteq Plain(ops, s - 1)
  /\ s > 1 /\ ops[s].kind = "baseline"
       => /\ ops[s] = Checkpoint(View(Seed(s, ops[s])))
          /\ SoundView(ops, View(Seed(s, ops[s])), s - 1)

SoundOps(ops) == ops[1] = Birth /\ \A s \in 1 .. Len(ops) : SoundOp(ops, s)

(* The retained log begins with a baseline.                                *)
SoundLog == SoundOps(log) /\ log[first].kind = "baseline"

(* While no torn reader has compacted, the views of the history follow one *)
(* from another by single operations, baselines changing nothing.          *)
Chained(ops, views) ==
  /\ \A s \in 2 .. Len(ops) : views[s] = ViewAfter(views[s - 1], s, ops[s])
  /\ \A s \in 1 .. Len(ops) :
       ops[s].kind = "baseline" => views[s] = View(Seed(s, ops[s]))

SoundHistory ==
  /\ Len(viewAt) = Len(log)
  /\ viewAt[Len(log)] = View(cold)
  /\ SoundReplay(log, cold, Len(log)) /\ SoundReplay(log, truth, Len(log))
  /\ ~tainted => View(cold) = View(truth) /\ Chained(log, viewAt)

SoundReader(r) ==
  /\ r.tail <= r.pos /\ r.pos <= Len(log) /\ r.since <= Len(log)
  /\ r.records = 0 => r.pos = 0
  /\ r.records > 0 => r.pos > 0 /\ SoundReplay(log, r.replay, r.pos)
  /\ r.records > 0 /\ ~r.torn /\ ~tainted => View(r.replay) = viewAt[r.pos]

SoundHandle(h) ==
  /\ SoundReader(reader[h])
  /\ frontier[h] \subseteq Plain(log, Len(log))
  /\ pc[h] = "drained" => reader[h].records > 0 /\ reader[h].pos >= reader[h].since

IInv == TypeOK /\ SoundLog /\ SoundHistory /\ \A h \in Handles : SoundHandle(h)

(* TopicLog keeps the promises of Topic: KeepsPromise.                     *)
Promise == INSTANCE Topic WITH
  history    <- viewAt,
  intact     <- ~tainted,
  since      <- [h \in Handles |-> reader[h].since],
  overlapped <- [h \in Handles |->
                   reader[h].torn \/ (reader[h].records > 0 /\ reader[h].pos + 1 < first)],
  observed   <- [h \in Handles |-> [frontier |-> frontier[h], life |-> lifecycle[h]]]

KeepsPromise == Promise!Spec

(* Every call ends, however often its compaction loses.                    *)
CallsReturn ==
  \A h \in Handles : (pc[h] \notin {"idle", "following"}) ~> (pc[h] = "idle")

(* A follower catches up with the log.                                     *)
FollowersCatchUp ==
  \A h \in Handles :
    (pc[h] = "following") ~> (pc[h] = "idle" \/ reader[h].pos = Len(log))

(* A claim of the documentation that the code does not keep.               *)

(* docs/rollup.md: "Nothing tears, nothing is lost".                       *)
NothingLost == View(cold).content = View(truth).content
=============================================================================
