------------------------------- MODULE Manifest -------------------------------
(***************************************************************************)
(* One topic and the realm's object store. A baseline that is too big to   *)
(* travel inline leaves its state document in the store, as a box, and     *)
(* publishes a manifest, a ticket for it (topic/rollup.go); attachments    *)
(* put a blob there and post a reference (topic/attachment.go); archival   *)
(* sweeps the blobs of withdrawn attachments (topic/lifecycle.go). The     *)
(* store and the stream share no transaction: every handle below walks     *)
(* through them one request at a time.                                     *)
(*                                                                         *)
(* The stream is the one of TopicLog. Of the conversation a view keeps     *)
(* what was said, the attachments, which of them are withdrawn, and        *)
(* whether the topic is archived; all of it only ever grows, so a fold is  *)
(* a union and needs no order.                                             *)
(***************************************************************************)
EXTENDS Integers, Sequences

CONSTANTS
  Handles,    (* The handles open on the topic, one call at a time on each.*)
  Scenarios,  (* Each a set of calls; one is chosen for a behaviour.       *)
  Faulty,     (* Whether requests fail, answers are lost, processes die.   *)
  MaxOps,     (* Bound: operations the stream ever accepts.                *)
  MaxObjects, (* Bound: objects ever named.                                *)
  Retries     (* archiveRetries: compaction attempts of one Archive.       *)

ASSUME ManifestAssumption ==
  /\ \A s \in Scenarios :
       s \subseteq {"note", "attach", "remove", "materialise", "rollup", "archive", "follow"}
  /\ Faulty \in BOOLEAN
  /\ MaxOps \in Nat
  /\ MaxObjects \in Nat
  /\ Retries \in Nat \ {0}

VARIABLES
  log,       (* Every operation ever accepted, by sequence number.         *)
  first,     (* The oldest one the stream still retains.                   *)
  boxes,     (* The state documents in the store, by object name.          *)
  blobs,     (* The attachments' objects in the store.                     *)
  minted,    (* How many object names were ever given out.                 *)
  requests,  (* The scenario.                                              *)
  pc,        (* Where each handle is in its call.                          *)
  call,      (* The call it is in.                                         *)
  aim,       (* What its current drain is for.                             *)
  attempt,   (* Archive's compaction attempt.                              *)
  reader,    (* The drain: its first record, its last, and all of them.    *)
  object,    (* The object its call has put and not yet referred to.       *)
  waste,     (* The objects it is about to delete.                         *)
  archived,  (* Whether the handle last observed the topic archived.       *)
  broken,    (* A follower's baselineBroken.                               *)
  (* History variables.                                                    *)
  tainted,   (* A reader that skipped purged operations has compacted.     *)
  stumbled   (* A rollup put a box and then lost, failed or died, or did   *)
             (* not get to delete the one it superseded.                   *)

streamVars  == <<log, first, tainted>>
storeVars   == <<boxes, blobs, minted>>
callVars    == <<pc, call, aim, attempt, reader, object, waste, broken>>
vars == <<streamVars, storeVars, callVars, requests, archived, stumbled>>

Docs == [said : SUBSET Nat, attached : SUBSET Nat, removed : SUBSET Nat,
         archived : BOOLEAN]

EmptyDoc == [said |-> {}, attached |-> {}, removed |-> {}, archived |-> FALSE]

(* An operation: `object' is the blob an attachment names or a withdrawal  *)
(* targets; a baseline has its document, inline if `box' is 0, else in the *)
(* object `box' with the digest of `doc' on the ticket.                    *)
Op == [kind : {"note", "attach", "remove", "archived", "baseline"},
       object : Nat, box : Nat, doc : Docs]

Plain(kind, name) == [kind |-> kind, object |-> name, box |-> 0, doc |-> EmptyDoc]

Baseline(doc, box) == [kind |-> "baseline", object |-> 0, box |-> box, doc |-> doc]

Stages == {"idle", "uploaded", "draining", "drained", "publishing",
           "cleaning", "shelving", "sweeping", "following", "opening"}

NoReader == [base |-> 0, pos |-> 0, records |-> {}]

TypeOK ==
  /\ log \in Seq(Op) /\ first \in 1 .. Len(log)
  /\ DOMAIN boxes \subseteq 1 .. minted
  /\ boxes \in [DOMAIN boxes -> Docs]
  /\ blobs \subseteq 1 .. minted /\ minted \in Nat
  /\ requests \in Scenarios
  /\ pc \in [Handles -> Stages]
  /\ call \in [Handles -> {"none"} \cup UNION Scenarios]
  /\ aim \in [Handles -> {"look", "compact", "sweep"}]
  /\ attempt \in [Handles -> 0 .. Retries]
  /\ reader \in [Handles -> [base : Nat, pos : Nat, records : SUBSET Nat]]
  /\ object \in [Handles -> 0 .. minted]
  /\ waste \in [Handles -> SUBSET Nat]
  /\ archived \in [Handles -> BOOLEAN] /\ broken \in [Handles -> BOOLEAN]
  /\ tainted \in BOOLEAN /\ stumbled \in BOOLEAN

(* StartTopic has published the birth baseline, inline.                    *)
Init ==
  /\ log = <<Baseline(EmptyDoc, 0)>> /\ first = 1
  /\ boxes = << >> /\ blobs = {} /\ minted = 0
  /\ requests \in Scenarios
  /\ pc = [h \in Handles |-> "idle"]
  /\ call = [h \in Handles |-> "none"]
  /\ aim = [h \in Handles |-> "look"]
  /\ attempt = [h \in Handles |-> 0]
  /\ reader = [h \in Handles |-> NoReader]
  /\ object = [h \in Handles |-> 0]
  /\ waste = [h \in Handles |-> {}]
  /\ archived = [h \in Handles |-> FALSE]
  /\ broken = [h \in Handles |-> FALSE]
  /\ tainted = FALSE /\ stumbled = FALSE

-----------------------------------------------------------------------------
(* Views.                                                                  *)

(* Operators in whose name there is an underscore are wrong variants of    *)
(* the definition that follows them, each the bug some property is there   *)
(* to catch; the specification does not use them. Here, withdrawals that   *)
(* were baked are not seeded.                                              *)
Fold_ForgetsWithdrawals(ops, doc, records) ==
  LET of(kind) == {s \in records : ops[s].kind = kind}
      attached == doc.attached \cup {ops[s].object : s \in of("attach")}
  IN [said     |-> doc.said \cup of("note"),
      attached |-> attached,
      removed  |-> attached \cap {ops[s].object : s \in of("remove")},
      archived |-> doc.archived \/ of("archived") # {}]

(* The fold of the records, given the document their baseline resolves to. *)
(* A withdrawal of something that is no attachment is ignored.             *)
Fold(ops, doc, records) ==
  LET of(kind) == {s \in records : ops[s].kind = kind}
      attached == doc.attached \cup {ops[s].object : s \in of("attach")}
  IN [said     |-> doc.said \cup of("note"),
      attached |-> attached,
      removed  |-> doc.removed \cup (attached \cap {ops[s].object : s \in of("remove")}),
      archived |-> doc.archived \/ of("archived") # {}]

View(h) == Fold(log, log[reader[h].base].doc, reader[h].records)

(* What somebody sees who reads the topic now, baseline resolved.          *)
Cold == Fold(log, log[first].doc, first .. Len(log))

(* A purge took operations out from under the drain.                       *)
Torn(r) == r.base > 0 /\ r.records # r.base .. r.pos

(* resolveBaseline: the object is there and matches the ticket's digest.   *)
Resolvable(op) ==
  op.box # 0 => op.box \in DOMAIN boxes /\ boxes[op.box] = op.doc

(* Fetching can also fail for reasons of its own.                          *)
Opens(h)     == Resolvable(log[reader[h].base])
FailsToOpen(h) ==
  LET base == log[reader[h].base] IN base.box # 0 /\ (Faulty \/ ~Resolvable(base))

-----------------------------------------------------------------------------
(* Steps the calls are made of.                                            *)

Publish(op) ==
  /\ Len(log) < MaxOps
  /\ log' = Append(log, op)
  /\ UNCHANGED <<first, tainted>>

Begin(h, what, stage) ==
  /\ what \in requests
  /\ pc[h] = "idle"
  /\ pc' = [pc EXCEPT ![h] = stage]
  /\ call' = [call EXCEPT ![h] = what]
  /\ UNCHANGED <<attempt, reader, waste, broken>>

Return(h) ==
  /\ pc' = [pc EXCEPT ![h] = "idle"]
  /\ call' = [call EXCEPT ![h] = "none"]
  /\ aim' = [aim EXCEPT ![h] = "look"]
  /\ attempt' = [attempt EXCEPT ![h] = 0]
  /\ reader' = [reader EXCEPT ![h] = NoReader]
  /\ object' = [object EXCEPT ![h] = 0]
  /\ waste' = [waste EXCEPT ![h] = {}]
  /\ broken' = [broken EXCEPT ![h] = FALSE]

Drain(h, for, try) ==
  /\ pc' = [pc EXCEPT ![h] = "draining"]
  /\ aim' = [aim EXCEPT ![h] = for]
  /\ attempt' = [attempt EXCEPT ![h] = try]
  /\ reader' = [reader EXCEPT ![h] = NoReader]
  /\ object' = [object EXCEPT ![h] = 0]
  /\ waste' = [waste EXCEPT ![h] = {}]
  /\ UNCHANGED <<call, broken>>

Observe(h, isArchived) == archived' = [archived EXCEPT ![h] = isArchived]

(* The next retained message; what was purged before is not missed.        *)
Delivered(r) ==
  LET s == IF r.pos + 1 < first THEN first ELSE r.pos + 1
  IN [base |-> IF r.base = 0 THEN s ELSE r.base, pos |-> s, records |-> r.records \cup {s}]

-----------------------------------------------------------------------------
(* Posts and attachments.                                                  *)

(* Post, refused on a topic last observed archived.                        *)
PostNote(h) ==
  /\ "note" \in requests /\ pc[h] = "idle" /\ ~archived[h]
  /\ Publish(Plain("note", 0))
  /\ UNCHANGED <<storeVars, callVars, requests, archived, stumbled>>

(* Attach: the check, then the blob is put.                                *)
BeginAttach(h) ==
  /\ ~archived[h] /\ minted < MaxObjects
  /\ Begin(h, "attach", "uploaded")
  /\ minted' = minted + 1
  /\ blobs' = blobs \cup {minted + 1}
  /\ object' = [object EXCEPT ![h] = minted + 1]
  /\ UNCHANGED <<streamVars, boxes, aim, requests, archived, stumbled>>

(* Then the reference is posted.                                           *)
PostAttachment(h) ==
  /\ pc[h] = "uploaded"
  /\ Publish(Plain("attach", object[h]))
  /\ Return(h)
  /\ UNCHANGED <<storeVars, requests, archived, stumbled>>

(* RemoveAttachment, of any attachment ever posted, by anybody.            *)
PostRemoval(h) ==
  /\ "remove" \in requests /\ pc[h] = "idle" /\ ~archived[h]
  /\ \E s \in 1 .. Len(log) :
       /\ log[s].kind = "attach"
       /\ Publish(Plain("remove", log[s].object))
  /\ UNCHANGED <<storeVars, callVars, requests, archived, stumbled>>

-----------------------------------------------------------------------------
(* Reading.                                                                *)

BeginMaterialise(h) ==
  /\ Begin(h, "materialise", "draining")
  /\ UNCHANGED <<streamVars, storeVars, aim, object, requests, archived, stumbled>>

BeginArchive(h) ==
  /\ Begin(h, "archive", "draining")
  /\ UNCHANGED <<streamVars, storeVars, aim, object, requests, archived, stumbled>>

BeginRollup(h) ==
  /\ Begin(h, "rollup", "draining")
  /\ aim' = [aim EXCEPT ![h] = "compact"]
  /\ UNCHANGED <<streamVars, storeVars, object, requests, archived, stumbled>>

BeginFollow(h) ==
  /\ Begin(h, "follow", "following")
  /\ UNCHANGED <<streamVars, storeVars, aim, object, requests, archived, stumbled>>

(* drainOps: one message of the backlog, up to the last.                   *)
Read(h) ==
  LET r == Delivered(reader[h]) IN
  /\ pc[h] = "draining"
  /\ reader[h].pos < Len(log)
  /\ reader' = [reader EXCEPT ![h] = r]
  /\ pc' = [pc EXCEPT ![h] = IF r.pos = Len(log) THEN "drained" ELSE "draining"]
  /\ UNCHANGED <<streamVars, storeVars, call, aim, attempt, object, waste, broken,
                 requests, archived, stumbled>>

Ready(h, for) == pc[h] = "drained" /\ aim[h] = for /\ Opens(h)

(* The baseline does not resolve. To Materialise the topic is malformed, a *)
(* proposed one as far as the handle goes; a rollup and an Archive refuse, *)
(* and a sweep gives up.                                                   *)
CannotOpen(h) ==
  /\ pc[h] = "drained" /\ FailsToOpen(h)
  /\ IF aim[h] = "look" THEN Observe(h, FALSE) ELSE UNCHANGED archived
  /\ Return(h)
  /\ UNCHANGED <<streamVars, storeVars, requests, stumbled>>

FinishMaterialise(h) ==
  /\ Ready(h, "look") /\ call[h] = "materialise"
  /\ Observe(h, View(h).archived)
  /\ Return(h)
  /\ UNCHANGED <<streamVars, storeVars, requests, stumbled>>

(* One iteration of Follow's loop. The first record still has to be opened *)
(* if it is a ticket.                                                      *)
ReadLive(h) ==
  LET r  == Delivered(reader[h])
      op == log[r.base]
  IN
  /\ pc[h] = "following"
  /\ reader[h].pos < Len(log)
  /\ reader' = [reader EXCEPT ![h] = r]
  /\ IF reader[h].base = 0 /\ op.box # 0
     THEN pc' = [pc EXCEPT ![h] = "opening"] /\ UNCHANGED archived
     ELSE /\ Observe(h, ~broken[h] /\ Fold(log, op.doc, r.records).archived)
          /\ UNCHANGED pc
  /\ UNCHANGED <<streamVars, storeVars, call, aim, attempt, object, waste, broken,
                 requests, stumbled>>

(* It opens, or the follower is broken from here on.                       *)
OpenBaseline(h) ==
  /\ pc[h] = "opening"
  /\ \/ Opens(h) /\ Observe(h, View(h).archived) /\ UNCHANGED broken
     \/ FailsToOpen(h) /\ Observe(h, FALSE) /\ broken' = [broken EXCEPT ![h] = TRUE]
  /\ pc' = [pc EXCEPT ![h] = "following"]
  /\ UNCHANGED <<streamVars, storeVars, call, aim, attempt, reader, object, waste,
                 requests, stumbled>>

-----------------------------------------------------------------------------
(* Compacting.                                                             *)

(* An archived topic is refused to all but Archive; a lone baseline is not *)
(* worth compacting, which Archive takes for success, and sweeps.          *)
RollupDeclined(h) ==
  /\ Ready(h, "compact")
  /\ \/ call[h] # "archive" /\ View(h).archived /\ Return(h)
     \/ call[h] # "archive" /\ reader[h].records = {reader[h].pos} /\ Return(h)
     \/ call[h] = "archive" /\ reader[h].records = {reader[h].pos} /\ Drain(h, "sweep", 0)
  /\ UNCHANGED <<streamVars, storeVars, requests, archived, stumbled>>

Compactable(h) ==
  /\ Ready(h, "compact")
  /\ call[h] = "archive" \/ ~View(h).archived
  /\ reader[h].records # {reader[h].pos}

(* The document is small enough to go inline.                              *)
EncodeInline(h) ==
  /\ Compactable(h)
  /\ pc' = [pc EXCEPT ![h] = "publishing"]
  /\ UNCHANGED <<streamVars, storeVars, call, aim, attempt, reader, object, waste, broken,
                 requests, archived, stumbled>>

(* Wrong: the object's name is not a fresh one.                            *)
PutBox_SameName(h) ==
  /\ Compactable(h) /\ minted < MaxObjects
  /\ boxes' = [n \in DOMAIN boxes \cup {minted + 1} |->
                 IF n = minted + 1 THEN View(h) ELSE boxes[n]]
  /\ object' = [object EXCEPT ![h] = minted + 1]
  /\ pc' = [pc EXCEPT ![h] = "publishing"]
  /\ UNCHANGED <<streamVars, blobs, minted, call, aim, attempt, reader, waste, broken,
                 requests, archived, stumbled>>

(* It is not, and is put in the store first.                               *)
PutBox(h) ==
  /\ Compactable(h) /\ minted < MaxObjects
  /\ minted' = minted + 1
  /\ boxes' = [n \in DOMAIN boxes \cup {minted + 1} |->
                 IF n = minted + 1 THEN View(h) ELSE boxes[n]]
  /\ object' = [object EXCEPT ![h] = minted + 1]
  /\ pc' = [pc EXCEPT ![h] = "publishing"]
  /\ UNCHANGED <<streamVars, blobs, call, aim, attempt, reader, waste, broken,
                 requests, archived, stumbled>>

(* Wrong: looked up after the resolution has made the baseline inline.     *)
Superseded_Resolved(h) == {}

(* The object the superseded baseline's ticket was for.                    *)
Superseded(h) == {log[reader[h].base].box} \ {0}

(* rollup is done: the handle adopts the lifecycle it has baked; Archive   *)
(* goes on to the sweep.                                                   *)
Compacted(h) ==
  /\ Observe(h, View(h).archived)
  /\ IF call[h] = "archive" THEN Drain(h, "sweep", 0) ELSE Return(h)

(* The baseline lands and purges its predecessors. Acknowledged, the       *)
(* superseded box is next; otherwise the call ends in an error.            *)
Commit(h) ==
  /\ pc[h] = "publishing"
  /\ reader[h].pos = Len(log) /\ Len(log) < MaxOps
  /\ log' = Append(log, Baseline(View(h), object[h]))
  /\ first' = Len(log) + 1
  /\ tainted' = (tainted \/ Torn(reader[h]))
  /\ \/ /\ Superseded(h) # {}
        /\ pc' = [pc EXCEPT ![h] = "cleaning"]
        /\ waste' = [waste EXCEPT ![h] = Superseded(h)]
        /\ UNCHANGED <<call, aim, attempt, reader, object, broken, archived, stumbled>>
     \/ /\ Superseded(h) = {}
        /\ Compacted(h)
        /\ UNCHANGED stumbled
     \/ /\ Faulty
        /\ Return(h)
        /\ stumbled' = TRUE
        /\ UNCHANGED archived
  /\ UNCHANGED <<storeVars, requests>>

(* Best effort.                                                            *)
DeleteSuperseded(h) ==
  /\ pc[h] = "cleaning"
  /\ \/ /\ boxes' = [n \in DOMAIN boxes \ waste[h] |-> boxes[n]]
        /\ UNCHANGED stumbled
     \/ Faulty /\ stumbled' = TRUE /\ UNCHANGED boxes
  /\ Compacted(h)
  /\ UNCHANGED <<streamVars, blobs, minted, requests>>

(* Wrong: the deferred clean-up runs on the way out of a lost race as well.*)
LoseRace_CleansUp(h) ==
  /\ pc[h] = "publishing" /\ reader[h].pos # Len(log)
  /\ boxes' = [n \in DOMAIN boxes \ Superseded(h) |-> boxes[n]]
  /\ Return(h)
  /\ UNCHANGED <<streamVars, blobs, minted, requests, archived, stumbled>>

(* ErrRollupLost: whatever was put stays behind.                           *)
LoseRace(h) ==
  /\ pc[h] = "publishing" /\ reader[h].pos # Len(log)
  /\ IF call[h] = "archive" /\ attempt[h] < Retries
     THEN Drain(h, "compact", attempt[h] + 1)
     ELSE Return(h)
  /\ stumbled' = (stumbled \/ object[h] # 0)
  /\ UNCHANGED <<streamVars, storeVars, requests, archived>>

-----------------------------------------------------------------------------
(* Archiving.                                                              *)

(* Archive has materialised: what is archived only needs its compaction.   *)
ArchiveAgain(h) ==
  /\ Ready(h, "look") /\ call[h] = "archive" /\ View(h).archived
  /\ Observe(h, TRUE)
  /\ Drain(h, "compact", 1)
  /\ UNCHANGED <<streamVars, storeVars, requests, stumbled>>

ArchiveShelves(h) ==
  /\ Ready(h, "look") /\ call[h] = "archive" /\ ~View(h).archived
  /\ Observe(h, FALSE)
  /\ pc' = [pc EXCEPT ![h] = "shelving"]
  /\ UNCHANGED <<streamVars, storeVars, call, aim, attempt, reader, object, waste, broken,
                 requests, stumbled>>

PostArchived(h) ==
  /\ pc[h] = "shelving"
  /\ Publish(Plain("archived", 0))
  /\ \/ Observe(h, TRUE) /\ Drain(h, "compact", 1)
     \/ Faulty /\ Return(h) /\ UNCHANGED archived
  /\ UNCHANGED <<storeVars, requests, stumbled>>

(* Wrong: the sweep takes every attachment.                                *)
BeginSweep_All(h) ==
  /\ Ready(h, "sweep") /\ View(h).attached # {}
  /\ pc' = [pc EXCEPT ![h] = "sweeping"]
  /\ waste' = [waste EXCEPT ![h] = View(h).attached]
  /\ UNCHANGED <<call, aim, attempt, reader, object, broken>>
  /\ UNCHANGED <<streamVars, storeVars, requests, archived, stumbled>>

(* sweepRemovedBlobs, on a drain of its own.                               *)
BeginSweep(h) ==
  /\ Ready(h, "sweep")
  /\ IF View(h).removed = {}
     THEN Return(h)
     ELSE /\ pc' = [pc EXCEPT ![h] = "sweeping"]
          /\ waste' = [waste EXCEPT ![h] = View(h).removed]
          /\ UNCHANGED <<call, aim, attempt, reader, object, broken>>
  /\ UNCHANGED <<streamVars, storeVars, requests, archived, stumbled>>

DeleteBlob(h) ==
  /\ pc[h] = "sweeping"
  /\ \E n \in waste[h] :
       /\ blobs' = blobs \ {n} \/ (Faulty /\ UNCHANGED blobs)
       /\ IF waste[h] = {n}
          THEN Return(h)
          ELSE /\ waste' = [waste EXCEPT ![h] = @ \ {n}]
               /\ UNCHANGED <<pc, call, aim, attempt, reader, object, broken>>
  /\ UNCHANGED <<streamVars, boxes, minted, requests, archived, stumbled>>

-----------------------------------------------------------------------------
(* A request fails outright, or the caller gives up. (A full stream or a   *)
(* full store is the model's bound, and must not stop a call for ever.)    *)
GiveUp(h) ==
  /\ \/ Faulty /\ pc[h] # "idle"
     \/ pc[h] = "following"
     \/ pc[h] \in {"uploaded", "publishing", "shelving"} /\ Len(log) >= MaxOps
  /\ Return(h)
  /\ stumbled' = (stumbled \/ pc[h] \in {"publishing", "cleaning"})
  /\ UNCHANGED <<streamVars, storeVars, requests, archived>>

(* The process dies; its successor Opens a fresh handle.                   *)
Crash(h) ==
  /\ Faulty
  /\ Return(h)
  /\ Observe(h, FALSE)
  /\ stumbled' = (stumbled \/ pc[h] \in {"publishing", "cleaning"})
  /\ UNCHANGED <<streamVars, storeVars, requests>>

Next ==
  \E h \in Handles :
    \/ PostNote(h) \/ BeginAttach(h) \/ PostAttachment(h) \/ PostRemoval(h)
    \/ BeginMaterialise(h) \/ BeginArchive(h) \/ BeginRollup(h) \/ BeginFollow(h)
    \/ Read(h) \/ CannotOpen(h) \/ FinishMaterialise(h)
    \/ ReadLive(h) \/ OpenBaseline(h)
    \/ RollupDeclined(h) \/ EncodeInline(h) \/ PutBox(h)
    \/ Commit(h) \/ DeleteSuperseded(h) \/ LoseRace(h)
    \/ ArchiveAgain(h) \/ ArchiveShelves(h) \/ PostArchived(h)
    \/ BeginSweep(h) \/ DeleteBlob(h)
    \/ GiveUp(h) \/ Crash(h)

Spec == Init /\ [][Next]_vars

-----------------------------------------------------------------------------
(* Properties.                                                             *)

(* specs/007-rollup: "either the old log intact or the new baseline        *)
(* committed - orphaned chunks are the worst possible debris". Whatever    *)
(* races, fails or dies, also after a drain that was torn: the baseline    *)
(* the stream retains can be opened, and holds what was baked.             *)
TicketsHonoured == Resolvable(log[first])

(* docs/attachments.md: bytes are thrown out only "when the topic is       *)
(* archived", and only withdrawn ones. Every attachment of the topic can   *)
(* be fetched, unless it is withdrawn and the topic archived.              *)
BytesKept ==
  ~tainted =>
    \A n \in Cold.attached :
      n \in blobs \/ (n \in Cold.removed /\ Cold.archived)

(* specs/007-rollup FR-002: compaction preserves the view exactly. With    *)
(* bytes in the store and bytes in the log alike, a step adds to what cold *)
(* readers see at most what it posts, and takes nothing away.              *)
ColdOnlyGrows ==
  [][log' # log /\ ~tainted' =>
       LET posted == Fold(log, EmptyDoc, {Len(log)})' IN
       /\ Cold'.said = Cold.said \cup posted.said
       /\ Cold'.attached = Cold.attached \cup posted.attached
       /\ Cold.removed \subseteq Cold'.removed
       /\ Cold'.archived = (Cold.archived \/ posted.archived)]_log

(* The happy path leaves no litter: between calls, unless a rollup stumbled*)
(* or was torn, the only box in the store is that of the baseline.         *)
NoLitter ==
  ~stumbled /\ ~tainted /\ (\A h \in Handles : pc[h] = "idle")
    => DOMAIN boxes = {log[first].box} \ {0}

(* Why the tickets are honoured. No two operations have tickets for the    *)
(* same box, and every box in the store is the one its ticket describes.   *)
OwnBoxes ==
  /\ \A s \in 1 .. Len(log) : log[s].box \in 0 .. minted
  /\ \A s, t \in 1 .. Len(log) : log[s].box = log[t].box => s = t \/ log[s].box = 0

(* A drain delivers accepted operations.                                   *)
SoundReader(h) ==
  LET r == reader[h] IN
  /\ r.base <= r.pos /\ r.pos <= Len(log)
  /\ r.records \subseteq 1 .. Len(log)
  /\ pc[h] \in {"drained", "publishing", "cleaning", "opening"} => r.base > 0

(* A box that has been put and not yet published holds what is about to be *)
(* baked, and there is no ticket for it yet.                               *)
SoundDraft(h) ==
  /\ object[h] # 0 => pc[h] \in {"uploaded", "publishing", "cleaning"}
  /\ object[h] # 0 /\ pc[h] = "publishing" =>
       /\ object[h] \in DOMAIN boxes /\ boxes[object[h]] = View(h)
       /\ \A s \in 1 .. Len(log) : log[s].box # object[h]

(* Nor is anybody else about to publish one.                               *)
OwnDrafts ==
  \A g, h \in Handles :
    pc[g] = "publishing" /\ pc[h] = "publishing" /\ object[g] = object[h] /\ g # h
      => object[g] = 0

(* Only what a superseded ticket was for is thrown away.                   *)
SoundWaste(h) ==
  pc[h] = "cleaning" => waste[h] \subseteq {log[s].box : s \in 1 .. first - 1} \ {0}

IInv ==
  /\ TypeOK /\ TicketsHonoured /\ OwnBoxes /\ OwnDrafts
  /\ \A h \in Handles : SoundReader(h) /\ SoundDraft(h) /\ SoundWaste(h)
=============================================================================
