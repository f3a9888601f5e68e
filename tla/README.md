# Formal models of soulstream-core

TLA+ models of the parts of this library that decide what a conversation says,
the TLC configurations that check them, and machine-checked proofs of what
matters most. `PROJECT.json` is the index: components, runs, mutants, the map
from definitions to source lines, findings, hazards and theorems.

Soulstream keeps a conversation (a *topic*) as a log of operations on one
JetStream subject. Nobody owns the log: every persona appends to it, every
reader folds it into a view, and anybody may *compact* it, that is replace the
whole log by one baseline that carries the view. There is no lock and no
leader; the design rests on optimistic concurrency at the server and on the fold
being the same for everybody. Around the log stand a directory of personas and
their keys, inboxes, scatter-gather questions and a curator, each again without
a lock: processes read, decide, and write, and others run in between. Whether all
of that fits together, across compactions, retries, lost acknowledgements,
restarts and readers that are in the middle of something, is what unit tests
hardly reach and what this project is about.

## 1. The system

| Component | Source | State it keeps | Operations | Talks to |
|---|---|---|---|---|
| Topic log and handles | `topic/post.go`, `materialise.go`, `replay.go`, `follow.go`, `rollup.go`, `lifecycle.go`, `handle.go`, `wire.go`, `start.go` | at the server the retained messages of the ops subject; in a handle the observed frontier and lifecycle | Post, Transition, Materialise, Follow, Rollup, Close, Archive, StartTopic, Open | JetStream stream and ordered consumers |
| Fold | `topic/view.go`, `rollup.go` (baking), `vocab.go` | none: a function of the records | apply; bake and seed | called by every read |
| Work items, grants, upkeep | `topic/work.go`, `grant.go`, `upkeep.go` | none | claim, done, abandon; issue, revoke; edit, resolve, remove; the idle rule | Post; the fold decides what they mean |
| Manifest baselines | `topic/rollup.go:151-231` | state documents in the object store | put, publish, delete; resolve | object store |
| Attachments, artefacts | `topic/attachment.go`, `artefact.go`, `lifecycle.go:122-144` | blobs in the object store | attach, fetch, sweep at archival | object store, fold |
| Idempotent turns | `topic/post.go:57-84` | the server's duplicate window | PostTurnIdempotent | stream |
| Mentions, inbox | `topic/mention.go`, `notify.go` | a bounded inbox stream, the newest `InboxWindow` messages per persona | notifyMentions, FetchInbox, FollowInbox | stream |
| Realm | `realm/*.go` | streams and buckets, the realm identity | connect, provision, migrate, conformance | JetStream management |
| Announcements, board | `topic/board.go`, `start.go` | last message of each INFO subject | StartTopic, Board | stream |
| Discovery, memory | `topic/discover.go`, `memory.go`, `exhibit.go` | requests and answers in flight | ask, answer, collect until a deadline | core NATS request and reply |
| Curator | `curator/*.go` | a projection of the topics in memory, the dirty set | refresh, answer, flag, nudge, mark, reclaim | board, topics, discovery |
| Registry | `registry/*.go` | key-value entries with revisions, key chains | Publish, EnsureSigningKey, Rotate, attest, keyring | KV bucket |
| Keys, pins, profiles of the command line | `internal/cli/key.go`, `profile.go`, `connect.go`, `internal/keystore` | a seed file, its `.prev`, a pins file | key init, key rotate, profile publish/attest/show | registry |
| Verification | `topic/verify.go`, `resolve.go`, `record/canonical.go`, `identity/sign.go` | keyring | annotate | registry |
| Codec, names, tool catalogue, MCP server, other commands, configuration | `record`, `identity`, `toolcatalog`, `mcpserver`, `internal`, `cmd` | none shared | parsing, formatting, adapters | the above |

How they interact: a `Handle` publishes records with `publishOpWith` and reads
them back through an ordered consumer; `apply` folds what was read; `adopt`
moves the handle. `Rollup` drains, folds and publishes a baseline with the
`Nats-Rollup: sub` header and the expected last sequence of the subject, so the
server either rejects it or purges every predecessor as it lands. `Close` and
`Archive` are a transition followed by a rollup. A turn is a post and then one
publish per persona it mentions. Whoever verifies builds a keyring from the
directory's profiles and a local pins file, at the start of a read or of a watch.
The curator subscribes to all operations, reads again the topics it hears of, and
posts what it finds as ordinary operations.

The hard behaviours, with their lines, are the `hazards` of `PROJECT.json`.
The central ones: a compaction that lands while somebody else is draining or
following (`replay.go:46`, `follow.go:48`); a write between a drain and the
publish (`rollup.go:86`); handles that act on what they observed earlier
(`post.go:20`); two-step operations that stop in the middle
(`lifecycle.go:55,100`); acknowledgements that get lost (`wire.go:38`); and
several personas moving one element concurrently while compactions fold the
record of it (`view.go:158,204,339`). Around the log: read-then-write on directory
entries and key files (`kv.go:56`, `keystore.go:85`, `key.go:111`), pins that are
loaded, extended and saved while keys rotate (`chain.go:60`), a migration that can
stop at any message (`provision.go:71,150`), retries against a window that forgets
(`post.go:77`), answers that race deadlines (`discover.go:65`, `memory.go:180,228`),
and a memory that two goroutines refresh while it goes stale (`projection.go:105`,
`curator.go:119,254`).

What makes each component correct:

- *log and handles*: compaction changes nothing that anybody can read; a read
  returns the topic as it stood at some moment of the read; archived is
  terminal; no operation hangs off a compaction; calls end; followers catch up;
- *fold*: the compacted log and the whole log give every reader the same
  conversation, now and after every further operation; the author's newest
  correction shows and nobody else's; the log alone decides who owns a work
  item; a grant stands until its granter withdraws it; the lifecycle is what
  the transitions and their order say; anchors stay resolvable;
- *object store*: no committed baseline or attachment names a missing object;
- *registry, keys*: a published chain is only ever extended, the seed of the
  published key is somewhere, and no reader distrusts who only rotated;
- *turns, inbox, provisioning*: a turn is stored once, whoever it mentions is told,
  no notification is lost but to make room, there is one identity;
- *discovery, memory*: no answer is taken for that of another question, no persona
  counts twice, witnesses of one thing are graded alike;
- *curator*: what it has not read it is about to read, it does not repeat itself,
  and it acts on what is true when it acts.

## 2. Modules

| Module | What it models |
|---|---|
| `TopicReplay` | Operators only. The skeleton of `apply` for one topic: content, lifecycle, frontier; how a baseline seeds a replay and what is baked of a view. |
| `TopicLog` | The state machine: the subject, and any number of handles in their calls. Extends `TopicReplay`. |
| `Topic` | The abstract specification: one conversation, reads of it, no stream, no baselines, no retries. `TopicLog` implements it (`KeepsPromise`). |
| `TopicLog_proofs` | The invariant of `TopicLog` and what follows from it. |
| `TopicLog_promises` | Calls in progress, and step by step that `TopicLog` implements `Topic`. |
| `TopicFold` | Operators only. The fold in full: every operation type and its state machine, baking, seeding, and a baseline met mid-log. |
| `Conversation` | One growing log folded by three readers at once: of the whole log, of the compacted log, and a follower. Extends `TopicFold`. |
| `Conversation_proofs` | The proofs about `TopicFold` and `Conversation`. |
| `Manifest` | The state machine of the stream and the object store together: baselines whose document is a box in the store, attachments, the archival sweep. |
| `Manifest_proofs` | The proofs about `Manifest`. |
| `Directory` | The state machine of the persona directory, the key files and the pins: making, publishing, rotating, vouching, reading. |
| `Directory_proofs` | The invariant of `Directory`, chains and trust. |
| `Directory_promises` | Seeds, drafts and vouches in `Directory`. |
| `Mail` | The state machine of provisioning and of turns that mention: identity, streams, migration, inboxes, duplicate windows. |
| `Mail_proofs` | The proofs about `Mail`. |
| `Exchange` | Asking and answering: discovery, memory queries, exhibits. |
| `Curator` | The curator among those who answer and publish. Extends `Exchange`: one next-state relation composes both. |
| `Curator_proofs` | The proofs about `Exchange` and `Curator`, of the composed specification. |
| `MCTopicLog`, `MCConversation`, `MCManifest`, `MCDirectory`, `MCMail`, `MCCurator` | Symmetry sets and scenarios for TLC. |

Three abstractions of one fold exist because they answer different questions:
`TopicLog` needs interleavings and few data, `Conversation` needs data and only
whole operations, and `Manifest` needs to know what is lost when an object is.
They meet in `view.go`: the frontier bookkeeping and the lifecycle rules are in the
first two, the fold of attachments in the last two.

### TopicLog

An op-id is the sequence number the stream gave the operation. `log` holds every
operation ever accepted, as history; the stream retains `first .. Len(log)`.
Each handle is in at most one call (`pc`, `call`), with the ordered consumer of
that call in `reader`: `pos` is the last sequence number delivered, `tail` the
`StreamSeq` of the last record that parsed, `records` how many parsed, `replay`
the fold of them.

| Action | Code |
|---|---|
| `PostContent`, `PostTransition` | `Post`, `Transition`, `MarkDormant`: the check of the observed lifecycle, the publish, and the frontier, which moves only if the acknowledgement arrives |
| `BeginMaterialise`, `BeginRollup`, `BeginArchive`, `BeginFollow`, `BeginClose` | a call up to the creation of its ordered consumer; `Close` has published its transition by then |
| `Read` | one iteration of the loop of `drainOps`, `NumPending` included |
| `ReadLive` | one iteration of the loop of `Follow`, with `adopt` |
| `FinishMaterialise` | the fold and `adopt` |
| `ArchiveAgain`, `ArchiveAdopts`, `ArchiveTransition` | `Archive` up to `archiveCompact` |
| `RollupDeclined`, `RollupCommits`, `RollupLost` | `rollup` after its drain; `RollupLost` is also the retry loop of `archiveCompact` |
| `PublishFails`, `Interrupt`, `Crash` | errors, cancelled contexts, restarts |
| `PublishGarbage` | a message on the subject that `record.Parse` rejects |

The server is modelled by what the code relies on: increasing sequence
numbers, a rollup publish that checks the expected last sequence and purges its
predecessors atomically, and ordered consumers that deliver the retained
messages in order. A consumer that is behind a purge goes on with the first
message that is retained. That the code receives no sign of it is a fact about
JetStream's ordered consumer: it renumbers on *consumer* sequence gaps, and a
purge causes none.

History variables: `truth` is the fold of everything accepted, no compaction
ever made; `cold` is the fold of what is retained, which is what any new reader
computes; `viewAt` is what a cold reader would have seen after each operation;
`tainted` says that a reader whose drain was *torn* (a purge removed operations
between two deliveries) has compacted the topic. Torn drains are a real defect
of the code, see the findings; the safety properties are stated for histories in which
none has compacted, and `claim_nothing_lost` shows the defect itself.

### Conversation

`Post` appends an operation of a type from the conversation's `types`, anchored
to any operation of a fitting kind, to a wrong one or to none; `Rollup` replaces
the retained log by its baked view. `whole`, `retained` and `live` are the three
folds. Payloads are abstracted to what the fold tells apart: a body is the op-id
that supplied it; an operation whose payload lacks a required field is
`ignored`, except for a missing anchor, which is modelled, since the code treats it
differently from type to type.

### Manifest

The stream is that of `TopicLog`, with the fold reduced to what only grows: what
was said, the attachments, which of them are withdrawn, whether the topic is
archived. New is the store: `boxes` (state documents) and `blobs` (attachments),
both by object name, and `minted`, the names given out, since every name is a
fresh UUID. Store and stream share no transaction, so each request of a call is an
action of its own, and every other handle may run in between.

| Action | Code |
|---|---|
| `PostNote`, `PostRemoval`, `PostArchived` | `Post`, `RemoveAttachment`, the transition in `Archive` |
| `BeginAttach`, `PostAttachment` | `Attach`: the check and the upload, then the operation that names the blob |
| `Read`, `ReadLive` | an iteration of `drainOps`, of `Follow` |
| `FinishMaterialise`, `OpenBaseline`, `CannotOpen` | `resolveBaseline` as each reader uses it, and what follows when it fails: a malformed view that the handle adopts, a follower that stays broken, a rollup that refuses, a sweep that gives up |
| `EncodeInline`, `PutBox` | `publishBaseline` decides on the size of the document (here either way); the box is put under the name of the baseline to come |
| `Commit`, `LoseRace` | the publish under the guard: it lands and purges, or it loses and what was put stays behind. `LoseRace` is also Archive's retry loop |
| `DeleteSuperseded` | the best-effort deletion of the old ticket's box |
| `RollupDeclined`, `ArchiveAgain`, `ArchiveShelves` | the early returns of `rollup`, and `Archive` up to its compaction |
| `BeginSweep`, `DeleteBlob` | `sweepRemovedBlobs`: a drain of its own, then one deletion at a time |
| `GiveUp`, `Crash` | a request that fails (before or after it took effect), the end of the process |

Fetching the box and folding it are one step with what follows them. That excludes
nothing: a document once fetched stays what it is, and a put that follows a fetch
could as well have happened right after it.

### Directory

A key is a number; a signature is the key that made it. Each persona has one
machine with a seed file and its `.prev`; a session is a process of some persona
(a command, an adapter), and connects with the key that the file holds at that
moment (`signer`). Every read and every write of an entry, a file or the pins is a
step of its own.

| Action | Code |
|---|---|
| `KeyInit`, `KeyInitWrites` | `key init`: `SaveKey` stats, then writes |
| `Connect`, `Exit` | a process starts with the machine's key, and ends or dies |
| `Compose`, `Ensure`, `PublishGets`, `PublishWrites` | `profile publish`, `EnsureSigningKey`, and `Publish`: read, conflict or merge, write on the revision read |
| `Rotate`, `RotateWrites`, `SetAside`, `SaveNew` | `Rotate` and then `ReplaceKey`: the entry, the rename to `.prev`, the new seed, the way back when that fails |
| `Attest` | `profile attest` over the operated persona's published key |
| `Begin`, `LoadPins`, `ReadProfile`, `SavePins`, `NoKeyring`, `Close` | `profile show` and every command that verifies: pins, then profile by profile `BuildKeyring`, then the pins file as a whole |

`ClaimStatus`, `SigStatus` and `Alarm` are `AttestationStatus`, `VerifyRecord` and
`pinState`. An entry of an earlier version (`strict` false) is one the lenient decode
reads and the strict one refuses.

### Mail

`oplog` is the shape of the op-log stream (none, the old one that captured the
inbox subjects too, the present one); `residue` is what the old shape left in it;
`tray` is the inbox stream; `recent` and `seen` are the duplicate windows of the two
streams, which `Expire` empties.

| Action | Code |
|---|---|
| `Post`, `Notify`, `Return` | `PostTurnIdempotent` and its repetition under the same id: the publish, then `notifyMentions` one persona at a time; `RealmKey` fetched once and remembered |
| `Start`, `Mint` | `Provision` or `EnsureIdentity`: look for an identity, create one unless one stands |
| `LookUp`, `Shape`, `MakeTray` | `provisionOpLog` (look, then create or narrow) and `provisionNotify` |
| `ReadInbox`, `Republish`, `Purge` | the migration of a run that narrowed: the newest messages of each inbox with their ids, one by one, then the purge |
| `Shelve` | object store and directory buckets |
| `Abandon` | a request of the run fails, or its process dies |

The history variables `accepted`, `shed`, `late` and `behind` say what was stored,
what made room, which retries came too late for the window, and whose inbox got an
old message after a younger one.

### Exchange and Curator

A topic is the sequence of all that was ever published to it, and `Live` what the
stream retains. A view is a length of that sequence: the fold itself is the
subject of the other modules, here the question is which moment is seen by whom.

| Action | Code |
|---|---|
| `Begin`, `Probe`, `CaptureExhibit`, `Deadline`, `Finish` | `Discover`, `MemoryQuery`, `FetchExhibit`: a fresh inbox, the request, the deadline, the cap, nobody there |
| `GatherMatch`, `GatherAnswer`, `GatherExhibit` | `mergeReply`; `citationGrader` with its memory of topics; the choice between exhibits |
| `Serve`, `Stop`, `Hear`, `Send` | responders: discovery from the board, witnesses, exhibits that may be unsigned, damaged or of something else |
| `Subscribe`, `Seed`, `Signal`, `Read`, `ReadFails`, `Keep` | the projection: subscription, first fill, dirty marks, refresh of either goroutine |
| `Asked`, `Search` | the answering goroutine: refresh, then search |
| `Tick`, `Refreshed`, `NextHabit`, `Judge`, `Act` | a round: refresh, then each habit over a snapshot, each topic read again before the operation is posted |
| `Dies` | the curator stops and starts with nothing |
| `Post`, `Stored`, `Age` | the others: a subscriber may hear of an operation before the stream has it; the idle window passes |

Each topic has one work item, opened as the topic was; `About` says which operations
concern it: its claims, abandons and completion always, comments and attachments if they
are anchored to it, and nothing else (edits, resolves, removals and replies to a comment on
the item do not count in `StaleClaims` either). Since only the reclaiming habit looks at
the difference, `About` makes it in the scenarios that have this habit and not in the
others. `Holding` is the fold's state machine in short: the first claim since the item was
last open, unless it is done. `StaleClaim` is the code's rule: the item is held, and
everything `Related` to it, the events the fold found void included, is older than
the window.

`Alike` is a constant relation between topics in place of the comparison of titles.
Whether the answering goroutine was in the middle of a refresh when a pass began is
kept in `blurred`; whether the memory holds an older reading over a younger one is in
`excused`. Both are states the code can be in, see section 5.

## 3. What is checked

| Run | Question | Bounds |
|---|---|---|
| `log_readers` | Is compaction invisible, and are reads exact, under every interleaving of two handles that post, mark dormant, materialise, follow and compact? Is `IInv` an invariant? | 2 handles, 4 operations |
| `log_archival` | Is archival final, and is every step one of the abstract specification, with racing writers, lost acknowledgements, failures, cancellations and restarts of `Close` and `Archive`? | 2 handles, 4 operations, 2 compaction attempts |
| `log_liveness` | Do calls end and followers catch up, even with messages no reader can parse? | 2 handles, 3 operations, 2 attempts |
| `fold` | Does compaction preserve what operations mean, and do they mean what the documentation says? | 2 personas, 4 operations, 2 compactions, seven kinds of conversation |
| `manifest` | Do stream and store stay consistent when rollups store boxes, attachments are withdrawn and archivals sweep, with failing requests, lost answers and crashes? | 2 handles, 6 operations, 2 objects, 2 attempts, three scenarios |
| `directory` | Do chains only grow, vouches stand, seeds survive and readers trust, when processes publish, rotate, vouch and read in any order and fail? | 2 personas (1 operator, 1 of an earlier version), 2 processes, 1 reader, 3 keys, 3 writes per entry, three scenarios |
| `mail` | Is a turn stored once and everybody told, and is no notification lost, when two provisioners and a poster work on a fresh or an old realm? | 2 personas, 1 turn with 2 attempts, 2 provisioning runs, window 2 with 3 old notifications, three scenarios |
| `exchange` | Are answers attributed, credited and graded rightly, and is the curator's memory fresh, its notes unrepeated and its actions true, with deadlines, compactions, failures and restarts? | 2 topics that look alike, 2 responders, 2-4 operations, 1-2 rounds, up to 3 asks, thirteen scenarios |
| `claim_nothing_lost`, `claim_rotation`, `claim_converges`, `claim_newer` | counterexamples to sentences of the documentation | as above; `claim_rotation` and `claim_newer` without faults |

Safety properties of `TopicLog`: `CompactionInvisible` (a cold reader of the
compacted log gets content, lifecycle and frontier of the uncompacted one),
`ReadsExact` (a reader holds the view of the topic at the last operation
delivered to it; a drain is as recent as its call), `ParentsAcrossSeams` (no
operation is parented on a rollup's baseline, on itself or on anything later),
`ArchiveSeesArchived` (no Archive ends on a log that does not say archived).
Action properties: `ArchivedIsTerminal`, `RefusalSticks` (a handle that has
observed the archival goes on refusing). Liveness: `CallsReturn`,
`FollowersCatchUp`. `KeepsPromise` is the refinement of `Topic`.

Properties of `Conversation`: `TidyingInvisible` (the compacted and the whole
log give the same elements, lifecycle and leaves, and go on doing so after
every further operation), `FollowerAgrees` (so does a follower that has met the
baselines as messages), `OwnWordsNewestWins`, `FirstClaimWins`, `GrantsStand`,
`LifecycleAsWritten` (each states the outcome from the log alone, without
repeating the state machine of the fold), `PartsStayAnchors` (what is anchored
to a part of the conversation never dangles).

Properties of `Manifest`: `TicketsHonoured` (the baseline the stream retains opens,
and its box holds what was baked), `BytesKept` (an attachment's blob is there unless it
is withdrawn and the topic archived), `ColdOnlyGrows` (a step adds to what new
readers see at most what it posts, and takes nothing away: with documents in boxes
and inline alike), `NoLitter` (if no rollup stumbled, the store holds the box of the
current baseline and no other).

Properties of `Directory`: `NobodyDistrusted` (every published chain holds
together, every pin is a prefix of it, no reader distrusts anybody, and `profile
show` cries substitution only over a profile it read before a rotation),
`VouchesStand` (an honest vouch never reads as failed, whichever side rotated
since), `SeedHeld` (the seed of the published key is in the file, set aside, or in
the hands of the rotation that swaps it in, unless a rotation met a fault or `key
init` ran beside a published key). Action properties: `ChainsGrow`,
`EnsureOnlyAddsTheKey`.

Properties of `Mail`: `NoNoteVanishes`, `NotesAndTurnsAgree` (a notification points
to a stored turn, and a call without error has told everybody), `OneTurn`,
`OneIdentity`, `NewestKept` (the inbox reads newest first, and what it shed is older
than what it kept, unless a move wrote behind younger messages).

Properties of `Exchange`: `OneVoiceEach`, `FetchBest` (a fetch settles for less than
a verified exhibit only when time is up or nobody is there), `SameGrade` (whether a
witness is believed does not depend on when it answered). Of `Curator`:
`FreshOrDirty` (a topic the memory is behind on is marked, being read or about to be
heard of), and the action properties `NeverRepeats` (no second flag and no second
nudge in one quiet spell, restarts included) and `ActsOnFresh`. The
last is stated from the log, not from the helpers the curator decides with: as of its last
reading, no topic is marked dormant in which anything happened lately, and no work is
given back that is done, that nobody holds, or that somebody showed lately to be at, be it by a
claim that lost or by a comment or attachment on the item. It has two mutants: a curator that
trusts its memory, and one that looks at the age of the holding claim alone.

Every property of a passing run has a mutant, the definition with an underscore in
its name next to the one it replaces, that TLC finds it violated under.

### Bounds

`MaxOps` counts the birth baseline. With four operations there is room for what
a compaction can get wrong: one operation before it, the compaction, one raced
against it and one that follows. The shortest counterexamples to `NothingLost`
and to the mutants need three or four. `Retries` is 2 where the code has
`archiveRetries = 3`: two attempts already tell "lost, then won" from "lost to
the end", and the proofs hold for any number. In `log_liveness` three operations
suffice to exhaust the attempts, since an unparsable last message makes every one
lose. `Conversation` allows four operations and two compactions, so that a
baked baseline is baked again and an edit of an edit, or a claim after an abandoned
claim, can fall on either side of a seam. The kinds of conversation are checked one by
one (`Families`): the elements of different kinds share only the count of
content operations and the frontier, which every kind exercises.

In `manifest` six operations leave room for two attachments, their withdrawals, an
archival and its compaction, or for three rollups with something to compact
between them; two objects are two generations of boxes, an orphan and a box, or two
attachments. The scenarios (`OneByOne`) are compaction with readers, compaction
with followers, and attachments with archival; what is left out by not mixing
them, an attachment in a box, is covered by the theorems where it matters
(`TicketsHonoured`), and by `Docs`, in which a box carries attachments too: an
archival's own compaction puts them there and its second Archive reads them back.

In `directory` three keys are two rotations of one persona, or one of each: enough
for a chain with two links, a pin that lies behind by one or two, and a key that is
generated and lost. Three writes per entry let a publish and a rotation come before
the one that races. Two processes suffice for every read-then-write race, since each
races on one entry. The scenarios keep apart two racing processes with faults, one
process with faults beside a reader, and vouching with a reader.

In `mail` an inbox of the old realm has one message more than the window, so that a
migration has something to leave behind, and the window is 2, so that order within it
matters. Two attempts at a turn tell first from again. Two provisioning runs are two at
once, or one that dies and the one after it.

In `exchange` each scenario has what one question needs (see `MCCurator`): the second
ask for an answer that comes too late, two responders of one persona for the
credit, a second round for a repetition, a `baseline` among the operations
for a rollup under a reader. A stopped realm is a final state there and in `mail`,
whose operations are bounded, so deadlock is not checked in those two.

When the stream is full (`Len(log) = MaxOps`) an open call's publish may fail
(`PublishFails`), so that the bound never blocks a call. Deadlock is checked on
`TopicLog` and `Directory`; `Conversation` stops at its bound.

### Fairness

`FairSpec` assumes weak fairness of `Step(h)` for each handle: a call in progress
is a goroutine that keeps running, its consumer delivers what is retained, and a
publish is answered, one way or another. Nothing is assumed of the personas
(posting, calling), of `Interrupt`, `Crash` or `PublishGarbage`. Calls have no
timeouts of their own in this part of the code; contexts are the caller's
(`Interrupt`). No fairness is assumed of the other modules, and no liveness stated:
there a call ends by a deadline of its own or by its caller's context.

## 4. What is proved

Every invariant and every action property that a run checks, and the refinement of
`Topic`, is also a theorem, for any value of the constants. Assumed are only the named
assumptions of the modules (`ConstantsAssumption`, `ManifestAssumption` and so on: types,
and finite sets where the code has them). What TLC explores on small instances is thus
the same formula that is proved in general, and the mutants show that the formula
tells the code from a broken one. None of these properties is inductive; the
invariants that are, and why they are what it takes, follow component by component.

### The log: `TopicLog_proofs`, `TopicLog_promises`

`TopicLog_proofs` proves `TypeCorrect`, `Invariant` (`IInv`), and from it
`CompactionIsInvisible`, `ReadsAreExact`, `ParentsReachAcrossSeams` and
`ArchivedStaysArchived`. `IInv` says:

- of the log (`SoundLog`): it begins with the birth; what is retained begins with a
  baseline; parents are earlier operations and never a rollup's baseline; and a
  rollup's baseline is the checkpoint of a *sound* view, one with at least one leaf,
  whose leaves and content precede it. The leaf is essential: a baseline with an empty
  frontier would be taken for a birth and become a leaf itself;
- of the history (`SoundHistory`): `cold` and `truth` are sound replays, and unless
  tainted they have the same view and `viewAt` is a chain of single operations in
  which baselines change nothing;
- of every handle (`SoundHandle`): its reader's replay is sound, and if it is neither
  torn nor tainted its view is `viewAt[pos]`; its frontier consists of operations.

The argument: seeding with the checkpoint of a view that has leaves gives that view
back (`SeedOfCheckpoint`); what an operation does to a *view* depends on the view
only (`ViewOfApply`), though a replay knows more; so a reader that starts at any
baseline follows `viewAt` (`SoundDeliver`). At a rollup the guard makes the reader's
tail the end of the log (`DrainIsTail`), so its view is that of `cold`, and replacing
the log keeps the view (`SoundReplace`). Every other step moves at most one
handle and appends at most one operation, and what was sound stays so as the log
grows (`SoundGrows`, `SoundStays`). TLC checks `IInv` in `log_readers`.

`TopicLog_promises` adds `CallsSound`: a handle has a reader only while a call is in
progress; and, unless tainted, a replay (also a torn one) and a handle say archived only
of a conversation that is, and a handle that knows of the archival has not drained an
older state (`KnowsArchived`). From it follow `ArchivalIsVisible` and `RefusalsStick`, and
with it `TopicIsImplemented`: under the mapping of `KeepsPromise` each step of
`TopicLog` is a step of `Topic` or changes nothing it speaks of. A post, the transition
of `Close` and of `Archive` write (`WriteStep`); a call begins as an abstract open
read, a delivery to a drain is a stutter, and a delivery to a follower, the end of a drain,
a declined or lost rollup and an interruption are what that read may tell the handle
(`LearnsStep`, `ViewIsLearnable`); a committed rollup is the abstract compaction, in
which nothing changes that anybody can read; a crash forgets.

### The fold: `Conversation_proofs`

For any authors, any sets of operation types and any number of operations and
compactions: `ReadersAreInStep` (`IInv`), and from it all seven invariants of
`Conversation`. The fold is first read off part by part (`EffectForm`): what an operation
makes of contributions, attachments, work items and grants depends on that part and the
operation alone. Two readers that agree on the parts therefore agree after any operation
(`StepAlike`), and baking and seeding keep each part (`BakeForm`, `SeedForm`). `IInv` says

- the three views have the same parts, and their lifecycles simulate each other
  (`Kept`): a baseline says *active* where the whole fold still says *proposed*, and
  the count of content starts anew, which the end of the fold makes up for;
- the three frontiers are equal and not empty, and the reader of the compacted log has
  seen whatever its baked state would name;
- each part is what the log says, without the state machine of the fold: the chains of
  edits of different contributions are disjoint and each shows the newest word of its
  author (`ContributionsLogged`), an item is owned by the first claim since it was last
  let go (`Refereed`), a grant stands unless its granter withdrew it, and the lifecycle
  is what was noted last and still holds (`LifecycleLogged`).

The proof is by step over `Post` and `Rollup`; that the fold of a *given* sequence has
some value is never stated, so no induction over sequences is needed.

### Stream and store: `Manifest_proofs`

`Invariant` (`IInv`) says why a ticket is always good (`TicketsAlwaysHonoured`), although
handles may be at different points of the write order:

- `OwnBoxes`: no two operations have tickets for one box;
- `SoundDraft`, `OwnDrafts`: a box that was put and is not published holds the
  document about to be baked, no ticket and no other draft names it; this is
  what fresh names buy, and what the lost race must leave alone;
- `SoundWaste`: what is about to be deleted was named by an operation older
  than the retained baseline;
- `SoundReader`: a drain holds operations that were accepted, so that what it
  bakes is settled, since operations never change (`ViewStable`).

A step is first reduced to its `Footprint` (it posts, puts, bakes, throws away, or
leaves stream and store alone, and it moves one handle), once for all
twenty-six actions, and each part of the invariant is then proved of a footprint.
This invariant does not speak of torn drains: also a rollup made from one leaves
a ticket that can be redeemed.

`PostsAreKept` (`PostsKept`) adds what is *in* the documents: unless tainted, a baseline
holds the whole history before it, and only what was attached is withdrawn; a drain
overtaken by a compaction is torn or will lose its race; an upload is known to its own
call only; only withdrawn blobs of an archived topic are swept; and each box is the
baseline's, a draft's, or about to be thrown away. The key lemma is that folding what
came before into a document and going on from there is folding it all (`FoldOfFold`). It
gives `BytesAreKept`, `ColdReadersLoseNothing` and `NoLitterIsLeft`.

### Keys and profiles: `Directory_proofs`, `Directory_promises`

`Invariant` adds to `NobodyIsDistrusted` and `ChainsOnlyGrow` that a call under way holds
the entry it read as long as the revision is the one it read (`CallSound`): this is what
makes a write on a revision a write on a document. An incoming document never brings
rotations of its own, a rotation starts from the key it read, and what a reader has
pinned so far is a prefix of the published chain (`ReadersSound`), which is why also a
pins file written by a reader that slept through rotations accuses nobody. `Endorsed`
extends a chain that holds together by its new key, `Merge` keeps the chain, and prefixes
of a chain stay prefixes when it grows.

`RealmIsHonest` (`Honest`) follows the keys: one still in the hands of the call that made
it is in no file, no process and no signature (`KeysFresh`), so that a rotation's new key
cannot be known elsewhere; the seed of the published key is in the file, set aside, or
with the one rotation that swaps it in (`Custody`); drafts, tokens and documents carry
only honest vouches (`DraftSound`, `TokensSound`, `DocumentSound`); and what a reader has
made of a vouch so far fits what the chains will say of it (`ClaimSound`). From it:
`SeedIsHeld`, `VouchesAreUpheld` and `EnsureAddsOnlyTheKey`.

### Turns and inboxes: `Mail_proofs`

`Invariant` says that the duplicate window remembers only what is stored, and that a call
under way has told everybody but those left: `NotesAgreeWithTurns`, `OneIdentityOnly`.
`OneTurnOnly` needs one more fact, that a turn stored is in the window or retried too late.
`NotesAreKept` (`NotesKept`) says that ids are given out in order, that every
notification is in its old place, in the inbox stream or made room for younger ones, and
that a move which has read an inbox has put, or still carries, the newest of it. The last
is what makes the purge harmless (`Purged`) with two provisioners at work and one of them
dead in the middle: `NothingVanishes`, `InboxKeepsTheNewest`.

### Asking, answering, tidying: `Curator_proofs`

The proofs are about the composition of `Exchange` and `Curator`. `CuratorInv` has the parts

- `ThreadsSound`: a goroutine that sweeps holds no reading, one that keeps holds that of
  one topic, never longer than the topic, and nobody answers before the first refresh.
  Without the last, an answer could empty the dirty set while the first fill still
  runs;
- `SoundAsk`: the inbox of an ask holds replies to it only, and every grade given is the
  one that the grader's memory gives now (`GradesStand`). A topic once read stays as
  it was read (`GradeStays`), which is why a rollup between two answers changes nothing;
- `FreshOrDirty` itself, step by step over both goroutines (`FreshStep`).

It gives `AlwaysFreshOrDirty`, `OneVoice` and `GradesAgree`. `FetchIsBest` adds that a fetch
that is still gathering has heard nothing verified and holds the first reply that is
good at all (`FetchSound`).

`ActsOnWhatItRead` adds `ActSound`: what was judged of a topic as it was read remains
true of that view until the operation is posted, since a topic only grows (`ViewKept`,
`LogGrows`), and time only passes. For the operation itself `ActsFresh` turns the judgement
into what the property says of the log: the claim that holds is followed by no abandon,
there is no completion, and no stamp of anything about the item is younger than the window.

`NeverRepeatsItself` adds `OwnSound`, about the notes the curator left itself. Each of them
is *filed* (`OwnFiled`): within what the memory holds of the topic, or on its way there by
either goroutine's refresh, or excused by a race on record; or it was left in this very
round, by this habit or one before, and the topic is marked for the next. That holds as
soon as the projection is ready, so a curator that died and came back knows its notes before
its first pass. Hence a habit that begins its pass with a clear view (`QuietBegins`) finds
no flag of its own in the topics it takes up, and no nudge younger than the last real
activity: times increase along a topic (`Timely`), so that the newest of a kind is never
older in a longer view (`NewestGrows`). While the pass lasts, nobody but itself leaves notes
in its name, and a topic it has acted on is not among those left (`PassHeld`, `QuietStays`).

### Only model-checked

Liveness under fairness, `CallsReturn` and `FollowersCatchUp`: the backends decide
neither `ENABLED` nor what fairness makes of it. The runs of the kind `claim_...` are
counterexamples and have nothing to prove. And no theorem is stated by induction over
data, that is about the value of a recursive function on every argument: what the
proofs use of folds they use one step at a time, as invariants of the state machines.

## 5. Findings

1. `claim_nothing_lost`: a compaction that lands in the middle of another drain
   makes that drain skip operations silently; if it then compacts, they are gone for
   everybody, an archival among them. `docs/rollup.md:25` says "nothing is lost". The
   same purge leaves a slow follower without what it was not handed yet.
2. `claim_rotation`: a watch that was opened before a rotation reads everything its
   author signs afterwards as *failed*, the status of tampering, until it is started
   again; `specs/006-signing/spec.md:185-187` asks for the chain to be extended.
3. `claim_converges`: a provisioning run that dies between narrowing the op-log and
   moving the inboxes is never made up for, since only the run that narrowed
   migrates; `docs/provisioning.md:7` and `specs/014-persona-accountability/spec.md:264-266`
   promise that running it again converges.
4. `claim_newer`: the curator orders look-alikes by the time of their latest baseline,
   so that after a rollup of the older topic the flag goes to it;
   `docs/curator.md:24-25` says it goes to the newer.

Modelled, and worth a maintainer's look, though no run is spent on each:

- *Rollup.* With an unparsable last message every rollup fails with `ErrRollupLost`
  though nothing landed since the drain (`rollup.go:85`; `rollup.go:19-21` says
  something did). After a compaction a comment on an operation that is not baked (a
  transition, a resolve) dangles, where `docs/rollup.md:15-16` has every comment still
  point where it did. A rollup deletes the superseded box at once (`rollup.go:96`)
  while somebody who drained that baseline has yet to fetch it: that reader sees a malformed
  topic, forgets an archival, and a follower stays malformed until started anew
  (`docs/rollup.md:48`: "Readers barely notice").
- *Handles.* `Post` refuses only on what its own handle observed, so an archived topic
  accepts content from handles that have not read since; a follower replays the past
  through `adopt`, so that for a while its handle forgets that the topic is archived
  (`RefusalSticks` excepts it).
- *Directory.* `SavePins` writes the whole file, so pins can shrink
  (`keystore.go:100-102` calls them only ever extended); they shrink to prefixes, which
  `NobodyDistrusted` shows to be harmless to trust. `profile show` looks the profile
  up before it loads the pins, so that a rotation and a refresh of the pins in between
  make it cry substitution (`Alarm`). `EnsureSigningKey` looks the entry up and `Publish`
  reads it again (`ensure.go:21`, `kv.go:55`): a publish in between is overwritten with
  the older metadata. When the answer to a rotation's write is lost, or the new seed
  cannot be saved, the published key is one nobody has, and from then on `Rotate` and
  every publish with a key are refused.
- *Inboxes.* Migrated notifications land behind those posted meanwhile and can push them
  out; two provisioners further apart than the duplicate window move a notification
  twice (`behind`). Between narrowing and the creation of the inbox stream a
  notification is captured by no stream: `PostTurn` then returns both an op-id and an
  error, and a caller that starts over under a new id posts a second turn.
- *Curator.* A refresh of the answering goroutine and one of the ticker may read in
  one order and keep in the other, so that an older view stays until the next
  operation on the topic (`excused`; `projection.go:29-30` and `curator.go:70-72`
  speak of at most one tick). A pass of the ticker may begin while the answering
  goroutine holds the dirty set, so that a note is repeated (`blurred`); `comment` reads the topic again but does not judge again.
  `specs/009-curator/analysis.md` D2 accepts rare doubles. A rollup resets the
  clock of dormancy, a nudge wakes a topic that was marked dormant, and the reclaiming
  abandon can hit a claim made between its read and its publish.

## 6. What is not modelled

Canonical bytes, names, cryptography (a signature is the key that made it); record
headers other than type, author and parents, where `TopicLog` is concerned; the expiry
of grants and posting on behalf; limits of message size and byte budgets of streams;
the conformance report; the grammar of mentions and the likeness of titles (a relation);
more than one work item in a topic, or one opened later, where the curator is concerned
(`Conversation` has them; reclaiming treats each item on its own);
`FollowInbox`, which hands on what the inbox stream delivers; `OperatorChain` and the
printing of principals, which only read; sub-topics and malformed announcements on the
board; a topic whose announcement is published and whose baseline never is, except that
`Exchange` and `Curator` have topics not started yet; a witness gives at most one answer
per query. The JetStream server is modelled by the contract the code relies on.
A `Handle` has no lock and is not meant to be shared: two concurrent calls on one are
left out. The tool catalogue is a validated wrapper around single puts and gets;
the other commands and the MCP server's other tools call one library function each
and print, and configuration is reading files: no state of theirs outlives a call.

Between components, a module stands for what surrounds it by the choices it leaves open:
`Curator` composes the exchange, the topics and the projection; the log of `TopicLog`
is not composed with the keyring of `Directory`, since a signature status gates no
operation.

## 7. Plan

Done: the modules of section 2, the runs of section 3 and the proofs of section 4. No
safety property of a run is left without its theorem.

Proofs still worth their while: what the exceptions of the safety properties cost, as
theorems that say exactly when a history becomes `tainted`, a note `excused` or a
topic `blurred`; and that the three abstractions of the fold agree where they
overlap, the frontier and lifecycle rules of `TopicReplay` with those of `TopicFold`.

Models still worth writing: `StartTopic` with its announcement before the first baseline
[2 personas], grants with their expiry and posting on behalf [2 grants, 2 moments].
