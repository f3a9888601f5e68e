------------------------------ MODULE TopicFold ------------------------------
(***************************************************************************)
(* The fold of topic/view.go in full: how each operation changes the view, *)
(* what a rollup bakes of the view into a baseline, and what a reader      *)
(* seeds from a baked baseline. A view is a value; nothing here has state. *)
(*                                                                         *)
(* An op-id is a number, larger for an operation accepted later, and the   *)
(* elements of a view are functions of op-ids: stream order is id order.   *)
(* Bodies are represented by the op-id that supplied them; timestamps,     *)
(* mentions, names and signature annotations ride along unexamined.        *)
(***************************************************************************)
EXTENDS Integers

Nobody == "nobody"
NoOp   == 0          \* a missing or empty anchor

(* The types apply distinguishes, and "ignored": an unknown type, or a     *)
(* payload lacking its title, body, grantee or scope. comment.add and      *)
(* comment.reply fold alike.                                               *)
WorkRefs == {"work.claim", "work.done", "work.abandon"}

Anchored  == {"comment.add", "attachment.add"}
Targeted  == {"edit", "comment.resolve", "attachment.remove", "grant.revoke"}
               \cup WorkRefs
Openers   == {"turn.post", "work.open", "grant.issue", "ignored"}

(* life.transition, to each lifecycle it can name.                         *)
Lifecycles == {"proposed", "active", "dormant", "closed", "archived"}

(* A view in the making holds the elements by op-id, the running           *)
(* lifecycle, how many content ops counted, and the op-ids seen and        *)
(* referenced. A baseline at birth bakes nothing.                          *)
Empty == [x \in {} |-> x]

Put(f, k, v) == [x \in DOMAIN f \cup {k} |-> IF x = k THEN v ELSE f[x]]

Nothing ==
  [contributions |-> Empty, attachments |-> Empty, work |-> Empty, grants |-> Empty,
   lifecycle |-> "proposed", leaves |-> {}]

(* content(): one applied content op; it wakes a dormant topic.            *)
Counted(v) ==
  [v EXCEPT !.contentOps = @ + 1,
            !.lifecycle = IF @ = "dormant" THEN "active" ELSE @]

(* editTarget: the contribution an op-id stands for, itself or through one *)
(* of its applied edits.                                                   *)
Edited(v, id) ==
  {c \in DOMAIN v.contributions : id = c \/ id \in v.contributions[c].edits}

-----------------------------------------------------------------------------
(* One operator per type of operation: v is the view, id and author those  *)
(* of the operation, t its anchor.                                         *)

Contribute(v, id, author, type, anchor) ==
  [Counted(v) EXCEPT !.contributions =
     Put(@, id, [author |-> author, type |-> type, anchor |-> anchor, body |-> id,
                 edits |-> {}, resolvedBy |-> Nobody])]

(* Operators in whose name there is an underscore are wrong variants of    *)
(* the definition that follows them, each the bug some property is there   *)
(* to catch; the specification does not use them. Here, anybody edits.     *)
Edit_Anyones(v, id, author, t) ==
  LET found == Edited(v, t) IN
  IF found = {} THEN v
  ELSE LET c == CHOOSE c \in found : TRUE IN
       [Counted(v) EXCEPT !.contributions[c].body = id,
                          !.contributions[c].edits = @ \cup {id}]

(* Only the author's own words can be replaced; the newest body shows.     *)
Edit(v, id, author, t) ==
  LET mine == {c \in Edited(v, t) : v.contributions[c].author = author} IN
  IF mine = {} THEN v
  ELSE LET c == CHOOSE c \in mine : TRUE IN
       [Counted(v) EXCEPT !.contributions[c].body = id,
                          !.contributions[c].edits = @ \cup {id}]

(* Anyone may settle a comment, once; a turn is not a comment.             *)
Resolve(v, author, t) ==
  LET open == {c \in Edited(v, t) : /\ v.contributions[c].type # "turn.post"
                                    /\ v.contributions[c].resolvedBy = Nobody} IN
  IF open = {} THEN v
  ELSE LET c == CHOOSE c \in open : TRUE IN
       [Counted(v) EXCEPT !.contributions[c].resolvedBy = author]

Attach(v, id, author, anchor) ==
  [Counted(v) EXCEPT !.attachments =
     Put(@, id, [author |-> author, anchor |-> anchor, removedBy |-> Nobody])]

(* Removed once, by anyone; removing nothing is nothing.                   *)
Remove(v, author, t) ==
  IF t \in DOMAIN v.attachments /\ v.attachments[t].removedBy = Nobody
  THEN [Counted(v) EXCEPT !.attachments[t].removedBy = author]
  ELSE v

OpenWork(v, id, author) ==
  [Counted(v) EXCEPT !.work =
     Put(@, id, [author |-> author, status |-> "open", owner |-> Nobody,
                 timeline |-> Empty])]

(* Wrong: a claim takes over a claimed item.                               *)
Accepts_LastClaim(status, type) ==
  \/ type = "work.claim"   /\ status # "done"
  \/ type = "work.done"    /\ status # "done"
  \/ type = "work.abandon" /\ status = "claimed"

(* The work state machine: which events it accepts, and their effect.      *)
Accepts(status, type) ==
  \/ type = "work.claim"   /\ status = "open"
  \/ type = "work.done"    /\ status # "done"
  \/ type = "work.abandon" /\ status = "claimed"

After(item, type, author) ==
  CASE type = "work.claim"   -> [item EXCEPT !.status = "claimed", !.owner = author]
    [] type = "work.done"    -> [item EXCEPT !.status = "done"]
    [] type = "work.abandon" -> [item EXCEPT !.status = "open", !.owner = Nobody]

(* A reference to a work item counts as content even when the item is      *)
(* unknown, though not when there is none; on a known item it is logged,   *)
(* void when not accepted.                                                 *)
ReferToWork(v, id, author, type, t) ==
  IF t = NoOp THEN v
  ELSE IF t \notin DOMAIN v.work THEN Counted(v)
  ELSE LET item == v.work[t]
           ok   == Accepts(item.status, type)
           next == IF ok THEN After(item, type, author) ELSE item
           ev   == [kind |-> type, author |-> author, void |-> ~ok]
       IN  [Counted(v) EXCEPT !.work[t] =
              [next EXCEPT !.timeline = Put(@, id, ev)]]

IssueGrant(v, id, author) ==
  [Counted(v) EXCEPT !.grants =
     Put(@, id, [granter |-> author, status |-> "active", timeline |-> Empty])]

(* Wrong: anybody revokes.                                                 *)
RevokeGrant_ByAnyone(v, id, author, t) ==
  IF t \notin DOMAIN v.grants THEN v
  ELSE LET void == v.grants[t].status # "active" IN
       [Counted(v) EXCEPT !.grants[t].status = "revoked",
                          !.grants[t].timeline =
                            Put(@, id, [author |-> author, void |-> void])]

(* Only the granter's revoke of an active grant moves it.                  *)
RevokeGrant(v, id, author, t) ==
  IF t = NoOp THEN v
  ELSE IF t \notin DOMAIN v.grants THEN Counted(v)
  ELSE LET g    == v.grants[t]
           void == author # g.granter \/ g.status # "active"
           ev   == [author |-> author, void |-> void]
       IN  [Counted(v) EXCEPT !.grants[t] =
              [g EXCEPT !.status = IF void THEN @ ELSE "revoked",
                        !.timeline = Put(@, id, ev)]]

(* Wrong: a closed topic falls asleep.                                     *)
Move_ClosedSleeps(v, to) ==
  IF v.lifecycle = "archived" \/ to \in {"proposed", "active"} THEN v
  ELSE [v EXCEPT !.lifecycle = to]

(* Archived is terminal; closed does not fall asleep; proposed and active  *)
(* are not moved to by a transition.                                       *)
Move(v, to) ==
  LET stays == \/ v.lifecycle = "archived"
               \/ v.lifecycle = "closed" /\ to = "dormant"
               \/ to \in {"proposed", "active"}
  IN  IF stays THEN v ELSE [v EXCEPT !.lifecycle = to]

(* The effect of an operation on the elements and the lifecycle.           *)
Effect(v, id, op) ==
  CASE op.type = "turn.post"         -> Contribute(v, id, op.author, op.type, NoOp)
    [] op.type = "comment.add"       -> Contribute(v, id, op.author, op.type, op.target)
    [] op.type = "edit"              -> Edit(v, id, op.author, op.target)
    [] op.type = "comment.resolve"   -> Resolve(v, op.author, op.target)
    [] op.type = "attachment.add"    -> Attach(v, id, op.author, op.target)
    [] op.type = "attachment.remove" -> Remove(v, op.author, op.target)
    [] op.type = "work.open"         -> OpenWork(v, id, op.author)
    [] op.type \in WorkRefs          -> ReferToWork(v, id, op.author, op.type, op.target)
    [] op.type = "grant.issue"       -> IssueGrant(v, id, op.author)
    [] op.type = "grant.revoke"      -> RevokeGrant(v, id, op.author, op.target)
    [] op.type = "life.transition"   -> Move(v, op.to)
    [] op.type = "ignored"           -> v

(* One turn of apply's loop over the tail.                                 *)
Step(v, id, op) ==
  Effect([v EXCEPT !.seen       = @ \cup {id},
                   !.referenced = @ \cup op.parents], id, op)

(* The end of apply.                                                       *)
Lifecycle(v) ==
  IF v.lifecycle = "proposed" /\ v.contentOps > 0 THEN "active" ELSE v.lifecycle

Frontier(v) == v.seen \ v.referenced

Dangling(v, elements) ==
  {x \in DOMAIN elements : elements[x].anchor \notin v.seen \cup {NoOp}}

-----------------------------------------------------------------------------
(* Rollups.                                                                *)

(* Wrong: the record of edits is not baked.                                *)
Bake_NoStamps(v) ==
  [contributions |->
     [c \in DOMAIN v.contributions |-> [v.contributions[c] EXCEPT !.edits = {}]],
   attachments |-> v.attachments, work |-> v.work, grants |-> v.grants,
   lifecycle |-> Lifecycle(v), leaves |-> Frontier(v)]

(* The payload of a rollup's baseline: the elements with everything        *)
(* derived stripped, the lifecycle and the frontier.                       *)
Bake(v) ==
  [contributions |-> v.contributions, attachments |-> v.attachments,
   work |-> v.work, grants |-> v.grants,
   lifecycle |-> Lifecycle(v), leaves |-> Frontier(v)]

(* The op-ids a baked state still names: elements, edit stamps and the     *)
(* events of timelines.                                                    *)
Named(b) ==
  DOMAIN b.contributions \cup (UNION {b.contributions[c].edits : c \in DOMAIN b.contributions})
    \cup DOMAIN b.attachments
    \cup DOMAIN b.work \cup (UNION {DOMAIN b.work[w].timeline : w \in DOMAIN b.work})
    \cup DOMAIN b.grants \cup (UNION {DOMAIN b.grants[g].timeline : g \in DOMAIN b.grants})

(* Wrong: edit stamps and the events of timelines are not seen.            *)
Seed_ElementsOnly(id, b) ==
  [contributions |-> b.contributions, attachments |-> b.attachments,
   work |-> b.work, grants |-> b.grants,
   lifecycle |-> b.lifecycle, contentOps |-> 0,
   seen |-> {id} \cup b.leaves \cup DOMAIN b.contributions \cup DOMAIN b.attachments
              \cup DOMAIN b.work \cup DOMAIN b.grants,
   referenced |-> (Named(b) \cup IF b.leaves = {} THEN {} ELSE {id}) \ b.leaves]

(* A reader's start from the baseline id with payload b, whose parents are *)
(* the frontier it records. Recorded leaves make the baseline a checkpoint *)
(* that is no leaf itself; with none recorded it is a birth.               *)
Seed(id, b) ==
  [contributions |-> b.contributions, attachments |-> b.attachments,
   work |-> b.work, grants |-> b.grants,
   lifecycle |-> b.lifecycle, contentOps |-> 0,
   seen |-> {id} \cup Named(b) \cup b.leaves,
   referenced |-> (Named(b) \cup IF b.leaves = {} THEN {} ELSE {id}) \ b.leaves]

(* Wrong: the baseline met mid-log is one more leaf.                       *)
Skip_AsLeaf(v, id, b) ==
  [v EXCEPT !.seen = @ \cup {id} \cup b.leaves, !.referenced = @ \ b.leaves]

(* The baseline id met in the middle of a log: only the frontier counts.   *)
Skip(v, id, b) ==
  [v EXCEPT !.seen = @ \cup {id} \cup b.leaves,
            !.referenced = (@ \cup {id} \cup b.leaves) \ b.leaves]
=============================================================================
