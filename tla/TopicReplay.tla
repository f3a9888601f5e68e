---------------------------- MODULE TopicReplay ----------------------------
(***************************************************************************)
(* The skeleton of topic/view.go's apply: what a replay of an operation    *)
(* log knows, after each operation, of the topic's content, its lifecycle  *)
(* and its frontier. An op-id is the position at which the stream accepted *)
(* the operation. The bodies and the per-element state machines that ride  *)
(* on the same loop are the subject of module TopicFold.                   *)
(***************************************************************************)
EXTENDS Integers, Sequences

Lifecycles == {"proposed", "active", "dormant", "closed", "archived"}

Kinds == {"baseline", "content", "transition", "unreadable"}

(* One operation on the ops subject. `to' is meant by a transition only;   *)
(* `baked', `life' and `leaves' are a baseline's payload: the op-ids of    *)
(* the content folded in, the baked lifecycle and the recorded frontier.   *)
Op == [kind : Kinds, parents : SUBSET Nat, to : Lifecycles,
       baked : SUBSET Nat, life : Lifecycles, leaves : SUBSET Nat]

Content(parents) ==
  [kind |-> "content", parents |-> parents, to |-> "proposed",
   baked |-> {}, life |-> "proposed", leaves |-> {}]

Transition(to, parents) ==
  [kind |-> "transition", parents |-> parents, to |-> to,
   baked |-> {}, life |-> "proposed", leaves |-> {}]

(* A message on the subject that record.Parse rejects.                     *)
Unreadable == [Content({}) EXCEPT !.kind = "unreadable"]

Baseline(baked, life, leaves) ==
  [kind |-> "baseline", parents |-> leaves, to |-> "proposed",
   baked |-> baked, life |-> life, leaves |-> leaves]

(* The op StartTopic publishes first: no state baked in, empty frontier.   *)
Birth == Baseline({}, "proposed", {})

(* The loop's state: the content applied so far, the running lifecycle,    *)
(* whether any content op counted (contentOps > 0), and the op-ids seen    *)
(* and referenced as parents.                                              *)
Replay == [content : SUBSET Nat, life : Lifecycles, woke : BOOLEAN,
           seen : SUBSET Nat, referenced : SUBSET Nat]

Blank == [content |-> {}, life |-> "proposed", woke |-> FALSE,
          seen |-> {}, referenced |-> {}]

(* Operators in whose name there is an underscore are wrong variants of    *)
(* the definition that follows them, each the bug some property is there   *)
(* to catch; the specification does not use them. Here, the baseline of a  *)
(* rollup stays a leaf.                                                    *)
Seed_AsLeaf(id, op) ==
  [content    |-> op.baked,
   life       |-> op.life,
   woke       |-> FALSE,
   seen       |-> {id} \cup op.baked \cup op.leaves,
   referenced |-> (op.parents \cup op.baked) \ op.leaves]

(* What a replay takes from its first record, a baseline with op-id id.    *)
(* Baked ids are interior; a non-empty frontier makes the baseline itself  *)
(* a checkpoint and re-opens the leaves it recorded.                       *)
Seed(id, op) ==
  [content    |-> op.baked,
   life       |-> op.life,
   woke       |-> FALSE,
   seen       |-> {id} \cup op.baked \cup op.leaves,
   referenced |-> (op.parents \cup op.baked
                     \cup IF op.leaves = {} THEN {} ELSE {id}) \ op.leaves]

(* Wrong: archived is a lifecycle like any other.                          *)
LifeAfter_Reopens(life, to) ==
  IF (life = "closed" /\ to = "dormant") \/ to \in {"proposed", "active"} THEN life ELSE to

(* Archived is terminal; closed does not fall asleep; a transition to      *)
(* proposed or active moves nothing.                                       *)
LifeAfter(life, to) ==
  CASE life = "archived"                       -> life
    [] life = "closed" /\ to = "dormant"       -> life
    [] to \in {"proposed", "active"}           -> life
    [] OTHER                                   -> to

(* Wrong: a checkpoint met mid-log closes the leaves it is parented on.    *)
Apply_ClosesLeaves(r, id, op) ==
  CASE op.kind = "content" ->
         [r EXCEPT !.content = @ \cup {id},
                   !.life = IF @ = "dormant" THEN "active" ELSE @,
                   !.woke = TRUE,
                   !.seen = @ \cup {id},
                   !.referenced = @ \cup op.parents]
    [] op.kind = "transition" ->
         [r EXCEPT !.life = LifeAfter(@, op.to),
                   !.seen = @ \cup {id},
                   !.referenced = @ \cup op.parents]
    [] op.kind = "baseline" ->
         [r EXCEPT !.seen = @ \cup {id},
                   !.referenced = @ \cup op.parents \cup {id}]
    [] op.kind = "unreadable" -> r

(* Applying one operation of the tail. A baseline met here is taken for a  *)
(* checkpoint of content the replay already holds: only the frontier       *)
(* bookkeeping is done. An unreadable message never reaches the replay.    *)
Apply(r, id, op) ==
  CASE op.kind = "content" ->
         [content    |-> r.content \cup {id},
          life       |-> IF r.life = "dormant" THEN "active" ELSE r.life,
          woke       |-> TRUE,
          seen       |-> r.seen \cup {id},
          referenced |-> r.referenced \cup op.parents]
    [] op.kind = "transition" ->
         [content    |-> r.content,
          life       |-> LifeAfter(r.life, op.to),
          woke       |-> r.woke,
          seen       |-> r.seen \cup {id},
          referenced |-> r.referenced \cup op.parents]
    [] op.kind = "baseline" ->
         [content    |-> r.content,
          life       |-> r.life,
          woke       |-> r.woke,
          seen       |-> r.seen \cup {id} \cup op.leaves,
          referenced |-> (r.referenced \cup op.parents \cup {id}) \ op.leaves]
    [] op.kind = "unreadable" -> r

(* What apply reports once the loop is over: a proposed topic with content *)
(* is active, and the frontier is what was seen and never referenced.      *)
Life(r) == IF r.life = "proposed" /\ r.woke THEN "active" ELSE r.life

Views == [content : SUBSET Nat, life : Lifecycles, frontier : SUBSET Nat]

View(r) == [content  |-> r.content,
            life     |-> Life(r),
            frontier |-> r.seen \ r.referenced]

(* What one more operation makes of a view.                                *)
ViewAfter(v, id, op) ==
  CASE op.kind = "content" ->
         [content  |-> v.content \cup {id},
          life     |-> IF v.life \in {"proposed", "dormant"} THEN "active" ELSE v.life,
          frontier |-> (v.frontier \ op.parents) \cup {id}]
    [] op.kind = "transition" ->
         [content  |-> v.content,
          life     |-> LifeAfter(v.life, op.to),
          frontier |-> (v.frontier \ op.parents) \cup {id}]
    [] op.kind \in {"baseline", "unreadable"} -> v

(* Wrong: the lifecycle is not baked.                                      *)
Checkpoint_Reborn(v) == Baseline(v.content, "proposed", v.frontier)

(* The baseline a rollup publishes for the view v: its content, lifecycle  *)
(* and frontier, parented on that frontier.                                *)
Checkpoint(v) == Baseline(v.content, v.life, v.frontier)
=============================================================================
