---------------------------- MODULE Conversation ----------------------------
(***************************************************************************)
(* One topic's log growing operation by operation, with compactions at     *)
(* arbitrary moments, and three readers of it: one of the log as it would  *)
(* stand had nobody compacted it, one of the log that is retained, and a   *)
(* follower that has been reading since the topic was born. Compactions    *)
(* here are made by readers that read everything; how they come to is the  *)
(* subject of TopicLog.                                                    *)
(***************************************************************************)
EXTENDS TopicFold, Sequences, FiniteSets

CONSTANTS
  Authors,       (* The personas posting.                                  *)
  Families,      (* The types of operation some conversation consists of.  *)
  Stale,         (* The types also posted without reading since the birth. *)
  MaxOps,        (* Bound: operations posted.                              *)
  MaxRollups     (* Bound: compactions.                                    *)

Types == Anchored \cup Targeted \cup Openers \cup {"life.transition"}

ASSUME ConversationAssumption ==
  /\ Families \subseteq SUBSET Types
  /\ Stale \subseteq Types
  /\ MaxOps \in Nat /\ MaxRollups \in Nat

VARIABLES
  types,     (* The types of operation this conversation consists of.      *)
  log,       (* Every message accepted, rollup baselines included.         *)
  whole,     (* The fold of all operations, no compaction ever made.       *)
  retained,  (* The fold of what is retained.                              *)
  live,      (* The fold of a follower: all operations and all baselines.  *)
  counted    (* History: the operations that counted as content.           *)

vars == <<types, log, whole, retained, live, counted>>

Posted == {i \in 1 .. Len(log) : log[i].type # "baseline"}
Rollups == {i \in 2 .. Len(log) : log[i].type = "baseline"}

Op(author, type, target, to, parents) ==
  [author |-> author, type |-> type, target |-> target, to |-> to, parents |-> parents]

(* StartTopic's baseline is the first record.                              *)
BaselineOp == Op(Nobody, "baseline", NoOp, "proposed", {})

Init ==
  /\ types \in Families
  /\ log = <<BaselineOp>>
  /\ whole = Seed(1, Nothing)
  /\ retained = Seed(1, Nothing)
  /\ live = Seed(1, Nothing)
  /\ counted = {}

(* What personas anchor a type of operation to: anything there ever was    *)
(* for a comment or an attachment; for the others the kinds of operation   *)
(* they are about, or the birth baseline as an example of a wrong target.  *)
(* Any anchor may be missing.                                              *)
Kin(type) ==
  CASE type \in {"edit", "comment.resolve"} -> {"turn.post", "comment.add", "edit"}
    [] type = "attachment.remove"           -> {"attachment.add"}
    [] type = "grant.revoke"                -> {"grant.issue"}
    [] type \in WorkRefs                    -> {"work.open"}
    [] OTHER                                -> {}

Targets(type) ==
  IF type \in Anchored THEN 0 .. Len(log)
  ELSE IF type \in Targeted
       THEN {NoOp, 1} \cup {i \in Posted : log[i].type \in Kin(type)}
       ELSE {NoOp}

(* Operations are parented on the leaves of the topic as it stands or as   *)
(* it was born.                                                            *)
Parents(type) == {Frontier(retained)} \cup IF type \in Stale THEN {{1}} ELSE {}

Destinations(type) == IF type = "life.transition" THEN Lifecycles ELSE {"proposed"}

Post(author, type, target, to, parents) ==
  LET id == Len(log) + 1
      op == Op(author, type, target, to, parents)
  IN
  /\ Cardinality(Posted) < MaxOps
  /\ log' = Append(log, op)
  /\ whole' = Step(whole, id, op)
  /\ retained' = Step(retained, id, op)
  /\ live' = Step(live, id, op)
  /\ counted' = IF whole'.contentOps > whole.contentOps THEN counted \cup {id} ELSE counted
  /\ UNCHANGED types

(* rollup of the retained log: refused when archived (but for the archival *)
(* itself), and when there is nothing but a baseline.                      *)
Rollup ==
  LET id == Len(log) + 1
      b  == Bake(retained)
  IN
  /\ Cardinality(Rollups) < MaxRollups
  /\ log[Len(log)].type # "baseline"
  /\ log' = Append(log, BaselineOp)
  /\ retained' = Seed(id, b)
  /\ live' = Skip(live, id, b)
  /\ UNCHANGED <<types, whole, counted>>

Next ==
  \/ \E author \in Authors, type \in types :
       \E target \in Targets(type), parents \in Parents(type), to \in Destinations(type) :
         Post(author, type, target, to, parents)
  \/ Rollup

Spec == Init /\ [][Next]_vars

-----------------------------------------------------------------------------
(* Properties.                                                             *)

Views(v) ==
  /\ v.lifecycle \in Lifecycles
  /\ v.contentOps \in 0 .. MaxOps
  /\ v.seen \subseteq 1 .. Len(log)
  /\ v.referenced \subseteq 1 .. Len(log)
  /\ DOMAIN v.contributions \cup DOMAIN v.attachments
       \cup DOMAIN v.work \cup DOMAIN v.grants \subseteq Posted

(* The types of the model.                                                 *)
TypeOK ==
  /\ log[1] = BaselineOp
  /\ \A i \in Posted : log[i].author \in Authors /\ log[i].type \in types
  /\ Views(whole) /\ Views(retained) /\ Views(live)
  /\ counted \subseteq Posted

Same(v, w) ==
  /\ v.contributions = w.contributions
  /\ v.attachments = w.attachments
  /\ v.work = w.work
  /\ v.grants = w.grants
  /\ Lifecycle(v) = Lifecycle(w)
  /\ Frontier(v) = Frontier(w)

(* docs/rollup.md: "Nothing changes for anyone". Reading the compacted log *)
(* gives the conversation the uncompacted log gives: every element in the  *)
(* state its operations left it in, the same lifecycle, the same leaves to *)
(* post onto; and every later operation has the same effect on both, edits *)
(* of edits, late claims and revokes across the seam included.             *)
TidyingInvisible == Same(retained, whole)

(* A follower that kept the pre-rollup history and then met the baselines  *)
(* as messages sees that same conversation.                                *)
FollowerAgrees == Same(live, whole)

Adrift(v) == Dangling(v, v.contributions) \cup Dangling(v, v.attachments)

(* What a comment or an attachment is anchored to never dangles while it   *)
(* is still a part of the conversation: an element, an applied edit or an  *)
(* event of a timeline, however many compactions ago it was posted.        *)
PartsStayAnchors ==
  \A x \in Adrift(retained) :
    LET anchor == IF x \in DOMAIN retained.contributions
                  THEN retained.contributions[x].anchor
                  ELSE retained.attachments[x].anchor
    IN  anchor \notin Named(Bake(whole))

About(t, type) == {i \in Posted : log[i].type = type /\ log[i].target = t}

(* docs/work-items.md: the log is the referee. What the log says of a work *)
(* item, read off without a state machine: done if anyone ever said done;  *)
(* otherwise claimed iff somebody claimed it since it was last let go. The *)
(* owner is the first of those claimants, and stays so once it is done.    *)
FirstClaimWins ==
  \A w \in DOMAIN retained.work :
    LET done      == About(w, "work.done")
        before    == {i \in Posted : \A d \in done : i < d}
        abandoned == About(w, "work.abandon") \cap before
        claims    == {c \in About(w, "work.claim") \cap before :
                        \A a \in abandoned : a < c}
    IN  /\ retained.work[w].status =
             IF done # {} THEN "done" ELSE IF claims # {} THEN "claimed" ELSE "open"
        /\ \/ claims = {} /\ retained.work[w].owner = Nobody
           \/ \E c \in claims : /\ \A d \in claims : c <= d
                                /\ retained.work[w].owner = log[c].author

(* rollup.go: "A standing grant MUST survive compaction". A grant stands   *)
(* until its granter, and nobody else, has revoked it.                     *)
GrantsStand ==
  /\ DOMAIN retained.grants = {i \in Posted : log[i].type = "grant.issue"}
  /\ \A g \in DOMAIN retained.grants :
       retained.grants[g].status = "revoked"
         <=> \E i \in About(g, "grant.revoke") : log[i].author = log[g].author

(* docs/editing.md: "Your words are yours", "The newest version wins". A   *)
(* contribution shows its author's newest correction of it, or of a prior  *)
(* correction of it, and nobody else's.                                    *)
OwnWordsNewestWins ==
  \A c \in DOMAIN retained.contributions :
    LET k     == retained.contributions[c]
        chain == {c} \cup k.edits
    IN  /\ k.body \in chain /\ \A e \in chain : e <= k.body
        /\ k.edits = {e \in Posted : /\ log[e].type = "edit"
                                     /\ log[e].author = log[c].author
                                     /\ log[e].target \in chain}

(* docs/lifecycle.md: "you read the pages and work it out, and everyone    *)
(* works out the same answer". Archived beats closed beats everything; the *)
(* topic sleeps iff nothing counted since somebody noted it was idle.      *)
LifecycleAsWritten ==
  LET noted(l) == {i \in Posted : log[i].type = "life.transition" /\ log[i].to = l}
      asleep   == \E d \in noted("dormant") : \A i \in counted : i < d
  IN  Lifecycle(retained) =
        IF noted("archived") # {} THEN "archived"
        ELSE IF noted("closed") # {} THEN "closed"
        ELSE IF asleep THEN "dormant"
        ELSE IF counted # {} THEN "active" ELSE "proposed"
=============================================================================
