------------------------- MODULE Conversation_proofs -------------------------
(***************************************************************************)
(* Proofs about Conversation, for any authors, any families of operations  *)
(* and any number of operations and compactions: the uncompacted, the      *)
(* compacted and the followed conversation are the same, and what they say *)
(* is what the log says.                                                   *)
(***************************************************************************)
EXTENDS Conversation, TLAPS

(***************************************************************************)
(* The fold, part by part                                                  *)
(***************************************************************************)

IsMap(f) == f = [x \in DOMAIN f |-> f[x]]

IsView(v) ==
  /\ IsMap(v)
  /\ DOMAIN v = {"contributions", "attachments", "work", "grants",
                 "lifecycle", "contentOps", "seen", "referenced"}

(* The operations about each kind of element.                              *)
Speaking  == {"turn.post", "comment.add", "edit", "comment.resolve"}
Attaching == {"attachment.add", "attachment.remove"}
Working   == {"work.open"} \cup WorkRefs
Granting  == {"grant.issue", "grant.revoke"}

(* What an operation makes of each kind of element, read off the fold: the *)
(* parts of a view do not depend on each other, and none of them on what   *)
(* compactions change.                                                     *)
Mine(f, author, t) ==
  {c \in DOMAIN f : (t = c \/ t \in f[c].edits) /\ f[c].author = author}

Unsettled(f, t) ==
  {c \in DOMAIN f : /\ t = c \/ t \in f[c].edits
                    /\ f[c].type # "turn.post" /\ f[c].resolvedBy = Nobody}

NewContribution(id, author, type, anchor) ==
  [author |-> author, type |-> type, anchor |-> anchor, body |-> id,
   edits |-> {}, resolvedBy |-> Nobody]

NewAttachment(author, anchor) == [author |-> author, anchor |-> anchor, removedBy |-> Nobody]

NewItem(author) ==
  [author |-> author, status |-> "open", owner |-> Nobody, timeline |-> Empty]

NewGrant(author) == [granter |-> author, status |-> "active", timeline |-> Empty]

Amended(f, c, id) == [f EXCEPT ![c].body = id, ![c].edits = @ \cup {id}]

Some(S) == CHOOSE x \in S : TRUE

ContributionsAfter(f, id, op) ==
  IF op.type \in {"turn.post", "comment.add"}
  THEN Put(f, id, NewContribution(id, op.author, op.type, IF op.type = "turn.post" THEN NoOp ELSE op.target))
  ELSE IF op.type = "edit" /\ Mine(f, op.author, op.target) # {}
  THEN Amended(f, Some(Mine(f, op.author, op.target)), id)
  ELSE IF op.type = "comment.resolve" /\ Unsettled(f, op.target) # {}
  THEN [f EXCEPT ![Some(Unsettled(f, op.target))].resolvedBy = op.author]
  ELSE f

Removable(f, t) == t \in DOMAIN f /\ f[t].removedBy = Nobody

AttachmentsAfter(f, id, op) ==
  IF op.type = "attachment.add"
  THEN Put(f, id, NewAttachment(op.author, op.target))
  ELSE IF op.type = "attachment.remove" /\ Removable(f, op.target)
  THEN [f EXCEPT ![op.target].removedBy = op.author]
  ELSE f

Logged(item, id, type, author) ==
  LET ok   == Accepts(item.status, type)
      next == IF ok THEN After(item, type, author) ELSE item
  IN  [next EXCEPT !.timeline = Put(@, id, [kind |-> type, author |-> author, void |-> ~ok])]

WorkAfter(f, id, op) ==
  IF op.type = "work.open"
  THEN Put(f, id, NewItem(op.author))
  ELSE IF op.type \in WorkRefs /\ op.target # NoOp /\ op.target \in DOMAIN f
  THEN [f EXCEPT ![op.target] = Logged(f[op.target], id, op.type, op.author)]
  ELSE f

Revoked(g, id, author) ==
  LET void == author # g.granter \/ g.status # "active"
  IN  [g EXCEPT !.status = IF void THEN @ ELSE "revoked",
                !.timeline = Put(@, id, [author |-> author, void |-> void])]

GrantsAfter(f, id, op) ==
  IF op.type = "grant.issue"
  THEN Put(f, id, NewGrant(op.author))
  ELSE IF op.type = "grant.revoke" /\ op.target # NoOp /\ op.target \in DOMAIN f
  THEN [f EXCEPT ![op.target] = Revoked(f[op.target], id, op.author)]
  ELSE f

(* Whether it counts as content.                                           *)
Stirs(v, op) ==
  \/ op.type \in {"turn.post", "comment.add", "attachment.add", "work.open", "grant.issue"}
  \/ op.type = "edit" /\ Mine(v.contributions, op.author, op.target) # {}
  \/ op.type = "comment.resolve" /\ Unsettled(v.contributions, op.target) # {}
  \/ op.type = "attachment.remove" /\ Removable(v.attachments, op.target)
  \/ op.type \in WorkRefs \cup {"grant.revoke"} /\ op.target # NoOp

Woken(lifecycle) == IF lifecycle = "dormant" THEN "active" ELSE lifecycle

Moved(lifecycle, to) ==
  IF \/ lifecycle = "archived"
     \/ lifecycle = "closed" /\ to = "dormant"
     \/ to \in {"proposed", "active"}
  THEN lifecycle ELSE to

(* e is what is made of v by an operation that leaves all its elements     *)
(* alone but those of one part.                                            *)
Stirred(v, e) ==
  /\ IsView(e) /\ e.seen = v.seen /\ e.referenced = v.referenced
  /\ e.contentOps = v.contentOps + 1 /\ e.lifecycle = Woken(v.lifecycle)

Alike(v, w) ==
  /\ v.contributions = w.contributions /\ v.attachments = w.attachments
  /\ v.work = w.work /\ v.grants = w.grants

LEMMA CountedForm ==
  ASSUME NEW v, IsView(v)
  PROVE  Stirred(v, Counted(v)) /\ Alike(Counted(v), v)
BY DEF IsView, IsMap, Counted, Stirred, Alike, Woken

LEMMA ContributeForm ==
  ASSUME NEW v, IsView(v), NEW id, NEW author, NEW type, NEW anchor,
         NEW e, e = Contribute(v, id, author, type, anchor)
  PROVE  /\ Stirred(v, e)
         /\ e.contributions = Put(v.contributions, id,
              NewContribution(id, author, type, anchor))
         /\ e.attachments = v.attachments /\ e.work = v.work /\ e.grants = v.grants
<1>1. Stirred(v, Counted(v)) /\ Alike(Counted(v), v)
  BY CountedForm
<1> HIDE DEF Counted
<1> QED BY <1>1 DEF Contribute, NewContribution, Stirred, Alike, IsView, IsMap

LEMMA EditForm ==
  ASSUME NEW v, IsView(v), NEW id, NEW author, NEW t, NEW e, e = Edit(v, id, author, t),
         NEW own, own = Mine(v.contributions, author, t)
  PROVE  /\ own = {} => e = v
         /\ own # {} => /\ Stirred(v, e)
                        /\ e.contributions = Amended(v.contributions, Some(own), id)
                        /\ e.attachments = v.attachments
                        /\ e.work = v.work /\ e.grants = v.grants
<1> DEFINE mine == {c \in Edited(v, t) : v.contributions[c].author = author}
<1>1. mine = Mine(v.contributions, author, t)
  BY DEF Edited, Mine
<1>2. Some(mine) = Some(Mine(v.contributions, author, t))
  BY <1>1
<1>3. Stirred(v, Counted(v)) /\ Alike(Counted(v), v)
  BY CountedForm
<1>4. PICK c, u : c = Some(mine) /\ u = Counted(v)
  OBVIOUS
<1>5. mine = {} => Edit(v, id, author, t) = v
  BY DEF Edit
<1>6. mine # {} => Edit(v, id, author, t)
                     = [u EXCEPT !.contributions[c].body = id, !.contributions[c].edits = @ \cup {id}]
  BY <1>4 DEF Edit, Some
<1>7. LET d == [u EXCEPT !.contributions[c].body = id, !.contributions[c].edits = @ \cup {id}]
      IN  /\ IsView(d) /\ d.seen = u.seen /\ d.referenced = u.referenced
          /\ d.contentOps = u.contentOps /\ d.lifecycle = u.lifecycle
          /\ d.contributions = Amended(u.contributions, c, id)
          /\ d.attachments = u.attachments /\ d.work = u.work /\ d.grants = u.grants
  <2>1. IsView(u)
    BY <1>3, <1>4 DEF Stirred
  <2> DEFINE d == [u EXCEPT !.contributions[c].body = id, !.contributions[c].edits = @ \cup {id}]
  <2>2. d.contributions = Amended(u.contributions, c, id)
    BY <2>1 DEF IsView, IsMap, Amended
  <2>3. /\ d.seen = u.seen /\ d.referenced = u.referenced
        /\ d.contentOps = u.contentOps /\ d.lifecycle = u.lifecycle
        /\ d.attachments = u.attachments /\ d.work = u.work /\ d.grants = u.grants
    BY <2>1 DEF IsView, IsMap
  <2>4. IsView(d)
    <3>1. PICK x : x = [u EXCEPT !.contributions[c].body = id]
      OBVIOUS
    <3>2. IsView(x)
      BY <2>1, <3>1 DEF IsView, IsMap
    <3>3. d = [x EXCEPT !.contributions[c].edits = u.contributions[c].edits \cup {id}]
      BY <3>1
    <3> HIDE DEF d
    <3> QED BY <3>2, <3>3 DEF IsView, IsMap
  <2> HIDE DEF d
  <2> QED BY <2>2, <2>3, <2>4 DEF d
<1>8. PICK d : d = [u EXCEPT !.contributions[c].body = id, !.contributions[c].edits = @ \cup {id}]
  OBVIOUS
<1> HIDE DEF mine
<1> QED BY <1>1, <1>2, <1>3, <1>4, <1>5, <1>6, <1>7, <1>8 DEF Stirred, Alike

LEMMA ResolveForm ==
  ASSUME NEW v, IsView(v), NEW author, NEW t, NEW e, e = Resolve(v, author, t),
         NEW unsettled, unsettled = Unsettled(v.contributions, t)
  PROVE  /\ unsettled = {} => e = v
         /\ unsettled # {} => /\ Stirred(v, e)
                        /\ e.contributions = [v.contributions EXCEPT ![Some(unsettled)].resolvedBy = author]
                        /\ e.attachments = v.attachments
                        /\ e.work = v.work /\ e.grants = v.grants
<1> DEFINE open == {c \in Edited(v, t) : /\ v.contributions[c].type # "turn.post"
                                         /\ v.contributions[c].resolvedBy = Nobody}
<1>1. open = Unsettled(v.contributions, t)
  BY DEF Edited, Unsettled
<1>2. Some(open) = Some(Unsettled(v.contributions, t))
  BY <1>1
<1>3. Stirred(v, Counted(v)) /\ Alike(Counted(v), v)
  BY CountedForm
<1>4. PICK c, u : c = Some(open) /\ u = Counted(v)
  OBVIOUS
<1>5. open = {} => Resolve(v, author, t) = v
  BY DEF Resolve
<1>6. open # {} => Resolve(v, author, t) = [u EXCEPT !.contributions[c].resolvedBy = author]
  BY <1>4 DEF Resolve, Some
<1>7. LET d == [u EXCEPT !.contributions[c].resolvedBy = author]
      IN  /\ IsView(d) /\ d.seen = u.seen /\ d.referenced = u.referenced
          /\ d.contentOps = u.contentOps /\ d.lifecycle = u.lifecycle
          /\ d.contributions = [u.contributions EXCEPT ![c].resolvedBy = author]
          /\ d.attachments = u.attachments /\ d.work = u.work /\ d.grants = u.grants
  BY <1>3, <1>4 DEF Stirred, IsView, IsMap
<1>8. PICK d : d = [u EXCEPT !.contributions[c].resolvedBy = author]
  OBVIOUS
<1> HIDE DEF open
<1> QED BY <1>1, <1>2, <1>3, <1>4, <1>5, <1>6, <1>7, <1>8 DEF Stirred, Alike

LEMMA AttachForm ==
  ASSUME NEW v, IsView(v), NEW id, NEW author, NEW anchor,
         NEW e, e = Attach(v, id, author, anchor)
  PROVE  /\ Stirred(v, e)
         /\ e.attachments = Put(v.attachments, id,
              NewAttachment(author, anchor))
         /\ e.contributions = v.contributions /\ e.work = v.work /\ e.grants = v.grants
<1>1. Stirred(v, Counted(v)) /\ Alike(Counted(v), v)
  BY CountedForm
<1> HIDE DEF Counted
<1> QED BY <1>1 DEF Attach, NewAttachment, Stirred, Alike, IsView, IsMap

LEMMA RemoveForm ==
  ASSUME NEW v, IsView(v), NEW author, NEW t,
         NEW e, e = Remove(v, author, t)
  PROVE  /\ ~Removable(v.attachments, t) => e = v
         /\ Removable(v.attachments, t) =>
              /\ Stirred(v, e)
              /\ e.attachments = [v.attachments EXCEPT ![t].removedBy = author]
              /\ e.contributions = v.contributions /\ e.work = v.work /\ e.grants = v.grants
<1>1. Stirred(v, Counted(v)) /\ Alike(Counted(v), v)
  BY CountedForm
<1>2. PICK u : u = Counted(v)
  OBVIOUS
<1>3. ~Removable(v.attachments, t) => Remove(v, author, t) = v
  BY DEF Remove, Removable
<1>4. Removable(v.attachments, t) =>
        Remove(v, author, t) = [u EXCEPT !.attachments[t].removedBy = author]
  BY <1>2 DEF Remove, Removable
<1>5. LET d == [u EXCEPT !.attachments[t].removedBy = author]
      IN  /\ IsView(d) /\ d.seen = u.seen /\ d.referenced = u.referenced
          /\ d.contentOps = u.contentOps /\ d.lifecycle = u.lifecycle
          /\ d.attachments = [u.attachments EXCEPT ![t].removedBy = author]
          /\ d.contributions = u.contributions /\ d.work = u.work /\ d.grants = u.grants
  BY <1>1, <1>2 DEF Stirred, IsView, IsMap
<1>6. PICK d : d = [u EXCEPT !.attachments[t].removedBy = author]
  OBVIOUS
<1> QED BY <1>1, <1>2, <1>3, <1>4, <1>5, <1>6 DEF Stirred, Alike

LEMMA OpenWorkForm ==
  ASSUME NEW v, IsView(v), NEW id, NEW author,
         NEW e, e = OpenWork(v, id, author)
  PROVE  /\ Stirred(v, e)
         /\ e.work = Put(v.work, id, NewItem(author))
         /\ e.contributions = v.contributions /\ e.attachments = v.attachments
         /\ e.grants = v.grants
<1>1. Stirred(v, Counted(v)) /\ Alike(Counted(v), v)
  BY CountedForm
<1> HIDE DEF Counted
<1> QED BY <1>1 DEF OpenWork, NewItem, Stirred, Alike, IsView, IsMap

LEMMA ReferToWorkForm ==
  ASSUME NEW v, IsView(v), NEW id, NEW author, NEW type, NEW t,
         NEW e, e = ReferToWork(v, id, author, type, t)
  PROVE  /\ t = NoOp => e = v
         /\ t # NoOp =>
              /\ Stirred(v, e)
              /\ e.work = IF t \in DOMAIN v.work
                          THEN [v.work EXCEPT ![t] = Logged(v.work[t], id, type, author)]
                          ELSE v.work
              /\ e.contributions = v.contributions /\ e.attachments = v.attachments
              /\ e.grants = v.grants
<1>1. Stirred(v, Counted(v)) /\ Alike(Counted(v), v)
  BY CountedForm
<1>2. PICK u, x : u = Counted(v) /\ x = Logged(v.work[t], id, type, author)
  OBVIOUS
<1>3. t = NoOp => ReferToWork(v, id, author, type, t) = v
  BY DEF ReferToWork
<1>4. t # NoOp /\ t \notin DOMAIN v.work => ReferToWork(v, id, author, type, t) = u
  BY <1>2 DEF ReferToWork
<1>5. t # NoOp /\ t \in DOMAIN v.work =>
        ReferToWork(v, id, author, type, t) = [u EXCEPT !.work[t] = x]
  BY <1>2 DEF ReferToWork, Logged
<1>6. LET d == [u EXCEPT !.work[t] = x]
      IN  /\ IsView(d) /\ d.seen = u.seen /\ d.referenced = u.referenced
          /\ d.contentOps = u.contentOps /\ d.lifecycle = u.lifecycle
          /\ d.work = [u.work EXCEPT ![t] = x]
          /\ d.contributions = u.contributions /\ d.attachments = u.attachments
          /\ d.grants = u.grants
  BY <1>1, <1>2 DEF Stirred, IsView, IsMap
<1>7. PICK d : d = [u EXCEPT !.work[t] = x]
  OBVIOUS
<1> QED BY <1>1, <1>2, <1>3, <1>4, <1>5, <1>6, <1>7 DEF Stirred, Alike

LEMMA IssueGrantForm ==
  ASSUME NEW v, IsView(v), NEW id, NEW author,
         NEW e, e = IssueGrant(v, id, author)
  PROVE  /\ Stirred(v, e)
         /\ e.grants = Put(v.grants, id, NewGrant(author))
         /\ e.contributions = v.contributions /\ e.attachments = v.attachments
         /\ e.work = v.work
<1>1. Stirred(v, Counted(v)) /\ Alike(Counted(v), v)
  BY CountedForm
<1> HIDE DEF Counted
<1> QED BY <1>1 DEF IssueGrant, NewGrant, Stirred, Alike, IsView, IsMap

LEMMA RevokeGrantForm ==
  ASSUME NEW v, IsView(v), NEW id, NEW author, NEW t,
         NEW e, e = RevokeGrant(v, id, author, t)
  PROVE  /\ t = NoOp => e = v
         /\ t # NoOp =>
              /\ Stirred(v, e)
              /\ e.grants = IF t \in DOMAIN v.grants
                            THEN [v.grants EXCEPT ![t] = Revoked(v.grants[t], id, author)]
                            ELSE v.grants
              /\ e.contributions = v.contributions /\ e.attachments = v.attachments
              /\ e.work = v.work
<1>1. Stirred(v, Counted(v)) /\ Alike(Counted(v), v)
  BY CountedForm
<1>2. PICK u, x : u = Counted(v) /\ x = Revoked(v.grants[t], id, author)
  OBVIOUS
<1>3. t = NoOp => RevokeGrant(v, id, author, t) = v
  BY DEF RevokeGrant
<1>4. t # NoOp /\ t \notin DOMAIN v.grants => RevokeGrant(v, id, author, t) = u
  BY <1>2 DEF RevokeGrant
<1>5. t # NoOp /\ t \in DOMAIN v.grants =>
        RevokeGrant(v, id, author, t) = [u EXCEPT !.grants[t] = x]
  BY <1>2 DEF RevokeGrant, Revoked
<1>6. LET d == [u EXCEPT !.grants[t] = x]
      IN  /\ IsView(d) /\ d.seen = u.seen /\ d.referenced = u.referenced
          /\ d.contentOps = u.contentOps /\ d.lifecycle = u.lifecycle
          /\ d.grants = [u.grants EXCEPT ![t] = x]
          /\ d.contributions = u.contributions /\ d.attachments = u.attachments
          /\ d.work = u.work
  BY <1>1, <1>2 DEF Stirred, IsView, IsMap
<1>7. PICK d : d = [u EXCEPT !.grants[t] = x]
  OBVIOUS
<1> QED BY <1>1, <1>2, <1>3, <1>4, <1>5, <1>6, <1>7 DEF Stirred, Alike

LEMMA MoveForm ==
  ASSUME NEW v, IsView(v), NEW to,
         NEW e, e = Move(v, to)
  PROVE  /\ IsView(e) /\ Alike(e, v) /\ e.seen = v.seen /\ e.referenced = v.referenced
         /\ e.contentOps = v.contentOps /\ e.lifecycle = Moved(v.lifecycle, to)
BY DEF Move, Moved, IsView, IsMap, Alike

(* The fold applies an operation to each part of the view on its own.      *)
Parts(v, e, id, op) ==
  /\ e.contributions = ContributionsAfter(v.contributions, id, op)
  /\ e.attachments = AttachmentsAfter(v.attachments, id, op)
  /\ e.work = WorkAfter(v.work, id, op)
  /\ e.grants = GrantsAfter(v.grants, id, op)

Applied(v, e, id, op) ==
  /\ IsView(e) /\ e.seen = v.seen /\ e.referenced = v.referenced
  /\ Parts(v, e, id, op)
  /\ Stirs(v, op) => /\ e.contentOps = v.contentOps + 1
                     /\ e.lifecycle = Woken(v.lifecycle)
  /\ ~Stirs(v, op) => /\ e.contentOps = v.contentOps
                      /\ e.lifecycle = IF op.type = "life.transition"
                                       THEN Moved(v.lifecycle, op.to) ELSE v.lifecycle

LEMMA AppliedStirs ==
  ASSUME NEW v, NEW e, NEW id, NEW op, Stirs(v, op), Stirred(v, e), Parts(v, e, id, op)
  PROVE  Applied(v, e, id, op)
BY DEF Applied, Stirred

LEMMA AppliedRests ==
  ASSUME NEW v, IsView(v), NEW e, NEW id, NEW op, ~Stirs(v, op), e = v,
         op.type # "life.transition", Parts(v, e, id, op)
  PROVE  Applied(v, e, id, op)
BY DEF Applied

LEMMA EffectForm ==
  ASSUME NEW v, IsView(v), NEW id, NEW op, op.type \in Types
  PROVE  Applied(v, Effect(v, id, op), id, op)
<1>0. /\ op.type = "turn.post" => Effect(v, id, op) = Contribute(v, id, op.author, "turn.post", NoOp)
      /\ op.type = "comment.add" =>
           Effect(v, id, op) = Contribute(v, id, op.author, "comment.add", op.target)
      /\ op.type = "edit" => Effect(v, id, op) = Edit(v, id, op.author, op.target)
      /\ op.type = "comment.resolve" => Effect(v, id, op) = Resolve(v, op.author, op.target)
      /\ op.type = "attachment.add" => Effect(v, id, op) = Attach(v, id, op.author, op.target)
      /\ op.type = "attachment.remove" => Effect(v, id, op) = Remove(v, op.author, op.target)
      /\ op.type = "work.open" => Effect(v, id, op) = OpenWork(v, id, op.author)
      /\ op.type \in WorkRefs =>
           Effect(v, id, op) = ReferToWork(v, id, op.author, op.type, op.target)
      /\ op.type = "grant.issue" => Effect(v, id, op) = IssueGrant(v, id, op.author)
      /\ op.type = "grant.revoke" => Effect(v, id, op) = RevokeGrant(v, id, op.author, op.target)
      /\ op.type = "life.transition" => Effect(v, id, op) = Move(v, op.to)
      /\ op.type = "ignored" => Effect(v, id, op) = v
  BY DEF Effect, WorkRefs
<1>1. PICK type, author, t, to : type = op.type /\ author = op.author /\ t = op.target /\ to = op.to
  OBVIOUS
<1>a. type \notin Speaking => ContributionsAfter(v.contributions, id, op) = v.contributions
  BY <1>1 DEF ContributionsAfter, Speaking
<1>b. type \notin Attaching => AttachmentsAfter(v.attachments, id, op) = v.attachments
  BY <1>1 DEF AttachmentsAfter, Attaching
<1>c. type \notin Working => WorkAfter(v.work, id, op) = v.work
  BY <1>1 DEF WorkAfter, Working
<1>d. type \notin Granting => GrantsAfter(v.grants, id, op) = v.grants
  BY <1>1 DEF GrantsAfter, Granting
<1>2. CASE type = "turn.post"
  <2>1. PICK e : e = Contribute(v, id, author, "turn.post", NoOp)
    OBVIOUS
  <2>2. Effect(v, id, op) = e
    BY <1>0, <1>1, <1>2, <2>1
  <2>3. /\ Stirred(v, e)
        /\ e.contributions = Put(v.contributions, id,
             NewContribution(id, author, "turn.post", NoOp))
        /\ e.attachments = v.attachments /\ e.work = v.work /\ e.grants = v.grants
    BY <2>1, ContributeForm
  <2>4. ContributionsAfter(v.contributions, id, op) = Put(v.contributions, id,
             NewContribution(id, author, "turn.post", NoOp))
    BY <1>1, <1>2 DEF ContributionsAfter
  <2>5. Stirs(v, op) /\ Parts(v, e, id, op)
    BY <1>1, <1>2, <2>3, <2>4, <1>a, <1>b, <1>c, <1>d DEF Stirs, Parts, Speaking, Attaching, Working, Granting, WorkRefs
  <2> QED BY <2>2, <2>3, <2>5, AppliedStirs
<1>3. CASE type = "comment.add"
  <2>1. PICK e : e = Contribute(v, id, author, "comment.add", t)
    OBVIOUS
  <2>2. Effect(v, id, op) = e
    BY <1>0, <1>1, <1>3, <2>1
  <2>3. /\ Stirred(v, e)
        /\ e.contributions = Put(v.contributions, id,
             NewContribution(id, author, "comment.add", t))
        /\ e.attachments = v.attachments /\ e.work = v.work /\ e.grants = v.grants
    BY <2>1, ContributeForm
  <2>4. ContributionsAfter(v.contributions, id, op) = Put(v.contributions, id,
             NewContribution(id, author, "comment.add", t))
    BY <1>1, <1>3 DEF ContributionsAfter
  <2>5. Stirs(v, op) /\ Parts(v, e, id, op)
    BY <1>1, <1>3, <2>3, <2>4, <1>a, <1>b, <1>c, <1>d DEF Stirs, Parts, Speaking, Attaching, Working, Granting, WorkRefs
  <2> QED BY <2>2, <2>3, <2>5, AppliedStirs
<1>4. CASE type = "edit"
  <2>1. PICK e, f, mine : /\ e = Edit(v, id, author, t) /\ f = v.contributions
                          /\ mine = Mine(f, author, t)
    OBVIOUS
  <2>2. Effect(v, id, op) = e
    BY <1>0, <1>1, <1>4, <2>1
  <2>3. /\ mine = {} => e = v
        /\ mine # {} => /\ Stirred(v, e) /\ e.contributions = Amended(f, Some(mine), id)
                        /\ e.attachments = v.attachments
                        /\ e.work = v.work /\ e.grants = v.grants
    BY <2>1, EditForm
  <2>4. /\ mine = {} => ContributionsAfter(f, id, op) = f /\ ~Stirs(v, op)
        /\ mine # {} => /\ ContributionsAfter(f, id, op) = Amended(f, Some(mine), id)
                        /\ Stirs(v, op)
    BY <1>1, <1>4, <2>1 DEF ContributionsAfter, Stirs, WorkRefs
  <2>5. Parts(v, e, id, op)
    BY <1>1, <1>4, <2>1, <2>3, <2>4, <1>a, <1>b, <1>c, <1>d DEF Parts, Speaking, Attaching, Working, Granting, WorkRefs
  <2>6. op.type # "life.transition"
    BY <1>1, <1>4
  <2> QED BY <2>2, <2>3, <2>4, <2>5, <2>6, AppliedStirs, AppliedRests
<1>5. CASE type = "comment.resolve"
  <2>1. PICK e, f, open : /\ e = Resolve(v, author, t) /\ f = v.contributions
                          /\ open = Unsettled(f, t)
    OBVIOUS
  <2>2. Effect(v, id, op) = e
    BY <1>0, <1>1, <1>5, <2>1
  <2>3. /\ open = {} => e = v
        /\ open # {} => /\ Stirred(v, e)
                        /\ e.contributions = [f EXCEPT ![Some(open)].resolvedBy = author]
                        /\ e.attachments = v.attachments
                        /\ e.work = v.work /\ e.grants = v.grants
    BY <2>1, ResolveForm
  <2>4. /\ open = {} => ContributionsAfter(f, id, op) = f /\ ~Stirs(v, op)
        /\ open # {} => /\ ContributionsAfter(f, id, op) = [f EXCEPT ![Some(open)].resolvedBy = author]
                        /\ Stirs(v, op)
    BY <1>1, <1>5, <2>1 DEF ContributionsAfter, Stirs, WorkRefs
  <2>5. Parts(v, e, id, op)
    BY <1>1, <1>5, <2>1, <2>3, <2>4, <1>a, <1>b, <1>c, <1>d DEF Parts, Speaking, Attaching, Working, Granting, WorkRefs
  <2>6. op.type # "life.transition"
    BY <1>1, <1>5
  <2> QED BY <2>2, <2>3, <2>4, <2>5, <2>6, AppliedStirs, AppliedRests
<1>6. CASE type = "attachment.add"
  <2>1. PICK e : e = Attach(v, id, author, t)
    OBVIOUS
  <2>2. Effect(v, id, op) = e
    BY <1>0, <1>1, <1>6, <2>1
  <2>3. /\ Stirred(v, e)
        /\ e.attachments = Put(v.attachments, id,
             NewAttachment(author, t))
        /\ e.contributions = v.contributions /\ e.work = v.work /\ e.grants = v.grants
    BY <2>1, AttachForm
  <2>4. AttachmentsAfter(v.attachments, id, op) = Put(v.attachments, id,
             NewAttachment(author, t))
    BY <1>1, <1>6 DEF AttachmentsAfter
  <2>5. Stirs(v, op) /\ Parts(v, e, id, op)
    BY <1>1, <1>6, <2>3, <2>4, <1>a, <1>b, <1>c, <1>d DEF Stirs, Parts, Speaking, Attaching, Working, Granting, WorkRefs
  <2> QED BY <2>2, <2>3, <2>5, AppliedStirs
<1>7. CASE type = "attachment.remove"
  <2>1. PICK e, f : e = Remove(v, author, t) /\ f = v.attachments
    OBVIOUS
  <2>2. Effect(v, id, op) = e
    BY <1>0, <1>1, <1>7, <2>1
  <2>3. /\ ~Removable(f, t) => e = v
        /\ Removable(f, t) => /\ Stirred(v, e)
                              /\ e.attachments = [f EXCEPT ![t].removedBy = author]
                              /\ e.contributions = v.contributions
                              /\ e.work = v.work /\ e.grants = v.grants
    BY <2>1, RemoveForm
  <2>4. /\ ~Removable(f, t) => AttachmentsAfter(f, id, op) = f /\ ~Stirs(v, op)
        /\ Removable(f, t) => /\ AttachmentsAfter(f, id, op) = [f EXCEPT ![t].removedBy = author]
                              /\ Stirs(v, op)
    BY <1>1, <1>7, <2>1 DEF AttachmentsAfter, Stirs, WorkRefs
  <2>5. Parts(v, e, id, op)
    BY <1>1, <1>7, <2>1, <2>3, <2>4, <1>a, <1>b, <1>c, <1>d DEF Parts, Speaking, Attaching, Working, Granting, WorkRefs
  <2>6. op.type # "life.transition"
    BY <1>1, <1>7
  <2> QED BY <2>2, <2>3, <2>4, <2>5, <2>6, AppliedStirs, AppliedRests
<1>8. CASE type = "work.open"
  <2>1. PICK e : e = OpenWork(v, id, author)
    OBVIOUS
  <2>2. Effect(v, id, op) = e
    BY <1>0, <1>1, <1>8, <2>1
  <2>3. /\ Stirred(v, e)
        /\ e.work = Put(v.work, id, NewItem(author))
        /\ e.contributions = v.contributions /\ e.attachments = v.attachments
        /\ e.grants = v.grants
    BY <2>1, OpenWorkForm
  <2>4. WorkAfter(v.work, id, op)
          = Put(v.work, id, NewItem(author))
    BY <1>1, <1>8 DEF WorkAfter
  <2>5. Stirs(v, op) /\ Parts(v, e, id, op)
    BY <1>1, <1>8, <2>3, <2>4, <1>a, <1>b, <1>c, <1>d DEF Stirs, Parts, Speaking, Attaching, Working, Granting, WorkRefs
  <2> QED BY <2>2, <2>3, <2>5, AppliedStirs
<1>9. CASE type \in WorkRefs
  <2>1. PICK e, f : e = ReferToWork(v, id, author, type, t) /\ f = v.work
    OBVIOUS
  <2>2. Effect(v, id, op) = e
    BY <1>0, <1>1, <1>9, <2>1
  <2>3. /\ t = NoOp => e = v
        /\ t # NoOp =>
             /\ Stirred(v, e)
             /\ e.work = IF t \in DOMAIN f
                         THEN [f EXCEPT ![t] = Logged(f[t], id, type, author)] ELSE f
             /\ e.contributions = v.contributions /\ e.attachments = v.attachments
             /\ e.grants = v.grants
    BY <2>1, ReferToWorkForm
  <2>4. op.type # "work.open" /\ op.type # "life.transition"
    BY <1>1, <1>9 DEF WorkRefs
  <2>5. /\ t = NoOp => WorkAfter(f, id, op) = f /\ ~Stirs(v, op)
        /\ t # NoOp =>
             /\ WorkAfter(f, id, op) = IF t \in DOMAIN f
                                       THEN [f EXCEPT ![t] = Logged(f[t], id, type, author)] ELSE f
             /\ Stirs(v, op)
    <3>1. t = NoOp => ~Stirs(v, op)
      BY <1>1, <1>9 DEF Stirs, WorkRefs
    <3>2. t # NoOp => Stirs(v, op)
      BY <1>1, <1>9 DEF Stirs
    <3> QED BY <1>1, <1>9, <2>4, <3>1, <3>2 DEF WorkAfter
  <2>6. Parts(v, e, id, op)
    BY <1>1, <1>9, <2>1, <2>3, <2>5, <1>a, <1>b, <1>c, <1>d DEF Parts, Speaking, Attaching, Working, Granting, WorkRefs
  <2> QED BY <2>2, <2>3, <2>4, <2>5, <2>6, AppliedStirs, AppliedRests
<1>10. CASE type = "grant.issue"
  <2>1. PICK e : e = IssueGrant(v, id, author)
    OBVIOUS
  <2>2. Effect(v, id, op) = e
    BY <1>0, <1>1, <1>10, <2>1
  <2>3. /\ Stirred(v, e)
        /\ e.grants = Put(v.grants, id, NewGrant(author))
        /\ e.contributions = v.contributions /\ e.attachments = v.attachments
        /\ e.work = v.work
    BY <2>1, IssueGrantForm
  <2>4. GrantsAfter(v.grants, id, op)
          = Put(v.grants, id, NewGrant(author))
    BY <1>1, <1>10 DEF GrantsAfter
  <2>5. Stirs(v, op) /\ Parts(v, e, id, op)
    BY <1>1, <1>10, <2>3, <2>4, <1>a, <1>b, <1>c, <1>d DEF Stirs, Parts, Speaking, Attaching, Working, Granting, WorkRefs
  <2> QED BY <2>2, <2>3, <2>5, AppliedStirs
<1>11. CASE type = "grant.revoke"
  <2>1. PICK e, f : e = RevokeGrant(v, id, author, t) /\ f = v.grants
    OBVIOUS
  <2>2. Effect(v, id, op) = e
    BY <1>0, <1>1, <1>11, <2>1
  <2>3. /\ t = NoOp => e = v
        /\ t # NoOp =>
             /\ Stirred(v, e)
             /\ e.grants = IF t \in DOMAIN f
                           THEN [f EXCEPT ![t] = Revoked(f[t], id, author)] ELSE f
             /\ e.contributions = v.contributions /\ e.attachments = v.attachments
             /\ e.work = v.work
    BY <2>1, RevokeGrantForm
  <2>4. /\ t = NoOp => GrantsAfter(f, id, op) = f /\ ~Stirs(v, op)
        /\ t # NoOp =>
             /\ GrantsAfter(f, id, op) = IF t \in DOMAIN f
                                         THEN [f EXCEPT ![t] = Revoked(f[t], id, author)] ELSE f
             /\ Stirs(v, op)
    BY <1>1, <1>11 DEF GrantsAfter, Stirs
  <2>5. Parts(v, e, id, op)
    BY <1>1, <1>11, <2>1, <2>3, <2>4, <1>a, <1>b, <1>c, <1>d DEF Parts, Speaking, Attaching, Working, Granting, WorkRefs
  <2>6. op.type # "life.transition"
    BY <1>1, <1>11
  <2> QED BY <2>2, <2>3, <2>4, <2>5, <2>6, AppliedStirs, AppliedRests
<1>12. CASE type = "ignored"
  <2>1. Effect(v, id, op) = v /\ ~Stirs(v, op) /\ op.type # "life.transition"
    BY <1>0, <1>1, <1>12 DEF Stirs, WorkRefs
  <2>2. Parts(v, v, id, op)
    BY <1>1, <1>12, <1>a, <1>b, <1>c, <1>d DEF Parts, Speaking, Attaching, Working, Granting, WorkRefs
  <2> QED BY <2>1, <2>2, AppliedRests
<1>13. CASE type = "life.transition"
  <2>1. PICK e : e = Move(v, to)
    OBVIOUS
  <2>2. Effect(v, id, op) = e /\ ~Stirs(v, op)
    BY <1>0, <1>1, <1>13, <2>1 DEF Stirs, WorkRefs
  <2>3. /\ IsView(e) /\ Alike(e, v) /\ e.seen = v.seen /\ e.referenced = v.referenced
        /\ e.contentOps = v.contentOps /\ e.lifecycle = Moved(v.lifecycle, to)
    BY <2>1, MoveForm
  <2>4. Parts(v, e, id, op)
    BY <1>1, <1>13, <2>3, <1>a, <1>b, <1>c, <1>d DEF Parts, Alike, Speaking, Attaching, Working, Granting, WorkRefs
  <2> QED BY <1>1, <1>13, <2>2, <2>3, <2>4 DEF Applied
<1> QED BY <1>1, <1>2, <1>3, <1>4, <1>5, <1>6, <1>7, <1>8, <1>9, <1>10, <1>11, <1>12, <1>13
        DEF Types, Anchored, Targeted, Openers, WorkRefs

(***************************************************************************)
(* The invariant                                                           *)
(***************************************************************************)

Operation ==
  [author : Authors \cup {Nobody}, type : Types \cup {"baseline"}, target : Nat,
   to : Lifecycles, parents : SUBSET Nat]

(* Operations are about what was posted before them.                       *)
IsLog(L) ==
  /\ L \in Seq(Operation) /\ Len(L) > 0
  /\ \A i \in 1 .. Len(L) : L[i].target < i

PostedIn(L) == {i \in 1 .. Len(L) : L[i].type # "baseline"}

AboutIn(L, t, type) == {i \in PostedIn(L) : L[i].type = type /\ L[i].target = t}

(* Contributions are their author's; a contribution and its edits, its     *)
(* chain, belong to it alone; its edits are what its author said of the    *)
(* chain, and the newest of the chain is its body.                         *)
Contribution ==
  [author : Authors, type : {"turn.post", "comment.add"}, anchor : Nat, body : Nat,
   edits : SUBSET Nat, resolvedBy : Authors \cup {Nobody}]

Chain(f, c) == {c} \cup f[c].edits

EditsOf(f, c, L) ==
  {e \in PostedIn(L) : /\ L[e].type = "edit" /\ L[e].author = L[c].author
                       /\ L[e].target \in Chain(f, c)}

ContributionsLogged(f, L) ==
  /\ f \in [DOMAIN f -> Contribution]
  /\ \A c \in DOMAIN f :
       /\ c \in PostedIn(L) /\ L[c].type \in {"turn.post", "comment.add"}
       /\ f[c].author = L[c].author
       /\ f[c].body \in Chain(f, c) /\ \A e \in Chain(f, c) : e <= f[c].body
       /\ f[c].edits = EditsOf(f, c, L)
  /\ \A c, d \in DOMAIN f : c # d => Chain(f, c) \cap Chain(f, d) = {}

Attachment == [author : Authors, anchor : Nat, removedBy : Authors \cup {Nobody}]

AttachmentsLogged(f, L) ==
  /\ f \in [DOMAIN f -> Attachment]
  /\ \A a \in DOMAIN f : a \in PostedIn(L) /\ L[a].type = "attachment.add"

(* An item is as its events, refereed in the order of the log, left it.    *)
IsItem(k) ==
  /\ IsMap(k) /\ DOMAIN k = {"author", "status", "owner", "timeline"}
  /\ k.status \in {"open", "claimed", "done"}

Undone(L, w) == {i \in PostedIn(L) : \A d \in AboutIn(L, w, "work.done") : i < d}

Claims(L, w) ==
  {c \in AboutIn(L, w, "work.claim") \cap Undone(L, w) :
     \A a \in AboutIn(L, w, "work.abandon") \cap Undone(L, w) : a < c}

Refereed(k, L, w) ==
  /\ k.status = IF AboutIn(L, w, "work.done") # {} THEN "done"
                ELSE IF Claims(L, w) # {} THEN "claimed" ELSE "open"
  /\ \/ Claims(L, w) = {} /\ k.owner = Nobody
     \/ \E c \in Claims(L, w) : /\ \A d \in Claims(L, w) : c <= d
                                /\ k.owner = L[c].author

WorkLogged(f, L) ==
  /\ IsMap(f)
  /\ \A w \in DOMAIN f : w \in PostedIn(L) /\ IsItem(f[w]) /\ Refereed(f[w], L, w)

IsGrant(k) ==
  /\ IsMap(k) /\ DOMAIN k = {"granter", "status", "timeline"}
  /\ k.status \in {"active", "revoked"}

Withdrawn(L, g) == \E i \in AboutIn(L, g, "grant.revoke") : L[i].author = L[g].author

GrantsLogged(f, L) ==
  /\ IsMap(f) /\ DOMAIN f = {i \in PostedIn(L) : L[i].type = "grant.issue"}
  /\ \A g \in DOMAIN f : /\ IsGrant(f[g]) /\ f[g].granter = L[g].author
                         /\ f[g].status = "revoked" <=> Withdrawn(L, g)

PartsLogged(v, L) ==
  /\ ContributionsLogged(v.contributions, L)
  /\ AttachmentsLogged(v.attachments, L)
  /\ WorkLogged(v.work, L)
  /\ GrantsLogged(v.grants, L)

(* The running lifecycle, before the end of the fold tells proposed from   *)
(* active, is what was noted last and still holds.                         *)
Noted(L, l) == {i \in PostedIn(L) : L[i].type = "life.transition" /\ L[i].to = l}

Asleep(L, C) == \E d \in Noted(L, "dormant") : \A i \in C : i < d

LifecycleLogged(v, L, C) ==
  /\ C \subseteq PostedIn(L)
  /\ v.contentOps \in Nat /\ (v.contentOps > 0 <=> C # {})
  /\ IF Noted(L, "archived") # {} THEN v.lifecycle = "archived"
     ELSE IF Noted(L, "closed") # {} THEN v.lifecycle = "closed"
     ELSE IF Asleep(L, C) THEN v.lifecycle = "dormant"
     ELSE v.lifecycle = "proposed" \/ (v.lifecycle = "active" /\ C # {})

(* A baseline says active where the whole fold still says proposed, and    *)
(* starts to count anew.                                                   *)
Kept(r, w) ==
  /\ r.contentOps \in Nat /\ r.lifecycle \in Lifecycles
  /\ r.lifecycle = "proposed" =>
       w.lifecycle = "proposed" /\ (r.contentOps > 0 <=> w.contentOps > 0)
  /\ r.lifecycle = "active" =>
       w.lifecycle = "active" \/ (w.lifecycle = "proposed" /\ w.contentOps > 0)
  /\ r.lifecycle \in {"dormant", "closed", "archived"} => w.lifecycle = r.lifecycle

ViewsAgree ==
  /\ IsView(whole) /\ IsView(retained) /\ IsView(live)
  /\ Alike(retained, whole) /\ Alike(live, whole)
  /\ live.lifecycle = whole.lifecycle /\ live.contentOps = whole.contentOps
  /\ Kept(retained, whole)

Bounded(v, n) == v.seen \subseteq 1 .. n /\ v.referenced \subseteq 1 .. n

FrontiersAgree ==
  /\ Bounded(whole, Len(log)) /\ Bounded(retained, Len(log)) /\ Bounded(live, Len(log))
  /\ Frontier(retained) = Frontier(whole) /\ Frontier(live) = Frontier(whole)
  /\ Frontier(whole) # {}
  /\ Named(Bake(retained)) \subseteq retained.seen

IInv ==
  /\ types \subseteq Types /\ IsLog(log)
  /\ ViewsAgree /\ FrontiersAgree
  /\ PartsLogged(whole, log) /\ LifecycleLogged(whole, log, counted)

(***************************************************************************)
(* The log, grown by one record                                            *)
(***************************************************************************)

Grown(L, M, n, op) ==
  /\ IsLog(L) /\ IsLog(M)
  /\ n \in Nat /\ n = Len(L) + 1 /\ Len(M) = n
  /\ op \in Operation /\ M[n] = op /\ op.target < n
  /\ \A i \in 1 .. Len(L) : M[i] = L[i]

LEMMA LogGrows ==
  ASSUME NEW L, IsLog(L), NEW op \in Operation, op.target \in 0 .. Len(L),
         NEW M, M = Append(L, op), NEW n, n = Len(L) + 1
  PROVE  Grown(L, M, n, op)
<1>1. L \in Seq(Operation) /\ Len(L) \in Nat
  BY DEF IsLog
<1>2. M \in Seq(Operation) /\ Len(M) = n /\ M[n] = op /\ \A i \in 1 .. Len(L) : M[i] = L[i]
  BY <1>1
<1>3. IsLog(M)
  BY <1>1, <1>2 DEF IsLog
<1> QED BY <1>1, <1>2, <1>3 DEF Grown

LEMMA PostedGrows ==
  ASSUME NEW L, NEW M, NEW n, NEW op, Grown(L, M, n, op)
  PROVE  /\ PostedIn(L) \subseteq 1 .. n - 1 /\ n \notin PostedIn(L)
         /\ \A i \in PostedIn(L) : i \in Nat /\ i < n /\ M[i] = L[i] /\ L[i].target # n
         /\ op.type # "baseline" => PostedIn(M) = PostedIn(L) \cup {n}
         /\ op.type = "baseline" => PostedIn(M) = PostedIn(L)
<1>1. Len(L) \in Nat
  BY DEF Grown, IsLog
<1>2. \A i \in 1 .. Len(L) : L[i].target \in Nat /\ L[i].target < i
  <2>1. \A i \in 1 .. Len(L) : L[i] \in Operation
    BY DEF Grown, IsLog
  <2>2. \A x \in Operation : x.target \in Nat
    BY DEF Operation
  <2> QED BY <2>1, <2>2 DEF Grown, IsLog
<1> QED BY <1>1, <1>2 DEF Grown, PostedIn

LEMMA AboutGrows ==
  ASSUME NEW L, NEW M, NEW n, NEW op, Grown(L, M, n, op), NEW t, NEW type, type # "baseline"
  PROVE  /\ AboutIn(L, t, type) \subseteq PostedIn(L)
         /\ op.type = type /\ op.target = t => AboutIn(M, t, type) = AboutIn(L, t, type) \cup {n}
         /\ ~(op.type = type /\ op.target = t) => AboutIn(M, t, type) = AboutIn(L, t, type)
<1>1. M[n] = op
  BY DEF Grown
<1> QED BY <1>1, PostedGrows DEF AboutIn

LEMMA NotedGrows ==
  ASSUME NEW L, NEW M, NEW n, NEW op, Grown(L, M, n, op), NEW l
  PROVE  /\ Noted(L, l) \subseteq PostedIn(L)
         /\ op.type = "life.transition" /\ op.to = l => Noted(M, l) = Noted(L, l) \cup {n}
         /\ ~(op.type = "life.transition" /\ op.to = l) => Noted(M, l) = Noted(L, l)
<1>1. M[n] = op
  BY DEF Grown
<1> QED BY <1>1, PostedGrows DEF Noted

(***************************************************************************)
(* Each part stays what the log says                                       *)
(***************************************************************************)

LEMMA AttachmentsKept ==
  ASSUME NEW L, NEW M, NEW n, NEW op, Grown(L, M, n, op),
         NEW f, AttachmentsLogged(f, L)
  PROVE  AttachmentsLogged(f, M)
BY PostedGrows DEF AttachmentsLogged

LEMMA AttachmentsStep ==
  ASSUME NEW L, NEW M, NEW n, NEW op, Grown(L, M, n, op), op.type # "baseline",
         op.author \in Authors,
         NEW f, AttachmentsLogged(f, L), NEW g, g = AttachmentsAfter(f, n, op)
  PROVE  /\ AttachmentsLogged(g, M)
         /\ DOMAIN g \subseteq DOMAIN f \cup {n}
<1>1. AttachmentsLogged(f, M)
  BY AttachmentsKept
<1>2. n \in PostedIn(M) /\ M[n] = op /\ op.target \in Nat /\ n \notin DOMAIN f
  BY PostedGrows DEF Grown, Operation, AttachmentsLogged
<1>3. CASE op.type = "attachment.add"
  <2>1. PICK r : r = NewAttachment(op.author, op.target)
    OBVIOUS
  <2>2. r \in Attachment
    BY <1>2, <2>1 DEF NewAttachment, Attachment
  <2>3. g = Put(f, n, r)
    BY <1>3, <2>1 DEF AttachmentsAfter
  <2>4. IsMap(g) /\ DOMAIN g = DOMAIN f \cup {n} /\ g[n] = r /\ \A x \in DOMAIN f : x # n => g[x] = f[x]
    BY <2>3 DEF Put, IsMap
  <2> QED BY <1>1, <1>2, <1>3, <2>2, <2>4 DEF AttachmentsLogged, IsMap
<1>4. CASE op.type = "attachment.remove" /\ Removable(f, op.target)
  <2>1. PICK t, author : t = op.target /\ author = op.author
    OBVIOUS
  <2>2. g = [f EXCEPT ![t].removedBy = author] /\ t \in DOMAIN f
    BY <1>4, <2>1 DEF AttachmentsAfter, Removable
  <2>3. [f[t] EXCEPT !.removedBy = author] \in Attachment
    BY <1>1, <2>1, <2>2 DEF AttachmentsLogged, Attachment
  <2>4. g \in [DOMAIN f -> Attachment]
    BY <1>1, <2>2, <2>3 DEF AttachmentsLogged
  <2> QED BY <1>1, <2>4 DEF AttachmentsLogged
<1>5. CASE g = f
  BY <1>1, <1>5
<1> QED BY <1>3, <1>4, <1>5 DEF AttachmentsAfter

LEMMA GrantsKept ==
  ASSUME NEW L, NEW M, NEW n, NEW op, Grown(L, M, n, op), op.type = "baseline",
         NEW f, GrantsLogged(f, L)
  PROVE  GrantsLogged(f, M)
<1>1. PostedIn(M) = PostedIn(L) /\ \A i \in PostedIn(L) : M[i] = L[i]
  BY PostedGrows
<1>2. \A g \in PostedIn(L) : Withdrawn(M, g) <=> Withdrawn(L, g)
  BY <1>1 DEF Withdrawn, AboutIn
<1> QED BY <1>1, <1>2 DEF GrantsLogged

LEMMA GrantsStep ==
  ASSUME NEW L, NEW M, NEW n, NEW op, Grown(L, M, n, op), op.type # "baseline",
         NEW f, GrantsLogged(f, L), NEW g, g = GrantsAfter(f, n, op)
  PROVE  /\ GrantsLogged(g, M)
         /\ DOMAIN g \subseteq DOMAIN f \cup {n}
         /\ \A x \in DOMAIN g :
              DOMAIN g[x].timeline \subseteq IF x \in DOMAIN f THEN DOMAIN f[x].timeline \cup {n}
                                             ELSE {}
<1>1. /\ n \in PostedIn(M) /\ M[n] = op /\ op.target \in Nat /\ op.target < n /\ n \notin DOMAIN f
      /\ n \in Nat /\ PostedIn(M) = PostedIn(L) \cup {n} /\ DOMAIN f \subseteq PostedIn(L)
      /\ \A i \in PostedIn(L) : i \in Nat /\ i < n /\ M[i] = L[i] /\ L[i].target # n
  BY PostedGrows DEF Grown, Operation, GrantsLogged
<1>2. PICK type, author, t : type = op.type /\ author = op.author /\ t = op.target
  OBVIOUS
<1>3. \A x \in PostedIn(L) :
        Withdrawn(M, x) <=> Withdrawn(L, x) \/ (type = "grant.revoke" /\ t = x /\ author = L[x].author)
  BY <1>1, <1>2 DEF Withdrawn, AboutIn
<1>4. CASE type = "grant.issue"
  <2>1. PICK r : r = NewGrant(author)
    OBVIOUS
  <2>2. IsGrant(r) /\ r.granter = author /\ r.status = "active" /\ DOMAIN r.timeline = {}
    BY <2>1 DEF NewGrant, IsGrant, IsMap, Empty
  <2>3. g = Put(f, n, r)
    BY <1>2, <1>4, <2>1 DEF GrantsAfter
  <2>4. IsMap(g) /\ DOMAIN g = DOMAIN f \cup {n} /\ g[n] = r /\ \A x \in DOMAIN f : x # n => g[x] = f[x]
    BY <2>3 DEF Put, IsMap
  <2>5. ~Withdrawn(M, n)
    BY <1>1, <1>2, <1>4 DEF Withdrawn, AboutIn
  <2>6. DOMAIN g = {i \in PostedIn(M) : M[i].type = "grant.issue"}
    BY <1>1, <1>2, <1>4, <2>4 DEF GrantsLogged
  <2>7. \A x \in DOMAIN g : /\ IsGrant(g[x]) /\ g[x].granter = M[x].author
                            /\ g[x].status = "revoked" <=> Withdrawn(M, x)
    <3>1. /\ IsGrant(g[n]) /\ g[n].granter = M[n].author
          /\ g[n].status = "revoked" <=> Withdrawn(M, n)
      BY <1>1, <1>2, <2>2, <2>4, <2>5
    <3>2. ASSUME NEW x \in DOMAIN f
          PROVE  /\ IsGrant(g[x]) /\ g[x].granter = M[x].author
                 /\ g[x].status = "revoked" <=> Withdrawn(M, x)
      BY <1>1, <1>3, <1>4, <2>4 DEF GrantsLogged
    <3> QED BY <2>4, <3>1, <3>2
  <2> QED BY <2>2, <2>4, <2>6, <2>7, <1>1 DEF GrantsLogged
<1>5. CASE type = "grant.revoke" /\ t # NoOp /\ t \in DOMAIN f
  <2>1. PICK r : r = Revoked(f[t], n, author)
    OBVIOUS
  <2>2. g = [f EXCEPT ![t] = r]
    BY <1>2, <1>5, <2>1 DEF GrantsAfter
  <2>3. IsGrant(f[t]) /\ f[t].granter = L[t].author
    BY <1>5 DEF GrantsLogged
  <2>4. /\ IsGrant(r) /\ r.granter = f[t].granter
        /\ r.status = "revoked" <=> f[t].status = "revoked" \/ author = f[t].granter
        /\ DOMAIN r.timeline = DOMAIN f[t].timeline \cup {n}
    BY <2>1, <2>3 DEF Revoked, IsGrant, IsMap, Put
  <2>5. DOMAIN g = {i \in PostedIn(M) : M[i].type = "grant.issue"}
    BY <1>1, <1>2, <1>5, <2>2 DEF GrantsLogged
  <2>6. \A x \in DOMAIN g : /\ IsGrant(g[x]) /\ g[x].granter = M[x].author
                            /\ g[x].status = "revoked" <=> Withdrawn(M, x)
    BY <1>1, <1>3, <1>5, <2>2, <2>3, <2>4 DEF GrantsLogged
  <2>7. IsMap(g)
    BY <2>2 DEF GrantsLogged, IsMap
  <2> QED BY <2>2, <2>4, <2>5, <2>6, <2>7 DEF GrantsLogged
<1>6. CASE g = f /\ type # "grant.issue" /\ ~(type = "grant.revoke" /\ t \in DOMAIN f)
  <2>1. DOMAIN g = {i \in PostedIn(M) : M[i].type = "grant.issue"}
    BY <1>1, <1>2, <1>6 DEF GrantsLogged
  <2>2. \A x \in DOMAIN g : /\ IsGrant(g[x]) /\ g[x].granter = M[x].author
                            /\ g[x].status = "revoked" <=> Withdrawn(M, x)
    BY <1>1, <1>3, <1>6 DEF GrantsLogged
  <2> QED BY <1>6, <2>1, <2>2 DEF GrantsLogged
<1>7. NoOp \notin DOMAIN f
  BY <1>1 DEF NoOp, PostedIn
<1> QED BY <1>2, <1>4, <1>5, <1>6, <1>7 DEF GrantsAfter

(* From f to g, the chain of x stayed or got the operation n.              *)
Widened(f, g, x, n) ==
  Chain(f, x) \subseteq Chain(g, x) /\ Chain(g, x) \subseteq Chain(f, x) \cup {n}

Corrects(op, L, f, x) ==
  op.type = "edit" /\ op.author = L[x].author /\ op.target \in Chain(f, x)

LEMMA EditsGrow ==
  ASSUME NEW L, NEW M, NEW n, NEW op, Grown(L, M, n, op), op.type # "baseline",
         NEW f, NEW g, NEW x \in PostedIn(L), Widened(f, g, x, n), Corrects(op, L, f, x)
  PROVE  EditsOf(g, x, M) = EditsOf(f, x, L) \cup {n}
<1>1. M[n] = op /\ op.target # n
  BY DEF Grown, Operation
<1>2. /\ PostedIn(M) = PostedIn(L) \cup {n} /\ n \notin PostedIn(L)
      /\ \A i \in PostedIn(L) : M[i] = L[i] /\ L[i].target # n
  BY PostedGrows
<1> QED BY <1>1, <1>2 DEF EditsOf, Widened, Corrects

LEMMA EditsStay ==
  ASSUME NEW L, NEW M, NEW n, NEW op, Grown(L, M, n, op), op.type # "baseline",
         NEW f, NEW g, NEW x \in PostedIn(L), Widened(f, g, x, n), ~Corrects(op, L, f, x)
  PROVE  EditsOf(g, x, M) = EditsOf(f, x, L)
<1>1. M[n] = op /\ op.target # n
  BY DEF Grown, Operation
<1>2. /\ PostedIn(M) = PostedIn(L) \cup {n} /\ n \notin PostedIn(L)
      /\ \A i \in PostedIn(L) : M[i] = L[i] /\ L[i].target # n
  BY PostedGrows
<1> QED BY <1>1, <1>2 DEF EditsOf, Widened, Corrects

LEMMA ContributionsKept ==
  ASSUME NEW L, NEW M, NEW n, NEW op, Grown(L, M, n, op), op.type = "baseline",
         NEW f, ContributionsLogged(f, L)
  PROVE  ContributionsLogged(f, M)
<1>1. PostedIn(M) = PostedIn(L) /\ \A i \in PostedIn(L) : M[i] = L[i]
  BY PostedGrows
<1>2. \A c \in PostedIn(L) : EditsOf(f, c, M) = EditsOf(f, c, L)
  BY <1>1 DEF EditsOf
<1> QED BY <1>1, <1>2 DEF ContributionsLogged

LEMMA ContributionsStep ==
  ASSUME NEW L, NEW M, NEW n, NEW op, Grown(L, M, n, op), op.type # "baseline",
         op.author \in Authors,
         NEW f, ContributionsLogged(f, L), NEW g, g = ContributionsAfter(f, n, op)
  PROVE  /\ ContributionsLogged(g, M)
         /\ DOMAIN g \subseteq DOMAIN f \cup {n}
         /\ \A x \in DOMAIN g :
              g[x].edits \subseteq IF x \in DOMAIN f THEN f[x].edits \cup {n} ELSE {}
<1>1. /\ n \in PostedIn(M) /\ M[n] = op /\ op.target \in Nat /\ op.target < n /\ n \notin DOMAIN f
      /\ n \in Nat /\ n \notin PostedIn(L)
      /\ PostedIn(M) = PostedIn(L) \cup {n} /\ DOMAIN f \subseteq PostedIn(L)
      /\ \A i \in PostedIn(L) : i \in Nat /\ i < n /\ M[i] = L[i] /\ L[i].target # n
  BY PostedGrows DEF Grown, Operation, ContributionsLogged
<1>2. PICK type, author, t : type = op.type /\ author = op.author /\ t = op.target
  OBVIOUS
<1>3. \A x \in DOMAIN f : Chain(f, x) \subseteq PostedIn(L) /\ f[x].edits = EditsOf(f, x, L)
  BY <1>1 DEF ContributionsLogged, Chain, EditsOf
<1>4. CASE type \in {"turn.post", "comment.add"}
  <2>1. PICK r : r = NewContribution(n, author, type, IF type = "turn.post" THEN NoOp ELSE t)
    OBVIOUS
  <2>2. r \in Contribution /\ r.author = author /\ r.body = n /\ r.edits = {}
    BY <1>1, <1>2, <1>4, <2>1 DEF NewContribution, Contribution, NoOp
  <2>3. g = Put(f, n, r)
    BY <1>2, <1>4, <2>1 DEF ContributionsAfter
  <2>4. IsMap(g) /\ DOMAIN g = DOMAIN f \cup {n} /\ g[n] = r /\ \A x \in DOMAIN f : x # n => g[x] = f[x]
    BY <2>3 DEF Put, IsMap
  <2>5. \A x \in DOMAIN f : g[x] = f[x] /\ Chain(g, x) = Chain(f, x)
    BY <1>1, <2>4 DEF Chain
  <2>6. Chain(g, n) = {n}
    BY <2>2, <2>4 DEF Chain
  <2>7. ASSUME NEW x \in DOMAIN f
        PROVE  EditsOf(g, x, M) = EditsOf(f, x, L)
    <3>1. Widened(f, g, x, n) /\ ~Corrects(op, L, f, x)
      BY <1>2, <1>4, <2>5 DEF Widened, Corrects
    <3>2. x \in PostedIn(L)
      BY <1>1
    <3> QED BY <3>1, <3>2, EditsStay
  <2>8. EditsOf(g, n, M) = {}
    BY <1>1, <1>2, <1>4, <2>6 DEF EditsOf
  <2>9. g \in [DOMAIN g -> Contribution]
    BY <2>2, <2>4, <2>5 DEF ContributionsLogged, IsMap
  <2>10. ASSUME NEW x \in DOMAIN g
         PROVE  /\ x \in PostedIn(M) /\ M[x].type \in {"turn.post", "comment.add"}
                /\ g[x].author = M[x].author
                /\ g[x].body \in Chain(g, x) /\ \A e \in Chain(g, x) : e <= g[x].body
                /\ g[x].edits = EditsOf(g, x, M)
    <3>1. CASE x = n
      BY <1>1, <1>2, <1>4, <2>2, <2>4, <2>6, <2>8, <3>1
    <3>2. CASE x # n
      BY <1>1, <2>4, <2>5, <2>7, <3>2 DEF ContributionsLogged
    <3> QED BY <3>1, <3>2
  <2>11. ASSUME NEW x \in DOMAIN g, NEW y \in DOMAIN g, x # y
         PROVE  Chain(g, x) \cap Chain(g, y) = {}
    BY <1>1, <1>3, <2>4, <2>5, <2>6, <2>11 DEF ContributionsLogged
  <2>12. ContributionsLogged(g, M)
    BY <2>9, <2>10, <2>11 DEF ContributionsLogged
  <2> QED BY <1>1, <2>2, <2>4, <2>5, <2>12
<1>5. CASE type = "edit" /\ Mine(f, author, t) # {}
  <2>1. PICK c : c = Some(Mine(f, author, t))
    OBVIOUS
  <2>2. c \in Mine(f, author, t)
    BY <1>5, <2>1 DEF Some
  <2>3. c \in DOMAIN f /\ t \in Chain(f, c) /\ f[c].author = author
    BY <2>2 DEF Mine, Chain
  <2>4. PICK r : r = [f[c] EXCEPT !.body = n, !.edits = @ \cup {n}]
    OBVIOUS
  <2>5. f[c] \in Contribution
    BY <2>3 DEF ContributionsLogged
  <2>6. r \in Contribution /\ r.author = author /\ r.body = n /\ r.edits = f[c].edits \cup {n}
    BY <1>1, <2>3, <2>4, <2>5 DEF Contribution
  <2>7. g = Amended(f, c, n)
    BY <1>2, <1>5, <2>1 DEF ContributionsAfter
  <2>8. g = [f EXCEPT ![c] = r]
    BY <2>3, <2>4, <2>7 DEF Amended
  <2>9. DOMAIN g = DOMAIN f /\ g[c] = r /\ \A x \in DOMAIN f : x # c => g[x] = f[x]
    BY <2>3, <2>8
  <2>10. Chain(g, c) = Chain(f, c) \cup {n} /\ \A x \in DOMAIN f : x # c => Chain(g, x) = Chain(f, x)
    BY <2>6, <2>9 DEF Chain
  <2>11. L[c].author = author
    BY <2>3 DEF ContributionsLogged
  <2>12. EditsOf(g, c, M) = EditsOf(f, c, L) \cup {n}
    <3>1. Widened(f, g, c, n) /\ Corrects(op, L, f, c)
      BY <1>2, <1>5, <2>3, <2>10, <2>11 DEF Widened, Corrects
    <3>2. c \in PostedIn(L)
      BY <1>1, <2>3
    <3> QED BY <3>1, <3>2, EditsGrow
  <2>13. ASSUME NEW x \in DOMAIN f, x # c
         PROVE  EditsOf(g, x, M) = EditsOf(f, x, L)
    <3>1. t \notin Chain(f, x)
      BY <2>3, <2>13 DEF ContributionsLogged
    <3>2. Widened(f, g, x, n) /\ ~Corrects(op, L, f, x)
      BY <1>2, <2>10, <2>13, <3>1 DEF Widened, Corrects
    <3>3. x \in PostedIn(L)
      BY <1>1
    <3> QED BY <3>2, <3>3, EditsStay
  <2>14. g \in [DOMAIN g -> Contribution]
    BY <2>3, <2>6, <2>8 DEF ContributionsLogged
  <2>15. ASSUME NEW x \in DOMAIN g
         PROVE  /\ x \in PostedIn(M) /\ M[x].type \in {"turn.post", "comment.add"}
                /\ g[x].author = M[x].author
                /\ g[x].body \in Chain(g, x) /\ \A e \in Chain(g, x) : e <= g[x].body
                /\ g[x].edits = EditsOf(g, x, M)
    <3>1. CASE x = c
      <4>1. x \in PostedIn(L) /\ L[x].type \in {"turn.post", "comment.add"}
        BY <2>9 DEF ContributionsLogged
      <4>2. \A e \in Chain(f, c) : e \in Nat /\ e < n
        BY <1>1, <1>3, <2>3
      <4>3. M[c] = L[c] /\ c \in PostedIn(M)
        BY <1>1, <2>3
      <4>4. n \in Chain(g, c) /\ \A e \in Chain(g, c) : e <= n
        BY <1>1, <2>10, <4>2
      <4>5. f[c].edits = EditsOf(f, c, L)
        BY <1>3, <2>3
      <4> QED BY <2>6, <2>9, <2>11, <2>12, <3>1, <4>1, <4>3, <4>4, <4>5
    <3>2. CASE x # c
      BY <1>1, <2>9, <2>10, <2>13, <3>2 DEF ContributionsLogged
    <3> QED BY <3>1, <3>2
  <2>16. ASSUME NEW x \in DOMAIN g, NEW y \in DOMAIN g, x # y
         PROVE  Chain(g, x) \cap Chain(g, y) = {}
    BY <1>1, <1>3, <2>3, <2>9, <2>10, <2>16 DEF ContributionsLogged
  <2>17. ContributionsLogged(g, M)
    BY <2>14, <2>15, <2>16 DEF ContributionsLogged
  <2> QED BY <2>6, <2>9, <2>17
<1>6. CASE type = "comment.resolve" /\ Unsettled(f, t) # {}
  <2>1. PICK c : c = Some(Unsettled(f, t))
    OBVIOUS
  <2>2. c \in Unsettled(f, t)
    BY <1>6, <2>1 DEF Some
  <2>3. c \in DOMAIN f
    BY <2>2 DEF Unsettled
  <2>4. PICK r : r = [f[c] EXCEPT !.resolvedBy = author]
    OBVIOUS
  <2>5. f[c] \in Contribution
    BY <2>3 DEF ContributionsLogged
  <2>6. r \in Contribution /\ r.author = f[c].author /\ r.body = f[c].body /\ r.edits = f[c].edits
    BY <1>2, <2>4, <2>5 DEF Contribution
  <2>7. g = [f EXCEPT ![c].resolvedBy = author]
    BY <1>2, <1>6, <2>1 DEF ContributionsAfter
  <2>8. g = [f EXCEPT ![c] = r]
    BY <2>3, <2>4, <2>7
  <2>9. DOMAIN g = DOMAIN f /\ \A x \in DOMAIN f : /\ g[x].author = f[x].author
                                                   /\ g[x].body = f[x].body /\ g[x].edits = f[x].edits
    BY <2>3, <2>6, <2>8
  <2>10. \A x \in DOMAIN f : Chain(g, x) = Chain(f, x)
    BY <2>9 DEF Chain
  <2>11. ASSUME NEW x \in DOMAIN f
        PROVE  EditsOf(g, x, M) = EditsOf(f, x, L)
    <3>1. Widened(f, g, x, n) /\ ~Corrects(op, L, f, x)
      BY <1>2, <1>6, <2>10 DEF Widened, Corrects
    <3>2. x \in PostedIn(L)
      BY <1>1
    <3> QED BY <3>1, <3>2, EditsStay
  <2>12. g \in [DOMAIN g -> Contribution]
    BY <2>3, <2>6, <2>8 DEF ContributionsLogged
  <2>13. ASSUME NEW x \in DOMAIN g
         PROVE  /\ x \in PostedIn(M) /\ M[x].type \in {"turn.post", "comment.add"}
                /\ g[x].author = M[x].author
                /\ g[x].body \in Chain(g, x) /\ \A e \in Chain(g, x) : e <= g[x].body
                /\ g[x].edits = EditsOf(g, x, M)
    BY <1>1, <2>9, <2>10, <2>11 DEF ContributionsLogged
  <2>14. \A x, y \in DOMAIN g : x # y => Chain(g, x) \cap Chain(g, y) = {}
    BY <2>9, <2>10 DEF ContributionsLogged
  <2>15. ContributionsLogged(g, M)
    BY <2>12, <2>13, <2>14 DEF ContributionsLogged
  <2> QED BY <2>9, <2>15
<1>7. CASE /\ g = f /\ type \notin {"turn.post", "comment.add"}
           /\ ~(type = "edit" /\ Mine(f, author, t) # {})
  <2>1. ASSUME NEW x \in DOMAIN f
        PROVE  EditsOf(f, x, M) = EditsOf(f, x, L)
    <3>1. f[x].author = L[x].author
      BY DEF ContributionsLogged
    <3>2. ~(type = "edit" /\ author = L[x].author /\ t \in Chain(f, x))
      BY <1>7, <3>1 DEF Mine, Chain
    <3>3. Widened(f, f, x, n) /\ ~Corrects(op, L, f, x)
      BY <1>2, <3>2 DEF Widened, Corrects
    <3>4. x \in PostedIn(L)
      BY <1>1
    <3> QED BY <3>3, <3>4, EditsStay
  <2>2. ContributionsLogged(f, M)
    BY <1>1, <2>1 DEF ContributionsLogged
  <2> QED BY <1>7, <2>2
<1> QED BY <1>2, <1>4, <1>5, <1>6, <1>7 DEF ContributionsAfter

(* What an event leaves of an item, timeline aside.                        *)
Outcome(k, j, type, author) ==
  /\ ~Accepts(k.status, type) => j.status = k.status /\ j.owner = k.owner
  /\ Accepts(k.status, type) =>
       /\ type = "work.claim" => j.status = "claimed" /\ j.owner = author
       /\ type = "work.done" => j.status = "done" /\ j.owner = k.owner
       /\ type = "work.abandon" => j.status = "open" /\ j.owner = Nobody

LEMMA LoggedForm ==
  ASSUME NEW k, IsItem(k), NEW id, NEW type \in WorkRefs, NEW author,
         NEW j, j = Logged(k, id, type, author)
  PROVE  /\ IsItem(j) /\ DOMAIN j.timeline = DOMAIN k.timeline \cup {id}
         /\ Outcome(k, j, type, author)
<1>1. PICK ok : ok = Accepts(k.status, type)
  OBVIOUS
<1>2. PICK i : i = IF Accepts(k.status, type) THEN After(k, type, author) ELSE k
  OBVIOUS
<1>3. IsItem(i) /\ i.timeline = k.timeline /\ Outcome(k, i, type, author)
  <2>1. CASE ~Accepts(k.status, type)
    BY <1>2, <2>1 DEF Outcome
  <2>2. CASE Accepts(k.status, type) /\ type = "work.claim"
    BY <1>2, <2>2 DEF Outcome, After, IsItem, IsMap
  <2>3. CASE Accepts(k.status, type) /\ type = "work.done"
    BY <1>2, <2>3 DEF Outcome, After, IsItem, IsMap
  <2>4. CASE Accepts(k.status, type) /\ type = "work.abandon"
    BY <1>2, <2>4 DEF Outcome, After, IsItem, IsMap
  <2> QED BY <2>1, <2>2, <2>3, <2>4 DEF WorkRefs, Outcome
<1>4. PICK line : line = [kind |-> type, author |-> author, void |-> ~Accepts(k.status, type)]
  OBVIOUS
<1>5. j = [i EXCEPT !.timeline = Put(@, id, line)]
  BY <1>2, <1>4 DEF Logged
<1>6. DOMAIN Put(i.timeline, id, line) = DOMAIN i.timeline \cup {id}
  BY DEF Put
<1>7. /\ IsItem(j) /\ j.timeline = Put(i.timeline, id, line)
      /\ j.status = i.status /\ j.owner = i.owner
  BY <1>3, <1>5 DEF IsItem, IsMap
<1> QED BY <1>3, <1>6, <1>7 DEF Outcome

LEMMA RefereeKept ==
  ASSUME NEW L, NEW M, NEW n, NEW op, Grown(L, M, n, op), NEW w,
         op.type = "baseline" \/ ~(op.type \in WorkRefs /\ op.target = w),
         NEW k, Refereed(k, L, w)
  PROVE  Refereed(k, M, w)
<1>1. /\ AboutIn(M, w, "work.done") = AboutIn(L, w, "work.done")
      /\ AboutIn(M, w, "work.claim") = AboutIn(L, w, "work.claim")
      /\ AboutIn(M, w, "work.abandon") = AboutIn(L, w, "work.abandon")
      /\ AboutIn(L, w, "work.claim") \cup AboutIn(L, w, "work.abandon") \subseteq PostedIn(L)
  BY AboutGrows DEF WorkRefs
<1>2. PostedIn(M) \cap PostedIn(L) = PostedIn(L)
  BY PostedGrows
<1>3. Undone(M, w) \cap PostedIn(L) = Undone(L, w)
  BY <1>1, <1>2 DEF Undone
<1>4. Claims(M, w) = Claims(L, w)
  BY <1>1, <1>3 DEF Claims
<1>5. \A c \in Claims(L, w) : M[c] = L[c]
  BY <1>1, PostedGrows DEF Claims
<1> QED BY <1>1, <1>4, <1>5 DEF Refereed

LEMMA RefereeStep ==
  ASSUME NEW L, NEW M, NEW n, NEW op, Grown(L, M, n, op), NEW w, op.target = w,
         op.type \in WorkRefs, NEW k, IsItem(k), Refereed(k, L, w),
         NEW j, j = Logged(k, n, op.type, op.author)
  PROVE  Refereed(j, M, w)
<1>1. PICK type, author : type = op.type /\ author = op.author
  OBVIOUS
<1>2. /\ IsItem(j)
      /\ ~Accepts(k.status, type) => j.status = k.status /\ j.owner = k.owner
      /\ Accepts(k.status, type) =>
           /\ type = "work.claim" => j.status = "claimed" /\ j.owner = author
           /\ type = "work.done" => j.status = "done" /\ j.owner = k.owner
           /\ type = "work.abandon" => j.status = "open" /\ j.owner = Nobody
  <2>1. type \in WorkRefs /\ j = Logged(k, n, type, author)
    BY <1>1
  <2>2. IsItem(j) /\ Outcome(k, j, type, author)
    BY <2>1, LoggedForm
  <2> QED BY <2>2 DEF Outcome
<1>3. op.type # "baseline" /\ type \in WorkRefs
  BY <1>1 DEF WorkRefs
<1>4. /\ PostedIn(M) = PostedIn(L) \cup {n} /\ n \in Nat /\ n \notin PostedIn(L)
      /\ \A i \in PostedIn(L) : i \in Nat /\ i < n /\ M[i] = L[i]
  BY <1>3, PostedGrows DEF Grown
<1>5. M[n] = op
  BY DEF Grown
<1>6. \A x \in {"work.done", "work.claim", "work.abandon"} :
        /\ AboutIn(L, w, x) \subseteq PostedIn(L)
        /\ AboutIn(M, w, x) = AboutIn(L, w, x) \cup (IF type = x THEN {n} ELSE {})
  BY <1>1, <1>4, <1>5 DEF AboutIn
<1>7. CASE AboutIn(L, w, "work.done") # {}
  <2>1. AboutIn(M, w, "work.done") # {}
    BY <1>6, <1>7
  <2>2. Undone(M, w) = Undone(L, w)
    BY <1>4, <1>6, <1>7 DEF Undone
  <2>3. n \notin Undone(L, w)
    BY <1>4 DEF Undone
  <2>4. Claims(M, w) = Claims(L, w)
    BY <1>4, <1>6, <2>2, <2>3 DEF Claims
  <2>5. k.status = "done"
    BY <1>7 DEF Refereed
  <2>6. ~Accepts(k.status, type)
    BY <2>5 DEF Accepts
  <2>7. \A c \in Claims(L, w) : M[c] = L[c]
    BY <1>4 DEF Claims, Undone
  <2> QED BY <1>2, <2>1, <2>4, <2>5, <2>6, <2>7 DEF Refereed
<1>8. CASE AboutIn(L, w, "work.done") = {}
  <2>1. Undone(L, w) = PostedIn(L)
    BY <1>8 DEF Undone
  <2>2. \A c \in Claims(L, w) : M[c] = L[c] /\ c \in Nat /\ c < n
    BY <1>4, <2>1 DEF Claims
  <2>3. k.status = IF Claims(L, w) # {} THEN "claimed" ELSE "open"
    BY <1>8 DEF Refereed
  <2>4. CASE type = "work.claim"
    <3>1. AboutIn(M, w, "work.done") = {} /\ Undone(M, w) = PostedIn(M)
      BY <1>6, <1>8, <2>4 DEF Undone
    <3>2. /\ AboutIn(M, w, "work.claim") = AboutIn(L, w, "work.claim") \cup {n}
          /\ AboutIn(M, w, "work.abandon") = AboutIn(L, w, "work.abandon")
      BY <1>6, <2>4
    <3>3. Claims(M, w) = Claims(L, w) \cup {n}
      <4>1. \A a \in AboutIn(L, w, "work.abandon") : a < n
        BY <1>4, <1>6
      <4> QED BY <1>4, <1>6, <2>1, <3>1, <3>2, <4>1 DEF Claims
    <3>4. CASE Claims(L, w) = {}
      <4>1. j.status = "claimed" /\ j.owner = author
        BY <1>2, <2>3, <2>4, <3>4 DEF Accepts
      <4> QED BY <1>1, <1>4, <1>5, <3>1, <3>3, <3>4, <4>1 DEF Refereed
    <3>5. CASE Claims(L, w) # {}
      <4>1. j.status = k.status /\ j.owner = k.owner
        BY <1>2, <2>3, <2>4, <3>5 DEF Accepts
      <4>2. PICK c \in Claims(L, w) : (\A d \in Claims(L, w) : c <= d) /\ k.owner = L[c].author
        BY <3>5 DEF Refereed
      <4>3. c \in Claims(M, w) /\ (\A d \in Claims(M, w) : c <= d) /\ j.owner = M[c].author
        BY <1>4, <2>2, <3>3, <4>1, <4>2
      <4>4. j.status = "claimed"
        BY <2>3, <3>5, <4>1
      <4> QED BY <3>1, <4>3, <4>4 DEF Refereed
    <3> QED BY <3>4, <3>5
  <2>5. CASE type = "work.abandon"
    <3>1. AboutIn(M, w, "work.done") = {} /\ Undone(M, w) = PostedIn(M)
      BY <1>6, <1>8, <2>5 DEF Undone
    <3>2. /\ AboutIn(M, w, "work.claim") = AboutIn(L, w, "work.claim")
          /\ n \in AboutIn(M, w, "work.abandon")
      BY <1>6, <2>5
    <3>3. Claims(M, w) = {}
      BY <1>4, <1>6, <3>1, <3>2 DEF Claims
    <3>4. j.status = "open" /\ j.owner = Nobody
      BY <1>2, <2>3, <2>5 DEF Accepts, Refereed
    <3> QED BY <3>1, <3>3, <3>4 DEF Refereed
  <2>6. CASE type = "work.done"
    <3>1. AboutIn(M, w, "work.done") = {n}
      BY <1>6, <1>8, <2>6
    <3>2. Undone(M, w) = PostedIn(L)
      BY <1>4, <3>1 DEF Undone
    <3>3. Claims(M, w) = Claims(L, w)
      BY <1>6, <2>1, <2>6, <3>2 DEF Claims
    <3>4. j.status = "done" /\ j.owner = k.owner
      BY <1>2, <2>3, <2>6 DEF Accepts
    <3> QED BY <2>2, <3>1, <3>3, <3>4 DEF Refereed
  <2> QED BY <1>3, <2>4, <2>5, <2>6 DEF WorkRefs
<1> QED BY <1>7, <1>8

LEMMA WorkKept ==
  ASSUME NEW L, NEW M, NEW n, NEW op, Grown(L, M, n, op), op.type = "baseline",
         NEW f, WorkLogged(f, L)
  PROVE  WorkLogged(f, M)
<1>1. PostedIn(M) = PostedIn(L)
  BY PostedGrows
<1>2. ASSUME NEW w \in DOMAIN f
      PROVE  w \in PostedIn(L) /\ IsItem(f[w]) /\ Refereed(f[w], M, w)
  <2>1. w \in PostedIn(L) /\ IsItem(f[w]) /\ Refereed(f[w], L, w)
    BY DEF WorkLogged
  <2> QED BY <2>1, RefereeKept
<1> QED BY <1>1, <1>2 DEF WorkLogged

LEMMA WorkStep ==
  ASSUME NEW L, NEW M, NEW n, NEW op, Grown(L, M, n, op), op.type # "baseline",
         NEW f, WorkLogged(f, L), NEW g, g = WorkAfter(f, n, op)
  PROVE  /\ WorkLogged(g, M)
         /\ DOMAIN g \subseteq DOMAIN f \cup {n}
         /\ \A x \in DOMAIN g :
              DOMAIN g[x].timeline \subseteq IF x \in DOMAIN f THEN DOMAIN f[x].timeline \cup {n}
                                             ELSE {}
<1>1. /\ n \notin DOMAIN f /\ n \in Nat
      /\ PostedIn(M) = PostedIn(L) \cup {n} /\ DOMAIN f \subseteq PostedIn(L)
      /\ \A i \in PostedIn(L) : i \in Nat /\ i < n /\ M[i] = L[i] /\ L[i].target # n
  BY PostedGrows DEF Grown, WorkLogged
<1>2. M[n] = op /\ op.target # n
  BY DEF Grown, Operation
<1>3. PICK type, author, t : type = op.type /\ author = op.author /\ t = op.target
  OBVIOUS
<1>4. ASSUME NEW w \in DOMAIN f, ~(op.type \in WorkRefs /\ op.target = w)
      PROVE  Refereed(f[w], M, w)
  <2>1. Refereed(f[w], L, w)
    BY DEF WorkLogged
  <2> QED BY <1>4, <2>1, RefereeKept
<1>5. CASE type = "work.open"
  <2>1. PICK r : r = NewItem(author)
    OBVIOUS
  <2>2. IsItem(r) /\ r.status = "open" /\ r.owner = Nobody /\ DOMAIN r.timeline = {}
    BY <2>1 DEF NewItem, IsItem, IsMap, Empty
  <2>3. g = Put(f, n, r)
    BY <1>3, <1>5, <2>1 DEF WorkAfter
  <2>4. IsMap(g) /\ DOMAIN g = DOMAIN f \cup {n} /\ g[n] = r /\ \A x \in DOMAIN f : x # n => g[x] = f[x]
    BY <2>3 DEF Put, IsMap
  <2>5. \A x : AboutIn(M, n, x) = {}
    BY <1>1, <1>2 DEF AboutIn
  <2>6. Claims(M, n) = {}
    BY <2>5 DEF Claims
  <2>7. Refereed(r, M, n)
    BY <2>2, <2>5, <2>6 DEF Refereed
  <2>8. ASSUME NEW x \in DOMAIN f
        PROVE  x \in PostedIn(M) /\ IsItem(g[x]) /\ Refereed(g[x], M, x)
    <3>1. ~(op.type \in WorkRefs /\ op.target = x)
      BY <1>3, <1>5 DEF WorkRefs
    <3> QED BY <1>1, <1>4, <2>4, <3>1 DEF WorkLogged
  <2>9. \A x \in DOMAIN g : x \in PostedIn(M) /\ IsItem(g[x]) /\ Refereed(g[x], M, x)
    BY <1>1, <2>2, <2>4, <2>7, <2>8
  <2>10. WorkLogged(g, M)
    BY <2>4, <2>9 DEF WorkLogged
  <2> QED BY <1>1, <2>2, <2>4, <2>10
<1>6. CASE type \in WorkRefs /\ t # NoOp /\ t \in DOMAIN f
  <2>1. PICK r : r = Logged(f[t], n, type, author)
    OBVIOUS
  <2>2. IsItem(f[t]) /\ Refereed(f[t], L, t)
    BY <1>6 DEF WorkLogged
  <2>3. IsItem(r) /\ DOMAIN r.timeline = DOMAIN f[t].timeline \cup {n}
    BY <1>6, <2>1, <2>2, LoggedForm
  <2>4. r = Logged(f[t], n, op.type, op.author) /\ op.type \in WorkRefs /\ op.target = t
    BY <1>3, <1>6, <2>1
  <2>5. Refereed(r, M, t)
    BY <2>2, <2>4, RefereeStep
  <2>6. type # "work.open"
    BY <1>6 DEF WorkRefs
  <2>7. g = [f EXCEPT ![t] = r]
    BY <1>3, <1>6, <2>1, <2>6 DEF WorkAfter
  <2>8. IsMap(f)
    BY DEF WorkLogged
  <2>9. /\ IsMap(g) /\ DOMAIN g = DOMAIN f /\ g[t] = r
        /\ \A x \in DOMAIN f : x # t => g[x] = f[x]
    BY <1>6, <2>7, <2>8 DEF IsMap
  <2>10. ASSUME NEW x \in DOMAIN f, x # t
         PROVE  x \in PostedIn(M) /\ IsItem(g[x]) /\ Refereed(g[x], M, x)
    BY <1>1, <1>3, <1>4, <2>9, <2>10 DEF WorkLogged
  <2>11. \A x \in DOMAIN g : x \in PostedIn(M) /\ IsItem(g[x]) /\ Refereed(g[x], M, x)
    BY <1>1, <2>3, <2>5, <2>9, <2>10
  <2>12. WorkLogged(g, M)
    BY <2>9, <2>11 DEF WorkLogged
  <2> QED BY <2>3, <2>9, <2>12
<1>7. CASE g = f /\ ~(type \in WorkRefs /\ t \in DOMAIN f)
  <2>1. ASSUME NEW x \in DOMAIN f
        PROVE  x \in PostedIn(M) /\ IsItem(f[x]) /\ Refereed(f[x], M, x)
    BY <1>1, <1>3, <1>4, <1>7 DEF WorkLogged
  <2>2. WorkLogged(f, M)
    BY <2>1 DEF WorkLogged
  <2> QED BY <1>7, <2>2
<1>8. NoOp \notin DOMAIN f
  BY <1>1 DEF NoOp, PostedIn
<1> QED BY <1>3, <1>5, <1>6, <1>7, <1>8 DEF WorkAfter

(***************************************************************************)
(* A step of the fold                                                      *)
(***************************************************************************)

Stepped(v, e, id, op) ==
  /\ IsView(e) /\ Parts(v, e, id, op)
  /\ e.seen = v.seen \cup {id} /\ e.referenced = v.referenced \cup op.parents
  /\ Stirs(v, op) => /\ e.contentOps = v.contentOps + 1
                     /\ e.lifecycle = Woken(v.lifecycle)
  /\ ~Stirs(v, op) => /\ e.contentOps = v.contentOps
                      /\ e.lifecycle = IF op.type = "life.transition"
                                       THEN Moved(v.lifecycle, op.to) ELSE v.lifecycle

LEMMA StepForm ==
  ASSUME NEW v, IsView(v), NEW id, NEW op, op.type \in Types, NEW e, e = Step(v, id, op)
  PROVE  Stepped(v, e, id, op)
<1>1. PICK u : u = [v EXCEPT !.seen = @ \cup {id}, !.referenced = @ \cup op.parents]
  OBVIOUS
<1>2. /\ IsView(u) /\ Alike(u, v)
      /\ u.seen = v.seen \cup {id} /\ u.referenced = v.referenced \cup op.parents
      /\ u.contentOps = v.contentOps /\ u.lifecycle = v.lifecycle
  BY <1>1 DEF IsView, IsMap, Alike
<1>3. e = Effect(u, id, op)
  BY <1>1 DEF Step
<1>4. Applied(u, e, id, op)
  BY <1>2, <1>3, EffectForm
<1>5. Stirs(u, op) <=> Stirs(v, op)
  BY <1>2 DEF Stirs, Alike
<1>6. Parts(v, e, id, op)
  BY <1>2, <1>4 DEF Parts, Applied, Alike
<1> QED BY <1>2, <1>4, <1>5, <1>6 DEF Applied, Stepped

LEMMA StepAlike ==
  ASSUME NEW v, NEW w, Alike(v, w), NEW id, NEW op,
         NEW d, NEW e, Stepped(v, d, id, op), Stepped(w, e, id, op)
  PROVE  Alike(d, e) /\ (Stirs(v, op) <=> Stirs(w, op))
<1>1. Stirs(v, op) <=> Stirs(w, op)
  BY DEF Stirs, Alike
<1>2. Alike(d, e)
  BY DEF Stepped, Parts, Alike
<1> QED BY <1>1, <1>2

Names(v) == Named(Bake(v))

EditsIn(f) == UNION {f[c].edits : c \in DOMAIN f}

EventsIn(f) == UNION {DOMAIN f[w].timeline : w \in DOMAIN f}

LEMMA NamedForm ==
  ASSUME NEW v
  PROVE  Names(v) = DOMAIN v.contributions \cup EditsIn(v.contributions)
                      \cup DOMAIN v.attachments
                      \cup DOMAIN v.work \cup EventsIn(v.work)
                      \cup DOMAIN v.grants \cup EventsIn(v.grants)
<1>1. PICK b : b = Bake(v)
  OBVIOUS
<1>2. /\ b.contributions = v.contributions /\ b.attachments = v.attachments
      /\ b.work = v.work /\ b.grants = v.grants
  BY <1>1 DEF Bake
<1>3. Named(b) = DOMAIN b.contributions \cup EditsIn(b.contributions)
                   \cup DOMAIN b.attachments
                   \cup DOMAIN b.work \cup EventsIn(b.work)
                   \cup DOMAIN b.grants \cup EventsIn(b.grants)
  <2>1. EventsIn(b.grants) = UNION {DOMAIN b.grants[g].timeline : g \in DOMAIN b.grants}
    BY DEF EventsIn
  <2>2. EventsIn(b.work) = UNION {DOMAIN b.work[w].timeline : w \in DOMAIN b.work}
    BY DEF EventsIn
  <2>3. EditsIn(b.contributions) = UNION {b.contributions[c].edits : c \in DOMAIN b.contributions}
    BY DEF EditsIn
  <2> QED BY <2>1, <2>2, <2>3 DEF Named
<1> QED BY <1>1, <1>2, <1>3 DEF Names

LEMMA PartsStep ==
  ASSUME NEW L, NEW M, NEW n, NEW op, Grown(L, M, n, op), op.type # "baseline",
         op.author \in Authors,
         NEW v, PartsLogged(v, L), NEW e, Stepped(v, e, n, op)
  PROVE  PartsLogged(e, M) /\ Names(e) \subseteq Names(v) \cup {n}
<1>1. PICK c, a, w, g, c1, a1, w1, g1 :
        /\ c = v.contributions /\ a = v.attachments /\ w = v.work /\ g = v.grants
        /\ c1 = e.contributions /\ a1 = e.attachments /\ w1 = e.work /\ g1 = e.grants
  OBVIOUS
<1>2. /\ c1 = ContributionsAfter(c, n, op) /\ a1 = AttachmentsAfter(a, n, op)
      /\ w1 = WorkAfter(w, n, op) /\ g1 = GrantsAfter(g, n, op)
  BY <1>1 DEF Stepped, Parts
<1>3. /\ ContributionsLogged(c, L) /\ AttachmentsLogged(a, L)
      /\ WorkLogged(w, L) /\ GrantsLogged(g, L)
  BY <1>1 DEF PartsLogged
<1>4. /\ ContributionsLogged(c1, M) /\ DOMAIN c1 \subseteq DOMAIN c \cup {n}
      /\ \A x \in DOMAIN c1 :
           c1[x].edits \subseteq IF x \in DOMAIN c THEN c[x].edits \cup {n} ELSE {}
  BY <1>2, <1>3, ContributionsStep
<1>5. AttachmentsLogged(a1, M) /\ DOMAIN a1 \subseteq DOMAIN a \cup {n}
  BY <1>2, <1>3, AttachmentsStep
<1>6. /\ WorkLogged(w1, M) /\ DOMAIN w1 \subseteq DOMAIN w \cup {n}
      /\ \A x \in DOMAIN w1 :
           DOMAIN w1[x].timeline \subseteq IF x \in DOMAIN w THEN DOMAIN w[x].timeline \cup {n} ELSE {}
  BY <1>2, <1>3, WorkStep
<1>7. /\ GrantsLogged(g1, M) /\ DOMAIN g1 \subseteq DOMAIN g \cup {n}
      /\ \A x \in DOMAIN g1 :
           DOMAIN g1[x].timeline \subseteq IF x \in DOMAIN g THEN DOMAIN g[x].timeline \cup {n} ELSE {}
  BY <1>2, <1>3, GrantsStep
<1>8. PartsLogged(e, M)
  BY <1>1, <1>4, <1>5, <1>6, <1>7 DEF PartsLogged
<1>9. PICK E, W, G, E1, W1, G1 :
        /\ E = EditsIn(c) /\ W = EventsIn(w) /\ G = EventsIn(g)
        /\ E1 = EditsIn(c1) /\ W1 = EventsIn(w1) /\ G1 = EventsIn(g1)
  OBVIOUS
<1>10. Names(v) = DOMAIN c \cup E \cup DOMAIN a \cup DOMAIN w \cup W \cup DOMAIN g \cup G
  BY <1>1, <1>9, NamedForm
<1>11. Names(e) = DOMAIN c1 \cup E1 \cup DOMAIN a1 \cup DOMAIN w1 \cup W1 \cup DOMAIN g1 \cup G1
  BY <1>1, <1>9, NamedForm
<1>12. E1 \subseteq E \cup {n}
  <2>1. ASSUME NEW y \in E1
        PROVE  y \in E \cup {n}
    <3>1. PICK x \in DOMAIN c1 : y \in c1[x].edits
      BY <1>9 DEF EditsIn, EventsIn
    <3>2. CASE x \in DOMAIN c
      BY <1>4, <1>9, <3>1, <3>2 DEF EditsIn, EventsIn
    <3>3. CASE x \notin DOMAIN c
      BY <1>4, <3>1, <3>3
    <3> QED BY <3>2, <3>3
  <2> QED BY <2>1
<1>13. W1 \subseteq W \cup {n}
  <2>1. ASSUME NEW y \in W1
        PROVE  y \in W \cup {n}
    <3>1. PICK x \in DOMAIN w1 : y \in DOMAIN w1[x].timeline
      BY <1>9 DEF EditsIn, EventsIn
    <3>2. CASE x \in DOMAIN w
      BY <1>6, <1>9, <3>1, <3>2 DEF EditsIn, EventsIn
    <3>3. CASE x \notin DOMAIN w
      BY <1>6, <3>1, <3>3
    <3> QED BY <3>2, <3>3
  <2> QED BY <2>1
<1>14. G1 \subseteq G \cup {n}
  <2>1. ASSUME NEW y \in G1
        PROVE  y \in G \cup {n}
    <3>1. PICK x \in DOMAIN g1 : y \in DOMAIN g1[x].timeline
      BY <1>9 DEF EditsIn, EventsIn
    <3>2. CASE x \in DOMAIN g
      BY <1>7, <1>9, <3>1, <3>2 DEF EditsIn, EventsIn
    <3>3. CASE x \notin DOMAIN g
      BY <1>7, <3>1, <3>3
    <3> QED BY <3>2, <3>3
  <2> QED BY <2>1
<1>15. Names(e) \subseteq Names(v) \cup {n}
  <2>1. /\ DOMAIN c1 \subseteq DOMAIN c \cup {n} /\ DOMAIN a1 \subseteq DOMAIN a \cup {n}
        /\ DOMAIN w1 \subseteq DOMAIN w \cup {n} /\ DOMAIN g1 \subseteq DOMAIN g \cup {n}
    BY <1>4, <1>5, <1>6, <1>7
  <2> QED BY <1>10, <1>11, <1>12, <1>13, <1>14, <2>1
<1> QED BY <1>8, <1>15

LEMMA PartsKept ==
  ASSUME NEW L, NEW M, NEW n, NEW op, Grown(L, M, n, op), op.type = "baseline",
         NEW v, PartsLogged(v, L)
  PROVE  PartsLogged(v, M)
BY ContributionsKept, AttachmentsKept, WorkKept, GrantsKept DEF PartsLogged

LEMMA StirsIsNoMove ==
  ASSUME NEW v, NEW op, Stirs(v, op)
  PROVE  op.type # "life.transition"
BY DEF Stirs, WorkRefs

LEMMA LifecycleStep ==
  ASSUME NEW L, NEW M, NEW n, NEW op, Grown(L, M, n, op), op.type # "baseline",
         NEW v, NEW C, LifecycleLogged(v, L, C), NEW e, Stepped(v, e, n, op),
         NEW D, D = IF Stirs(v, op) THEN C \cup {n} ELSE C
  PROVE  LifecycleLogged(e, M, D)
<1>1. /\ PostedIn(M) = PostedIn(L) \cup {n} /\ n \in Nat
      /\ \A i \in PostedIn(L) : i \in Nat /\ i < n
  BY PostedGrows DEF Grown
<1>2. C \subseteq PostedIn(L) /\ v.contentOps \in Nat /\ (v.contentOps > 0 <=> C # {})
  BY DEF LifecycleLogged
<1>3. CASE Stirs(v, op)
  <2>1. op.type # "life.transition"
    BY <1>3, StirsIsNoMove
  <2>2. \A l : Noted(M, l) = Noted(L, l)
    BY <2>1, NotedGrows
  <2>3. D = C \cup {n} /\ e.contentOps = v.contentOps + 1 /\ e.lifecycle = Woken(v.lifecycle)
    BY <1>3 DEF Stepped
  <2>4. ~Asleep(M, D)
    <3>1. \A d \in Noted(M, "dormant") : d \in Nat /\ d < n
      BY <1>1, <2>2, NotedGrows
    <3> QED BY <1>1, <2>3, <3>1 DEF Asleep
  <2>5. /\ Noted(L, "archived") # {} => v.lifecycle = "archived"
        /\ Noted(L, "archived") = {} /\ Noted(L, "closed") # {} => v.lifecycle = "closed"
        /\ Noted(L, "archived") = {} /\ Noted(L, "closed") = {} =>
             v.lifecycle \in {"dormant", "proposed", "active"}
    BY DEF LifecycleLogged
  <2>6. D \subseteq PostedIn(M) /\ e.contentOps \in Nat /\ (e.contentOps > 0 <=> D # {})
    BY <1>1, <1>2, <2>3
  <2> QED BY <2>2, <2>3, <2>4, <2>5, <2>6 DEF LifecycleLogged, Woken
<1>4. CASE ~Stirs(v, op) /\ op.type # "life.transition"
  <2>1. \A l : Noted(M, l) = Noted(L, l)
    BY <1>4, NotedGrows
  <2>2. D = C /\ e.contentOps = v.contentOps /\ e.lifecycle = v.lifecycle
    BY <1>4 DEF Stepped
  <2>3. Asleep(M, D) <=> Asleep(L, C)
    BY <2>1, <2>2 DEF Asleep
  <2> QED BY <1>1, <1>2, <2>1, <2>2, <2>3 DEF LifecycleLogged
<1>5. CASE ~Stirs(v, op) /\ op.type = "life.transition"
  <2>1. PICK to : to = op.to
    OBVIOUS
  <2>2. to \in Lifecycles
    BY <2>1 DEF Grown, Operation
  <2>3. \A l : Noted(M, l) = IF to = l THEN Noted(L, l) \cup {n} ELSE Noted(L, l)
    BY <1>5, <2>1, NotedGrows
  <2>4. D = C /\ e.contentOps = v.contentOps /\ e.lifecycle = Moved(v.lifecycle, to)
    BY <1>5, <2>1 DEF Stepped
  <2>5. D \subseteq PostedIn(M) /\ e.contentOps \in Nat /\ (e.contentOps > 0 <=> D # {})
    BY <1>1, <1>2, <2>4
  <2>6. /\ Noted(L, "archived") # {} => v.lifecycle = "archived"
        /\ Noted(L, "archived") = {} /\ Noted(L, "closed") # {} => v.lifecycle = "closed"
        /\ Noted(L, "archived") = {} /\ Noted(L, "closed") = {} =>
             /\ Asleep(L, C) => v.lifecycle = "dormant"
             /\ ~Asleep(L, C) => v.lifecycle = "proposed" \/ (v.lifecycle = "active" /\ C # {})
    BY DEF LifecycleLogged
  <2>7. to = "dormant" => Asleep(M, D)
    <3>1. to = "dormant" => n \in Noted(M, "dormant")
      BY <2>3
    <3> QED BY <1>1, <1>2, <2>4, <3>1 DEF Asleep
  <2>8. to # "dormant" => (Asleep(M, D) <=> Asleep(L, C))
    BY <2>3, <2>4 DEF Asleep
  <2>9. CASE to \in {"proposed", "active"}
    BY <2>3, <2>4, <2>5, <2>6, <2>8, <2>9 DEF LifecycleLogged, Moved
  <2>10. CASE to = "dormant"
    BY <2>3, <2>4, <2>5, <2>6, <2>7, <2>10 DEF LifecycleLogged, Moved
  <2>11. CASE to = "closed"
    BY <2>3, <2>4, <2>5, <2>6, <2>8, <2>11 DEF LifecycleLogged, Moved
  <2>12. CASE to = "archived"
    BY <2>3, <2>4, <2>5, <2>6, <2>8, <2>12 DEF LifecycleLogged, Moved
  <2> QED BY <2>2, <2>9, <2>10, <2>11, <2>12 DEF Lifecycles
<1> QED BY <1>3, <1>4, <1>5

LEMMA KeptStep ==
  ASSUME NEW r, NEW w, Kept(r, w), w.contentOps \in Nat, NEW n, NEW op, op.to \in Lifecycles,
         NEW d, Stepped(r, d, n, op), NEW e, Stepped(w, e, n, op),
         Stirs(r, op) <=> Stirs(w, op)
  PROVE  Kept(d, e)
<1>1. CASE Stirs(r, op)
  <2>1. /\ d.contentOps = r.contentOps + 1 /\ d.lifecycle = Woken(r.lifecycle)
        /\ e.contentOps = w.contentOps + 1 /\ e.lifecycle = Woken(w.lifecycle)
    BY <1>1 DEF Stepped
  <2> QED BY <2>1 DEF Kept, Woken, Lifecycles
<1>2. CASE ~Stirs(r, op) /\ op.type # "life.transition"
  <2>1. /\ d.contentOps = r.contentOps /\ d.lifecycle = r.lifecycle
        /\ e.contentOps = w.contentOps /\ e.lifecycle = w.lifecycle
    BY <1>2 DEF Stepped
  <2> QED BY <2>1 DEF Kept
<1>3. CASE ~Stirs(r, op) /\ op.type = "life.transition"
  <2>1. /\ d.contentOps = r.contentOps /\ d.lifecycle = Moved(r.lifecycle, op.to)
        /\ e.contentOps = w.contentOps /\ e.lifecycle = Moved(w.lifecycle, op.to)
    BY <1>3 DEF Stepped
  <2> QED BY <2>1 DEF Kept, Moved, Lifecycles
<1> QED BY <1>1, <1>2, <1>3

LEMMA KeptSeed ==
  ASSUME NEW r, NEW w, Kept(r, w), NEW d, d.contentOps = 0, d.lifecycle = Lifecycle(r)
  PROVE  Kept(d, w)
BY DEF Kept, Lifecycle, Lifecycles

LEMMA KeptMeet ==
  ASSUME NEW r, NEW w, Kept(r, w), w.contentOps \in Nat
  PROVE  Lifecycle(r) = Lifecycle(w)
BY DEF Kept, Lifecycle, Lifecycles

LEMMA FrontierStep ==
  ASSUME NEW v, NEW e, NEW n \in Nat, n > 0, NEW op, Stepped(v, e, n, op),
         Bounded(v, n - 1), op.parents \subseteq 1 .. n - 1
  PROVE  /\ Bounded(e, n)
         /\ Frontier(e) = (Frontier(v) \ op.parents) \cup {n}
<1>1. e.seen = v.seen \cup {n} /\ e.referenced = v.referenced \cup op.parents
  BY DEF Stepped
<1>2. n \notin v.referenced \cup op.parents
  BY DEF Bounded
<1> QED BY <1>1, <1>2 DEF Bounded, Frontier

LEMMA SeedForm ==
  ASSUME NEW id, NEW b, NEW e, e = Seed(id, b)
  PROVE  /\ IsView(e)
         /\ e.contributions = b.contributions /\ e.attachments = b.attachments
         /\ e.work = b.work /\ e.grants = b.grants
         /\ e.lifecycle = b.lifecycle /\ e.contentOps = 0
         /\ e.seen = {id} \cup Named(b) \cup b.leaves
         /\ b.leaves # {} => e.referenced = (Named(b) \cup {id}) \ b.leaves
         /\ b.leaves = {} => e.referenced = Named(b) \ b.leaves
BY DEF Seed, IsView, IsMap

LEMMA SkipForm ==
  ASSUME NEW v, IsView(v), NEW id, NEW b, NEW e, e = Skip(v, id, b)
  PROVE  /\ IsView(e) /\ Alike(e, v)
         /\ e.lifecycle = v.lifecycle /\ e.contentOps = v.contentOps
         /\ e.seen = v.seen \cup {id} \cup b.leaves
         /\ e.referenced = (v.referenced \cup {id} \cup b.leaves) \ b.leaves
BY DEF Skip, IsView, IsMap, Alike

LEMMA BakeForm ==
  ASSUME NEW v, NEW b, b = Bake(v)
  PROVE  /\ b.contributions = v.contributions /\ b.attachments = v.attachments
         /\ b.work = v.work /\ b.grants = v.grants
         /\ b.lifecycle = Lifecycle(v) /\ b.leaves = Frontier(v)
BY DEF Bake

(***************************************************************************)
(* The invariant holds                                                     *)
(***************************************************************************)

LEMMA Begins == Init => IInv
<1> SUFFICES ASSUME Init PROVE IInv
  OBVIOUS
<1>1. types \subseteq Types
  BY ConversationAssumption DEF Init
<1>2. PICK op : op = BaselineOp
  OBVIOUS
<1>3. op.type = "baseline" /\ op.target = 0 /\ op \in Operation
  BY <1>2 DEF BaselineOp, Op, Operation, NoOp, Lifecycles
<1>4. Len(log) = 1 /\ log[1] = op /\ log \in Seq(Operation)
  BY <1>2, <1>3 DEF Init
<1>5. IsLog(log) /\ PostedIn(log) = {}
  BY <1>3, <1>4 DEF IsLog, PostedIn
<1>6. PICK b : b = Nothing
  OBVIOUS
<1>7. /\ b.contributions = Empty /\ b.attachments = Empty /\ b.work = Empty /\ b.grants = Empty
      /\ b.lifecycle = "proposed" /\ b.leaves = {} /\ DOMAIN Empty = {}
  BY <1>6 DEF Nothing, Empty
<1>8. Named(b) = {}
  BY <1>7 DEF Named
<1>9. whole = Seed(1, b) /\ retained = whole /\ live = whole
  BY <1>6 DEF Init
<1>10. /\ IsView(whole)
       /\ whole.contributions = Empty /\ whole.attachments = Empty
       /\ whole.work = Empty /\ whole.grants = Empty
       /\ whole.lifecycle = "proposed" /\ whole.contentOps = 0
       /\ whole.seen = {1} /\ whole.referenced = {}
  BY <1>7, <1>8, <1>9, SeedForm
<1>11. ViewsAgree
  BY <1>9, <1>10 DEF ViewsAgree, Alike, Kept, Lifecycles
<1>12. Names(retained) = {}
  BY <1>7, <1>9, <1>10, NamedForm DEF EditsIn, EventsIn
<1>13. FrontiersAgree
  BY <1>4, <1>9, <1>10, <1>12 DEF FrontiersAgree, Bounded, Frontier, Names
<1>14. PartsLogged(whole, log)
  <2>1. Empty \in [DOMAIN Empty -> Contribution] /\ Empty \in [DOMAIN Empty -> Attachment] /\ IsMap(Empty)
    BY DEF Empty, IsMap
  <2> QED BY <1>5, <1>7, <1>10, <2>1
          DEF PartsLogged, ContributionsLogged, AttachmentsLogged, WorkLogged, GrantsLogged
<1>15. counted = {}
  BY DEF Init
<1>16. LifecycleLogged(whole, log, counted)
  BY <1>5, <1>10, <1>15 DEF LifecycleLogged, Noted, Asleep
<1> QED BY <1>1, <1>5, <1>11, <1>13, <1>14, <1>16 DEF IInv

LEMMA Posting ==
  ASSUME IInv, NEW author \in Authors, NEW type \in types, NEW target \in Targets(type),
         NEW parents \in Parents(type), NEW to \in Destinations(type),
         Post(author, type, target, to, parents)
  PROVE  IInv'
<1>1. PICK L, M, n, op : /\ L = log /\ M = log' /\ n = Len(log) + 1
                         /\ op = Op(author, type, target, to, parents)
  OBVIOUS
<1>2. /\ op.author = author /\ op.type = type /\ op.target = target /\ op.to = to
      /\ op.parents = parents
  BY <1>1 DEF Op
<1>3. type \in Types /\ type # "baseline"
  BY DEF IInv, Types, Anchored, Targeted, Openers, WorkRefs
<1>4. /\ M = Append(L, op) /\ types' = types
      /\ whole' = Step(whole, n, op) /\ retained' = Step(retained, n, op)
      /\ live' = Step(live, n, op)
      /\ counted' = IF whole'.contentOps > whole.contentOps THEN counted \cup {n} ELSE counted
  BY <1>1 DEF Post
<1>5. IsLog(L) /\ Len(L) \in Nat /\ Len(L) > 0 /\ L \in Seq(Operation)
  BY <1>1 DEF IInv, IsLog
<1>6. target \in 0 .. Len(L)
  BY <1>1, <1>5 DEF Targets, NoOp, Posted
<1>7. parents \subseteq 1 .. Len(L)
  BY <1>1, <1>5 DEF Parents, IInv, FrontiersAgree, Bounded, Frontier
<1>8. to \in Lifecycles
  BY DEF Destinations, Lifecycles
<1>9. op \in Operation
  BY <1>1, <1>3, <1>5, <1>6, <1>7, <1>8 DEF Op, Operation
<1>10. Grown(L, M, n, op)
  BY <1>1, <1>2, <1>4, <1>5, <1>6, <1>9, LogGrows
<1>11. PICK w, r, f, w1, r1, f1 : /\ w = whole /\ r = retained /\ f = live
                                  /\ w1 = whole' /\ r1 = retained' /\ f1 = live'
  OBVIOUS
<1>12. IsView(w) /\ IsView(r) /\ IsView(f) /\ op.type \in Types
  BY <1>2, <1>3, <1>11 DEF IInv, ViewsAgree
<1>13. Stepped(w, w1, n, op) /\ Stepped(r, r1, n, op) /\ Stepped(f, f1, n, op)
  BY <1>4, <1>11, <1>12, StepForm
<1>14. /\ Alike(r, w) /\ Alike(f, w) /\ Kept(r, w)
       /\ f.lifecycle = w.lifecycle /\ f.contentOps = w.contentOps
  BY <1>11 DEF IInv, ViewsAgree
<1>15. Alike(r1, w1) /\ (Stirs(r, op) <=> Stirs(w, op))
  BY <1>13, <1>14, StepAlike
<1>16. Alike(f1, w1) /\ (Stirs(f, op) <=> Stirs(w, op))
  BY <1>13, <1>14, StepAlike
<1>17. PartsLogged(w, L) /\ LifecycleLogged(w, L, counted) /\ w.contentOps \in Nat
  BY <1>1, <1>11 DEF IInv, LifecycleLogged
<1>18. f1.lifecycle = w1.lifecycle /\ f1.contentOps = w1.contentOps
  BY <1>13, <1>14, <1>16 DEF Stepped
<1>19. Kept(r1, w1)
  BY <1>2, <1>8, <1>13, <1>14, <1>15, <1>17, KeptStep
<1>20. ViewsAgree'
  BY <1>11, <1>13, <1>15, <1>16, <1>18, <1>19 DEF ViewsAgree, Stepped
<1>21. op.type # "baseline" /\ op.author \in Authors
  BY <1>2, <1>3
<1>22. PartsLogged(w1, M)
  BY <1>10, <1>13, <1>17, <1>21, PartsStep
<1>23. counted' = IF Stirs(w, op) THEN counted \cup {n} ELSE counted
  BY <1>4, <1>11, <1>13, <1>17 DEF Stepped
<1>24. LifecycleLogged(w1, M, counted')
  BY <1>10, <1>13, <1>17, <1>21, <1>23, LifecycleStep
<1>25. /\ Bounded(w, n - 1) /\ Bounded(r, n - 1) /\ Bounded(f, n - 1)
       /\ Frontier(r) = Frontier(w) /\ Frontier(f) = Frontier(w)
       /\ Names(r) \subseteq r.seen
  BY <1>1, <1>5, <1>11 DEF IInv, FrontiersAgree, Names
<1>26. op.parents \subseteq 1 .. n - 1 /\ n \in Nat /\ n > 0 /\ Len(M) = n
  BY <1>1, <1>2, <1>5, <1>7, <1>10 DEF Grown
<1>27. /\ Bounded(w1, n) /\ Bounded(r1, n) /\ Bounded(f1, n)
       /\ Frontier(w1) = (Frontier(w) \ op.parents) \cup {n}
       /\ Frontier(r1) = (Frontier(r) \ op.parents) \cup {n}
       /\ Frontier(f1) = (Frontier(f) \ op.parents) \cup {n}
  BY <1>13, <1>25, <1>26, FrontierStep
<1>28. Names(r1) \subseteq r1.seen
  <2>1. PartsLogged(r, L)
    BY <1>14, <1>17 DEF Alike, PartsLogged
  <2>2. Names(r1) \subseteq Names(r) \cup {n}
    BY <1>10, <1>13, <1>21, <2>1, PartsStep
  <2> QED BY <1>13, <1>25, <2>2 DEF Stepped
<1>29. FrontiersAgree'
  BY <1>1, <1>11, <1>25, <1>26, <1>27, <1>28 DEF FrontiersAgree, Names
<1>30. (types \subseteq Types)' /\ IsLog(log)'
  BY <1>1, <1>4, <1>10 DEF IInv, Grown
<1> QED BY <1>1, <1>11, <1>20, <1>22, <1>24, <1>29, <1>30 DEF IInv

LEMMA Compacting ==
  ASSUME IInv, Rollup
  PROVE  IInv'
<1>1. PICK L, M, n, op, b : /\ L = log /\ M = log' /\ n = Len(log) + 1
                            /\ op = BaselineOp /\ b = Bake(retained)
  OBVIOUS
<1>2. op.type = "baseline" /\ op.target = 0 /\ op \in Operation
  BY <1>1 DEF BaselineOp, Op, Operation, NoOp, Lifecycles
<1>3. /\ M = Append(L, op) /\ types' = types /\ whole' = whole /\ counted' = counted
      /\ retained' = Seed(n, b) /\ live' = Skip(live, n, b)
  BY <1>1 DEF Rollup
<1>4. IsLog(L) /\ Len(L) \in Nat /\ Len(L) > 0
  BY <1>1 DEF IInv, IsLog
<1>5. Grown(L, M, n, op)
  <2>1. op.target \in 0 .. Len(L) /\ n = Len(L) + 1
    BY <1>1, <1>2, <1>4
  <2> QED BY <1>2, <1>3, <1>4, <2>1, LogGrows
<1>6. PICK w, r, f, r1, f1 : /\ w = whole /\ r = retained /\ f = live
                             /\ r1 = retained' /\ f1 = live'
  OBVIOUS
<1>7. /\ b.contributions = r.contributions /\ b.attachments = r.attachments
      /\ b.work = r.work /\ b.grants = r.grants
      /\ b.lifecycle = Lifecycle(r) /\ b.leaves = Frontier(r)
  BY <1>1, <1>6, BakeForm
<1>8. /\ IsView(w) /\ IsView(f) /\ Alike(r, w) /\ Alike(f, w) /\ Kept(r, w)
      /\ f.lifecycle = w.lifecycle /\ f.contentOps = w.contentOps
  BY <1>6 DEF IInv, ViewsAgree
<1>9. /\ Bounded(w, n - 1) /\ Bounded(r, n - 1) /\ Bounded(f, n - 1)
      /\ Frontier(r) = Frontier(w) /\ Frontier(f) = Frontier(w) /\ Frontier(w) # {}
      /\ Named(b) \subseteq r.seen
  BY <1>1, <1>4, <1>6 DEF IInv, FrontiersAgree
<1>10. /\ IsView(r1) /\ Alike(r1, r) /\ r1.lifecycle = Lifecycle(r) /\ r1.contentOps = 0
       /\ r1.seen = {n} \cup Named(b) \cup Frontier(r)
       /\ r1.referenced = (Named(b) \cup {n}) \ Frontier(r)
  BY <1>3, <1>6, <1>7, <1>9, SeedForm DEF Alike
<1>11. /\ IsView(f1) /\ Alike(f1, f)
       /\ f1.lifecycle = f.lifecycle /\ f1.contentOps = f.contentOps
       /\ f1.seen = f.seen \cup {n} \cup Frontier(r)
       /\ f1.referenced = (f.referenced \cup {n} \cup Frontier(r)) \ Frontier(r)
  BY <1>3, <1>6, <1>7, <1>8, SkipForm
<1>12. Kept(r1, w)
  BY <1>8, <1>10, KeptSeed
<1>13. ViewsAgree'
  BY <1>3, <1>6, <1>8, <1>10, <1>11, <1>12 DEF ViewsAgree, Alike
<1>14. n \in Nat /\ Len(M) = n /\ n > 0
  BY <1>4, <1>5 DEF Grown
<1>15. Frontier(r) \subseteq 1 .. n - 1 /\ n \notin Frontier(r)
  BY <1>9, <1>14 DEF Bounded, Frontier
<1>16. Bounded(w, n) /\ Bounded(r1, n) /\ Bounded(f1, n)
  BY <1>9, <1>10, <1>11, <1>14, <1>15 DEF Bounded
<1>17. Frontier(r1) = Frontier(r)
  BY <1>10 DEF Frontier
<1>18. Frontier(f1) = Frontier(r)
  <2>1. n \notin f.seen
    BY <1>9, <1>14 DEF Bounded
  <2> QED BY <1>9, <1>11, <2>1 DEF Frontier
<1>19. Names(r1) \subseteq r1.seen
  <2>1. Names(r1) = Names(r)
    BY <1>10, NamedForm DEF Alike
  <2> QED BY <1>1, <1>6, <1>10, <2>1 DEF Names
<1>20. FrontiersAgree'
  BY <1>1, <1>3, <1>6, <1>9, <1>14, <1>16, <1>17, <1>18, <1>19 DEF FrontiersAgree, Names
<1>21. PartsLogged(w, L) /\ LifecycleLogged(w, L, counted)
  BY <1>1, <1>6 DEF IInv
<1>22. PartsLogged(w, M)
  BY <1>2, <1>5, <1>21, PartsKept
<1>23. LifecycleLogged(w, M, counted)
  <2>1. PostedIn(M) = PostedIn(L) /\ \A l : Noted(M, l) = Noted(L, l)
    BY <1>2, <1>5, PostedGrows, NotedGrows
  <2> QED BY <1>21, <2>1 DEF LifecycleLogged, Asleep
<1>24. (types \subseteq Types)' /\ IsLog(log)'
  BY <1>1, <1>3, <1>5 DEF IInv, Grown
<1> QED BY <1>1, <1>3, <1>6, <1>13, <1>20, <1>22, <1>23, <1>24 DEF IInv

(* The three readers agree and the log explains them, at every step.       *)
THEOREM ReadersAreInStep == Spec => []IInv
<1>1. IInv /\ [Next]_vars => IInv'
  <2> SUFFICES ASSUME IInv, [Next]_vars PROVE IInv'
    OBVIOUS
  <2>1. CASE Next
    BY <2>1, Posting, Compacting DEF Next
  <2>2. CASE UNCHANGED vars
    BY <2>2 DEF vars, IInv, ViewsAgree, FrontiersAgree
  <2> QED BY <2>1, <2>2
<1> QED BY Begins, <1>1, PTL DEF Spec

(***************************************************************************)
(* What follows of it                                                      *)
(***************************************************************************)

LEMMA InvSame == IInv => Same(retained, whole) /\ Same(live, whole)
<1> SUFFICES ASSUME IInv PROVE Same(retained, whole) /\ Same(live, whole)
  OBVIOUS
<1>1. whole.contentOps \in Nat
  BY DEF IInv, LifecycleLogged
<1>2. Lifecycle(retained) = Lifecycle(whole)
  BY <1>1, KeptMeet DEF IInv, ViewsAgree
<1>3. Lifecycle(live) = Lifecycle(whole)
  BY DEF IInv, ViewsAgree, Lifecycle
<1> QED BY <1>2, <1>3 DEF IInv, ViewsAgree, FrontiersAgree, Same, Alike

(* Compaction changes nothing for anyone: what a reader of the compacted   *)
(* log folds (Snapshot after Rollup) is what the uncompacted log gives.    *)
THEOREM TidyingIsInvisible == Spec => []TidyingInvisible
BY ReadersAreInStep, InvSame, PTL DEF TidyingInvisible

(* Nor for a follower that met the baselines in the middle of its log.     *)
THEOREM FollowersAgree == Spec => []FollowerAgrees
BY ReadersAreInStep, InvSame, PTL DEF FollowerAgrees

LEMMA InvAnchors == IInv => PartsStayAnchors
<1> SUFFICES ASSUME IInv, NEW x \in Adrift(retained)
             PROVE  LET anchor == IF x \in DOMAIN retained.contributions
                                  THEN retained.contributions[x].anchor
                                  ELSE retained.attachments[x].anchor
                    IN  anchor \notin Named(Bake(whole))
  BY DEF PartsStayAnchors
<1>1. PICK c, a : c = retained.contributions /\ a = retained.attachments
  OBVIOUS
<1>2. PartsLogged(whole, log) /\ Alike(retained, whole)
  BY DEF IInv, ViewsAgree
<1>3. DOMAIN c \cap DOMAIN a = {}
  BY <1>1, <1>2 DEF PartsLogged, Alike, ContributionsLogged, AttachmentsLogged
<1>4. /\ x \in DOMAIN c => c[x].anchor \notin retained.seen
      /\ x \notin DOMAIN c => a[x].anchor \notin retained.seen
  BY <1>1, <1>3 DEF Adrift, Dangling
<1>5. Names(whole) = Names(retained)
  BY <1>2, NamedForm DEF Alike
<1>6. Names(retained) \subseteq retained.seen
  BY DEF IInv, FrontiersAgree, Names
<1> QED BY <1>1, <1>4, <1>5, <1>6 DEF Names

(* An anchor that is still a part of the conversation is never shown as    *)
(* dangling (Dangling in view.go), whatever was compacted in between.      *)
THEOREM PartsRemainAnchors == Spec => []PartsStayAnchors
BY ReadersAreInStep, InvAnchors, PTL

LEMMA InvOwnWords == IInv => OwnWordsNewestWins
<1> SUFFICES ASSUME IInv, NEW c \in DOMAIN retained.contributions
             PROVE  LET k     == retained.contributions[c]
                        chain == {c} \cup k.edits
                    IN  /\ k.body \in chain /\ \A e \in chain : e <= k.body
                        /\ k.edits = {e \in Posted : /\ log[e].type = "edit"
                                                     /\ log[e].author = log[c].author
                                                     /\ log[e].target \in chain}
  BY DEF OwnWordsNewestWins
<1>1. ContributionsLogged(retained.contributions, log)
  BY DEF IInv, ViewsAgree, Alike, PartsLogged
<1>2. PICK f : f = retained.contributions
  OBVIOUS
<1>3. Posted = PostedIn(log)
  BY DEF Posted, PostedIn
<1>4. /\ f[c].body \in Chain(f, c) /\ \A e \in Chain(f, c) : e <= f[c].body
      /\ f[c].edits = EditsOf(f, c, log)
  BY <1>1, <1>2 DEF ContributionsLogged
<1> QED BY <1>2, <1>3, <1>4 DEF Chain, EditsOf

(* A contribution shows the newest correction its author made of it, and   *)
(* nobody else's (applyEdit, editTarget).                                  *)
THEOREM OwnWordsStand == Spec => []OwnWordsNewestWins
BY ReadersAreInStep, InvOwnWords, PTL

LEMMA InvFirstClaim == IInv => FirstClaimWins
<1> SUFFICES ASSUME IInv, NEW w \in DOMAIN retained.work
             PROVE  LET done      == About(w, "work.done")
                        before    == {i \in Posted : \A d \in done : i < d}
                        abandoned == About(w, "work.abandon") \cap before
                        claims    == {c \in About(w, "work.claim") \cap before :
                                        \A a \in abandoned : a < c}
                    IN  /\ retained.work[w].status =
                             IF done # {} THEN "done" ELSE IF claims # {} THEN "claimed" ELSE "open"
                        /\ \/ claims = {} /\ retained.work[w].owner = Nobody
                           \/ \E c \in claims : /\ \A d \in claims : c <= d
                                                /\ retained.work[w].owner = log[c].author
  BY DEF FirstClaimWins
<1>1. Refereed(retained.work[w], log, w)
  BY DEF IInv, ViewsAgree, Alike, PartsLogged, WorkLogged
<1>2. Posted = PostedIn(log)
  BY DEF Posted, PostedIn
<1>3. \A type : About(w, type) = AboutIn(log, w, type)
  BY <1>2 DEF About, AboutIn
<1>4. Undone(log, w) = {i \in Posted : \A d \in About(w, "work.done") : i < d}
  BY <1>2, <1>3 DEF Undone
<1>5. Claims(log, w) =
        {c \in About(w, "work.claim") \cap {i \in Posted : \A d \in About(w, "work.done") : i < d} :
           \A a \in About(w, "work.abandon") \cap {i \in Posted : \A d \in About(w, "work.done") : i < d} :
             a < c}
  BY <1>3, <1>4 DEF Claims
<1> QED BY <1>1, <1>3, <1>5 DEF Refereed

(* The log is the referee of claims (applyWorkRef): the owner is the first *)
(* to claim since the item was last let go, however the log was compacted. *)
THEOREM FirstClaimsWin == Spec => []FirstClaimWins
BY ReadersAreInStep, InvFirstClaim, PTL

LEMMA InvGrants == IInv => GrantsStand
<1> SUFFICES ASSUME IInv PROVE GrantsStand
  OBVIOUS
<1>1. GrantsLogged(retained.grants, log)
  BY DEF IInv, ViewsAgree, Alike, PartsLogged
<1>2. Posted = PostedIn(log)
  BY DEF Posted, PostedIn
<1>3. \A g : About(g, "grant.revoke") = AboutIn(log, g, "grant.revoke")
  BY <1>2 DEF About, AboutIn
<1> QED BY <1>1, <1>2, <1>3 DEF GrantsLogged, GrantsStand, Withdrawn

(* A standing grant survives compaction, and only its granter ends it      *)
(* (applyGrantRevoke, rollup.go).                                          *)
THEOREM GrantsRemain == Spec => []GrantsStand
BY ReadersAreInStep, InvGrants, PTL

LEMMA InvLifecycle == IInv => LifecycleAsWritten
<1> SUFFICES ASSUME IInv PROVE LifecycleAsWritten
  OBVIOUS
<1>1. Lifecycle(retained) = Lifecycle(whole)
  BY InvSame DEF Same
<1>2. LifecycleLogged(whole, log, counted)
  BY DEF IInv
<1>3. Posted = PostedIn(log)
  BY DEF Posted, PostedIn
<1>4. Lifecycle(whole) =
        IF Noted(log, "archived") # {} THEN "archived"
        ELSE IF Noted(log, "closed") # {} THEN "closed"
        ELSE IF Asleep(log, counted) THEN "dormant"
        ELSE IF counted # {} THEN "active" ELSE "proposed"
  BY <1>2 DEF LifecycleLogged, Lifecycle
<1> QED BY <1>1, <1>3, <1>4 DEF LifecycleAsWritten, Noted, Asleep

(* Everyone works out the same lifecycle, the one the pages of the log     *)
(* say (apply, applyLifecycle).                                            *)
THEOREM LifecycleIsWritten == Spec => []LifecycleAsWritten
BY ReadersAreInStep, InvLifecycle, PTL
=============================================================================
