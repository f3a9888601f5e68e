--------------------------- MODULE Curator_proofs ---------------------------
(***************************************************************************)
(* Proofs about asking the realm and about the curator, for any topics,    *)
(* responders, personas, limits and scenarios.                             *)
(***************************************************************************)
EXTENDS Curator, FiniteSetTheorems, WellFoundedInduction, TLAPS

(***************************************************************************)
(* Lemmas about operators                                                  *)
(***************************************************************************)

(* The latest of a set is of it, or 0.                                     *)
LEMMA LatestOf ==
  ASSUME NEW S
  PROVE  Latest(S) \in S \union {0}
BY DEF Latest

LEMMA Single ==
  ASSUME NEW S, NEW m \in S
  PROVE  <<m>> \in Seq(S)
OBVIOUS

(* A publish appends one operation to one topic.                           *)
LEMMA Appends ==
  ASSUME log \in [Topics -> Seq(Op)], clock \in Nat,
         NEW t \in Topics, NEW kind \in Kinds, Published(t, kind)
  PROVE  /\ clock' \in Nat
         /\ clock' >= clock
         /\ log' \in [Topics -> Seq(Op)]
         /\ Len(log'[t]) = Len(log[t]) + 1
         /\ log'[t][Len(log[t]) + 1].kind = kind
         /\ \A u \in Topics : u # t => log'[u] = log[u]
         /\ \A i \in 1 .. Len(log[t]) : log'[t][i] = log[t][i]
<1>0. PICK item \in BOOLEAN :
        /\ clock' = clock + 1
        /\ log' = [log EXCEPT ![t] = Append(@, [kind |-> kind, at |-> clock + 1,
                                               item |-> item])]
  BY DEF Published, About
<1> DEFINE op == [kind |-> kind, at |-> clock + 1, item |-> item]
<1>1. op \in Op
  BY DEF Op
<1>2. log' = [log EXCEPT ![t] = Append(log[t], op)] /\ clock' = clock + 1
  BY <1>0
<1>3. log[t] \in Seq(Op)
  OBVIOUS
<1>4. Append(log[t], op) \in Seq(Op)
  BY <1>1, <1>3
<1>5. log'[t] = Append(log[t], op)
  BY <1>2
<1>6. /\ Len(log'[t]) = Len(log[t]) + 1
      /\ log'[t][Len(log[t]) + 1] = op
      /\ \A i \in 1 .. Len(log[t]) : log'[t][i] = log[t][i]
  BY <1>3, <1>5
<1>7. log' \in [Topics -> Seq(Op)]
  BY <1>2, <1>4
<1> QED
  BY <1>2, <1>6, <1>7

(* A responder sends replies, whatever it was asked.                       *)
LEMMA DraftsAreReplies ==
  ASSUME scene \in Scenarios, log \in [Topics -> Seq(Op)],
         NEW r \in Responders, NEW q \in Request, NEW d \in Draft(r, q)
  PROVE  d \in Seq(Reply)
<1> USE DEF Sigs
<1>1. Says(r, q) \in Reply
  BY DEF Says, Reply, Request
<1>2. ASSUME NEW s \in Sigs, NEW f \in SUBSET Ref
      PROVE  [Says(r, q) EXCEPT !.sig = s, !.found = f] \in Reply
  BY <1>1 DEF Says, Reply
<1>3. ASSUME NEW s \in Sigs, NEW c \in SUBSET Ref, NEW v \in Sigs
      PROVE  /\ Cites(r, q, s, c) \in Reply
             /\ [Cites(r, q, s, c) EXCEPT !.verdict = v] \in Reply
  BY <1>1 DEF Says, Reply, Cites
<1>4. \A t \in Topics : Len(log[t]) \in Nat
  OBVIOUS
<1>5. CASE q.kind = "discover"
  <2>1. d \in Matches(r, q)
    BY <1>5 DEF Draft
  <2> DEFINE S == Capped(q.hits)
  <2>2. S \subseteq Topics
    BY DEF Capped, Request
  <2> DEFINE F == {<<t, Len(log[t])>> : t \in S}
  <2>3. F \in SUBSET Ref
    BY <2>2, <1>4 DEF Ref
  <2>4. CASE S = {}
    BY <2>1, <2>4 DEF Matches
  <2>5. CASE S # {}
    <3>1. PICK s \in {"verified", "unsigned"} :
            d = <<[Says(r, q) EXCEPT !.sig = s, !.found = F]>>
      BY <2>1, <2>5 DEF Matches
    <3> HIDE DEF F
    <3>2. [Says(r, q) EXCEPT !.sig = s, !.found = F] \in Reply
      BY <2>3, <1>2
    <3> QED
      BY <3>1, <3>2, Single
  <2> QED
    BY <2>4, <2>5
<1>6. CASE q.kind = "query"
  <2>1. d \in Testimony(r, q)
    BY <1>6 DEF Draft
  <2>2. scene.most \in Nat
    BY ExchangeAssumption DEF Scenario
  <2>3. CASE d = <<>>
    BY <2>3
  <2>4. CASE d # <<>>
    <3>1. PICK s \in {"verified", "failed"}, c \in Citations :
            d = <<Cites(r, q, s, c)>>
      BY <2>1, <2>4 DEF Testimony
    <3>2. c \in SUBSET Ref
      BY <2>2 DEF Ref, Citations
    <3>3. Cites(r, q, s, c) \in Reply
      BY <3>2, <1>3
    <3> QED
      BY <3>1, <3>3, Single
  <2> QED
    BY <2>3, <2>4
<1>7. CASE q.kind # "discover" /\ q.kind # "query"
  <2>1. d \in Exhibits(r, q)
    BY <1>7 DEF Draft
  <2>2. CASE d = <<>>
    BY <2>2
  <2>3. CASE d # <<>>
    <3>1. PICK s \in {"verified", "failed"}, c \in {q.op, {}}, v \in Sigs :
            d = <<[Cites(r, q, s, c) EXCEPT !.verdict = v]>>
      BY <2>1, <2>3 DEF Exhibits
    <3>2. c \in SUBSET Ref
      BY DEF Request
    <3>3. [Cites(r, q, s, c) EXCEPT !.verdict = v] \in Reply
      BY <3>2, <1>3
    <3> QED
      BY <3>1, <3>3, Single
  <2> QED
    BY <2>2, <2>3
<1> QED
  BY <1>5, <1>6, <1>7

(***************************************************************************)
(* Types                                                                   *)
(***************************************************************************)

LEMMA FreshAsk ==
  ASSUME NEW n \in Nat, NEW kind \in AskKinds
  PROVE  Asking(n, kind) \in Ask
<1>1. [t \in Topics |-> [entry |-> 0, answers |-> <<>>]]
        \in [Topics -> [entry : Nat, answers : Seq(Credit)]]
  OBVIOUS
<1>2. [t \in Topics |-> {0}] \in [Topics -> SUBSET Nat]
  OBVIOUS
<1> QED
  BY <1>1, <1>2 DEF Asking, Ask

LEMMA ShownAreNats ==
  ASSUME log \in [Topics -> Seq(Op)], NEW t \in Topics
  PROVE  Shown(t) \in SUBSET Nat
<1>1. Len(log[t]) \in Nat
  OBVIOUS
<1>2. \A K : Is(t, Len(log[t]), K) \subseteq Nat
  BY <1>1 DEF Is
<1>3. \A K : Latest(Is(t, Len(log[t]), K)) \in Nat
  BY <1>2, LatestOf
<1> HIDE <1>1
<1> QED
  BY <1>2, <1>3 DEF Shown

LEMMA MergeTypes ==
  ASSUME NEW results \in [Topics -> [entry : Nat, answers : Seq(Credit)]],
         NEW r \in Reply
  PROVE  MergeReply(results, r)
           \in [Topics -> [entry : Nat, answers : Seq(Credit)]]
<1> SUFFICES ASSUME NEW t \in Topics
             PROVE  MergeReply(results, r)[t]
                      \in [entry : Nat, answers : Seq(Credit)]
  BY DEF MergeReply
<1> DEFINE old == results[t]
           as  == {m \in r.found : m[1] = t}
           c   == [persona |-> Persona[r.by], sig |-> r.sig, to |-> r.to]
           e   == IF old.answers = <<>> THEN (CHOOSE m \in as : TRUE)[2]
                  ELSE old.entry
           a   == IF Credited(old.answers, Persona[r.by]) THEN old.answers
                  ELSE Append(old.answers, c)
<1>1. MergeReply(results, r)[t] =
        IF as = {} THEN old ELSE [entry |-> e, answers |-> a]
  BY DEF MergeReply
<1>2. c \in Credit
  BY DEF Credit, Reply
<1>3. old.entry \in Nat /\ old.answers \in Seq(Credit)
  OBVIOUS
<1>4. a \in Seq(Credit)
  BY <1>2, <1>3
<1>5. as # {} => e \in Nat
  <2>1. as \subseteq Topics \X Nat
    BY DEF Reply, Ref
  <2>2. as # {} => (CHOOSE m \in as : TRUE) \in as
    OBVIOUS
  <2> QED
    BY <2>1, <2>2, <1>3
<1> QED
  BY <1>1, <1>4, <1>5

(* What the asker does keeps the types of the exchange.                    *)
LEMMA AskerTypes ==
  ASSUME ExchangeTypeOK, Asker
  PROVE  ExchangeTypeOK'
<1> USE DEF ExchangeTypeOK
<1>0. /\ ask.n \in Nat /\ ask.kind \in AskKinds /\ ask.inbox \in Seq(Reply)
      /\ ask.op \in SUBSET Ref /\ ask.hits \in SUBSET Topics
      /\ ask.memo \in [Topics -> SUBSET Nat]
      /\ ask.answers \in Seq(Answer) /\ ask.read \in Seq(Reply)
      /\ ask.held \in SUBSET Reply
  BY DEF Ask
<1>1. ASSUME NEW a \in Ask, Sent(a)
      PROVE  resp' \in [Responders -> Responder]
  <2> DEFINE q == [n |-> a.n, kind |-> a.kind, hits |-> a.hits, op |-> a.op]
  <2>1. q \in Request
    BY DEF Ask, Request
  <2>2. \A r \in Responders :
          [resp[r] EXCEPT !.queue = Append(resp[r].queue, q)] \in Responder
    <3> HIDE DEF q
    <3>1. \A r \in Responders : resp[r].queue \in Seq(Request)
      BY DEF Responder
    <3>2. \A r \in Responders : Append(resp[r].queue, q) \in Seq(Request)
      BY <2>1, <3>1
    <3> QED
      BY <3>2 DEF Responder
  <2> QED
    BY <1>1, <2>2 DEF Sent
<1>2. ask.inbox # <<>> =>
        Head(ask.inbox) \in Reply /\ Tail(ask.inbox) \in Seq(Reply)
  BY <1>0
<1>3. CASE Begin
  <2>1. PICK kind \in {"discover", "query"} \intersect scene.asks,
             hits \in SUBSET Topics :
          LET a == [Asking(ask.n + 1, kind) EXCEPT
                     !.pc = "gathering", !.hits = hits,
                     !.alone = Listening = {}]
          IN  ask' = a /\ Sent(a) /\ UNCHANGED <<scene, clock, log, expired>>
    BY <1>3, Zenon DEF Begin
  <2>2. Asking(ask.n + 1, kind) \in Ask
    BY <1>0, FreshAsk DEF AskKinds
  <2>3. ask' \in Ask
    BY <2>1, <2>2 DEF Ask
  <2> QED
    BY <2>1, <2>3, <1>1
<1>4. CASE Probe
  <2>1. PICK t \in Topics : \E i \in 1 .. Len(log[t]) :
          /\ ask' = [Asking(ask.n + 1, "fetch") EXCEPT !.pc = "probing",
                       !.op = {<<t, i>>}, !.live = i \in Live(t)]
          /\ UNCHANGED <<scene, clock, log, expired, resp>>
    BY <1>4, Zenon DEF Probe
  <2>2. PICK i \in 1 .. Len(log[t]) :
          /\ ask' = [Asking(ask.n + 1, "fetch") EXCEPT !.pc = "probing",
                       !.op = {<<t, i>>}, !.live = i \in Live(t)]
          /\ UNCHANGED <<scene, clock, log, expired, resp>>
    BY <2>1
  <2>3. Asking(ask.n + 1, "fetch") \in Ask
    BY <1>0, FreshAsk DEF AskKinds
  <2>4. {<<t, i>>} \in SUBSET Ref
    BY DEF Ref
  <2>5. (i \in Live(t)) \in BOOLEAN
    BY DEF Live
  <2>6. ask' \in Ask
    <3>1. ASSUME NEW a \in Ask, NEW op \in SUBSET Ref, NEW live \in BOOLEAN
          PROVE  [a EXCEPT !.pc = "probing", !.op = op, !.live = live] \in Ask
      BY DEF Ask
    <3>2. [Asking(ask.n + 1, "fetch") EXCEPT !.pc = "probing",
             !.op = {<<t, i>>}, !.live = i \in Live(t)] \in Ask
      BY <2>3, <2>4, <2>5, <3>1, Zenon
    <3> DEFINE a == [Asking(ask.n + 1, "fetch") EXCEPT !.pc = "probing",
                       !.op = {<<t, i>>}, !.live = i \in Live(t)]
    <3>3. ask' = a
      BY <2>2
    <3>4. a \in Ask
      BY <3>2
    <3> HIDE DEF a
    <3> QED
      BY <3>3, <3>4
  <2> QED
    BY <2>2, <2>6
<1>5. CASE CaptureExhibit
  <2>1. ask' \in Ask
    <3>1. \A a \in Ask : [a EXCEPT !.pc = "done"] \in Ask
      BY DEF Ask
    <3>2. \A a \in Ask, b \in BOOLEAN :
            [a EXCEPT !.pc = "gathering", !.live = FALSE, !.alone = b] \in Ask
      BY DEF Ask
    <3>3. (Listening = {}) \in BOOLEAN
      OBVIOUS
    <3> HIDE DEF ExchangeTypeOK
    <3>4. ask \in Ask
      BY DEF ExchangeTypeOK
    <3> QED
      BY <1>5, <3>1, <3>2, <3>3, <3>4 DEF CaptureExhibit
  <2>2. resp' \in [Responders -> Responder]
    BY <1>5, <1>1 DEF CaptureExhibit
  <2> QED
    BY <2>1, <2>2, <1>5 DEF CaptureExhibit
<1>6. CASE Deadline
  BY <1>6, <1>0 DEF Deadline
<1>7. CASE GatherMatch
  <2>1. MergeReply(ask.results, Head(ask.inbox))
          \in [Topics -> [entry : Nat, answers : Seq(Credit)]]
    BY <1>7, <1>2, MergeTypes DEF GatherMatch, Ask
  <2>2. ask' \in Ask
    BY <2>1, <1>2, <1>7 DEF GatherMatch, Ask
  <2> QED
    BY <2>2, <1>7 DEF GatherMatch
<1>8. CASE GatherAnswer
  <2> DEFINE r == Head(ask.inbox)
             memo == Checked(ask.memo, r.op)
             x == [reply |-> r, grade |-> Grade(memo, r.op)]
  <2>1. memo \in [Topics -> SUBSET Nat]
    BY <1>0, ShownAreNats DEF Checked
  <2>2. Grade(memo, r.op) \in {"gossip", "fact", "unverifiable"}
    BY DEF Grade
  <2>3. x \in Answer
    BY <2>2, <1>2, <1>8 DEF Answer, GatherAnswer
  <2>4. Append(ask.answers, x) \in Seq(Answer)
    BY <2>3, <1>0
  <2> HIDE DEF memo, x
  <2>5. /\ ask' = IF r.sig = "failed" THEN [ask EXCEPT !.inbox = Tail(@)]
                  ELSE [ask EXCEPT !.inbox = Tail(@), !.memo = memo,
                                   !.answers = Append(@, x)]
        /\ UNCHANGED <<scene, clock, log, expired, resp>>
        /\ ask.inbox # <<>>
    BY <1>8 DEF GatherAnswer, memo, x
  <2>6. ask' \in Ask
    BY <2>1, <2>4, <2>5, <1>2 DEF Ask
  <2> QED
    BY <2>5, <2>6
<1>9. CASE GatherExhibit
  <2> DEFINE r == Head(ask.inbox)
             a == [ask EXCEPT !.inbox = Tail(@), !.read = Append(@, r)]
  <2>0. r \in Reply /\ Tail(ask.inbox) \in Seq(Reply)
    BY <1>9, <1>2 DEF GatherExhibit
  <2>1. a \in Ask
    <3>1. Append(ask.read, r) \in Seq(Reply)
      BY <2>0, <1>0
    <3> HIDE DEF r
    <3> QED
      BY <2>0, <3>1 DEF Ask
  <2>2. Weigh(a, r) \in Ask
    <3> HIDE DEF a, r
    <3> QED BY <2>0, <2>1 DEF Weigh, Ask
  <2> QED
    BY <2>2, <1>9 DEF GatherExhibit
<1>10. CASE Finish
  <2>1. Asking(ask.n, ask.kind) \in Ask
    BY <1>0, FreshAsk
  <2>2. [ask EXCEPT !.pc = "done", !.inbox = <<>>] \in Ask
    <3>1. <<>> \in Seq(Reply)
      OBVIOUS
    <3> QED
      BY <3>1 DEF Ask
  <2>3. ask' \in Ask
    BY <2>1, <2>2, <1>10 DEF Finish
  <2> QED
    BY <2>3, <1>10 DEF Finish
<1> QED
  BY <1>3, <1>4, <1>5, <1>6, <1>7, <1>8, <1>9, <1>10 DEF Asker

(* What a responder does keeps them, too.                                  *)
LEMMA ResponderTypes ==
  ASSUME ExchangeTypeOK, NEW r \in Responders,
         Serve(r) \/ Stop(r) \/ Hear(r) \/ Send(r)
  PROVE  ExchangeTypeOK'
<1> USE DEF ExchangeTypeOK
<1>0. resp[r] \in Responder
  OBVIOUS
<1>1. ASSUME NEW x \in Responder, resp' = [resp EXCEPT ![r] = x]
      PROVE  resp' \in [Responders -> Responder]
  BY <1>1
<1>2. CASE Serve(r)
  <2>1. [resp[r] EXCEPT !.up = TRUE] \in Responder
    BY <1>0 DEF Responder
  <2> QED
    BY <2>1, <1>2 DEF Serve
<1>3. CASE Stop(r)
  BY <1>3 DEF Stop, Off, Responder
<1>4. CASE Hear(r)
  <2> DEFINE q == Head(resp[r].queue)
             x == [resp[r] EXCEPT !.queue = Tail(@)]
  <2>0. resp[r].queue \in Seq(Request) /\ resp[r].queue # <<>>
    BY <1>0, <1>4 DEF Hear, Responder
  <2>1. q \in Request /\ x \in Responder
    <3>1. q \in Request /\ Tail(resp[r].queue) \in Seq(Request)
      BY <2>0
    <3> QED
      BY <1>0, <3>1 DEF Responder
  <2>2. \A d \in Draft(r, q) : [x EXCEPT !.draft = d] \in Responder
    <3> SUFFICES ASSUME NEW d \in Draft(r, q)
                 PROVE  [x EXCEPT !.draft = d] \in Responder
      OBVIOUS
    <3>1. d \in Seq(Reply)
      BY <2>1, DraftsAreReplies
    <3> QED
      BY <3>1, <2>1 DEF Responder
  <2>3. \E y \in Responder : resp' = [resp EXCEPT ![r] = y]
    BY <1>4, <2>1, <2>2 DEF Hear
  <2> QED
    BY <2>3, <1>1, <1>4 DEF Hear
<1>5. CASE Send(r)
  <2> DEFINE m == Head(resp[r].draft)
  <2>0. resp[r].draft \in Seq(Reply) /\ resp[r].draft # <<>>
    BY <1>0, <1>5 DEF Send, Responder
  <2>1. m \in Reply /\ [resp[r] EXCEPT !.draft = Tail(@)] \in Responder
    <3>1. m \in Reply /\ Tail(resp[r].draft) \in Seq(Reply)
      BY <2>0
    <3> QED
      BY <1>0, <3>1 DEF Responder
  <2>2. Append(ask.inbox, m) \in Seq(Reply)
    BY <2>1 DEF Ask
  <2>3. ask' \in Ask
    BY <2>2, <1>5 DEF Send, Ask
  <2>4. resp' = [resp EXCEPT ![r] = [resp[r] EXCEPT !.draft = Tail(@)]]
    BY <1>5 DEF Send
  <2>5. resp' \in [Responders -> Responder]
    BY <2>1, <2>4, <1>1
  <2> QED
    BY <2>3, <2>5, <1>5 DEF Send
<1> QED
  BY <1>2, <1>3, <1>4, <1>5

LEMMA InitTypes == Init => TypeOK
<1> SUFFICES ASSUME Init PROVE TypeOK
  OBVIOUS
<1> USE DEF Init, ExchangeInit
<1>1. \A S : S \subseteq Topics => Cardinality(S) \in Nat
  BY ExchangeAssumption, FS_Subset, FS_CardinalityType
<1>2. clock \in Nat
  BY <1>1
<1>3. log \in [Topics -> Seq(Op)]
  <2> SUFFICES ASSUME NEW t \in Topics PROVE log[t] \in Seq(Op)
    OBVIOUS
  <2> DEFINE before == {u \in Topics : scene.start[u] = 1 /\ u <= t}
             op == [kind |-> "baseline", at |-> Cardinality(before),
                    item |-> FALSE]
  <2>1. op \in Op
    BY <1>1 DEF Op, Kinds
  <2>2. log[t] = IF scene.start[t] = 0 THEN <<>> ELSE <<op>>
    OBVIOUS
  <2> HIDE DEF op
  <2>3. <<op>> \in Seq(Op) /\ <<>> \in Seq(Op)
    BY ONLY <2>1, Single
  <2> QED
    BY ONLY <2>2, <2>3
<1>4. ask \in Ask
  BY FreshAsk DEF AskKinds
<1>5. Off \in Responder
  BY DEF Off, Responder
<1>6. ExchangeTypeOK
  BY <1>2, <1>3, <1>4, <1>5 DEF ExchangeTypeOK
<1>7. Resting \in Thread
  BY DEF Resting, Thread
<1> QED
  BY <1>6, <1>7 DEF TypeOK, Blank

(* Where the goroutines are: one that sweeps holds no reading; one that    *)
(* keeps holds one of one topic; nobody answers before the first refresh;  *)
(* and a pass with something to do is that of a habit.                     *)
ThreadsSound ==
  /\ \A th \in Threads :
       /\ thread[th].pc = "sweep" => thread[th].at = {}
       /\ thread[th].pc = "keep" =>
            \A t \in thread[th].at : /\ thread[th].at = {t}
                                     /\ thread[th].view <= Len(log[t])
  /\ \/ Run.pc \in {"off", "subscribed"}
     \/ Run.pc \in {"sweep", "keep"} /\ Run.habit = 0
     => thread["answer"].pc = "off"
  /\ Run.pc = "act" \/ (Run.pc = "pass" /\ Run.left # {}) => Run.habit # 0

(* What the curator and the others around it do keeps all types.           *)
LEMMA CuratorTypes ==
  ASSUME TypeOK, ThreadsSound,
         \/ \E t \in Topics : Post(t) \/ Stored(t) \/ Signal(t)
         \/ Age \/ Subscribe \/ Seed \/ Asked \/ Search
         \/ \E th \in Threads : Refresh(th)
         \/ Rounds
  PROVE  TypeOK'
<1> USE DEF TypeOK
<1>0. /\ scene \in Scenario /\ scene.ops \subseteq Kinds
      /\ scene.habits \subseteq Habits
      /\ log \in [Topics -> Seq(Op)] /\ clock \in Nat
      /\ ask \in Ask /\ resp \in [Responders -> Responder]
      /\ Me \in Responders
  BY ExchangeAssumption, CuratorAssumption
     DEF ExchangeTypeOK, Scenario, Habits
<1>1. Resting \in Thread /\ Idle \in Thread /\ Run \in Thread
      /\ thread["answer"] \in Thread /\ "run" \in Threads
      /\ "answer" \in Threads
  BY DEF Resting, Idle, Thread, Run, Threads
<1>2. \A th \in Threads, x \in Thread :
        Go(th, x) => thread' \in [Threads -> Thread]
  BY DEF Go
<1>3. \A tag \in {"stale", "behind"} : \A S :
        Lately(tag, S) \in [Topics -> SUBSET {"stale", "behind"}]
  BY DEF Lately
<1>4. UNCHANGED exchange => ExchangeTypeOK'
  BY DEF exchange, ExchangeTypeOK
<1>5. ASSUME NEW t \in Topics, NEW kind \in Kinds, Published(t, kind),
             UNCHANGED <<scene, ask, expired, resp>>
      PROVE  ExchangeTypeOK'
  BY <1>5, <1>0, Appends DEF ExchangeTypeOK
<1>6. ASSUME NEW x \in Responder, resp' = [resp EXCEPT ![Me] = x],
             UNCHANGED <<scene, clock, log, ask, expired>>
      PROVE  ExchangeTypeOK'
  BY <1>6, <1>0 DEF ExchangeTypeOK
<1>7. ASSUME NEW t \in Topics, Post(t)
      PROVE  TypeOK'
  BY <1>7, <1>0, <1>4 DEF Post, memory, history
<1>8. ASSUME NEW t \in Topics, Stored(t)
      PROVE  TypeOK'
  <2>1. PICK kind \in coming[t] : Published(t, kind)
    BY <1>8 DEF Stored
  <2>2. kind \in Kinds
    OBVIOUS
  <2>3. ExchangeTypeOK'
    BY <2>1, <2>2, <1>5, <1>8 DEF Stored
  <2> QED
    BY <2>3, <1>3, <1>8 DEF Stored, memory
<1>9. ASSUME NEW t \in Topics, Signal(t)
      PROVE  TypeOK'
  BY <1>9, <1>4 DEF Signal, history
<1>10. CASE Age
  BY <1>10, <1>0, <1>4 DEF Age, memory, history
<1>11. CASE Subscribe
  <2>1. [Resting EXCEPT !.pc = "subscribed"] \in Thread
    BY DEF Resting, Thread
  <2> QED
    BY <2>1, <1>1, <1>2, <1>4, <1>11 DEF Subscribe, history
<1>12. CASE Seed
  <2>1. [Resting EXCEPT !.pc = "sweep", !.left = Topics] \in Thread
    BY <1>1 DEF Thread
  <2> QED
    BY <2>1, <1>1, <1>2, <1>4, <1>12 DEF Seed, history
<1>13. CASE Asked
  <2> DEFINE y == [Idle EXCEPT !.pc = "sweep", !.left = dirty]
  <2>1. y \in Thread
    BY <1>1 DEF Thread
  <2>2. CASE /\ resp[Me].queue # <<>>
             /\ LET q == Head(resp[Me].queue)
                IN  Go("answer", IF q.n \in expired THEN thread["answer"]
                                 ELSE [Idle EXCEPT !.pc = "sweep",
                                         !.left = dirty, !.request = {q}])
             /\ resp' = [resp EXCEPT ![Me].queue = Tail(@)]
             /\ dirty' = IF Head(resp[Me].queue).n \in expired
                         THEN dirty ELSE {}
    <3>1. resp[Me].queue \in Seq(Request)
      BY <1>0 DEF Responder
    <3>2. /\ Head(resp[Me].queue) \in Request
          /\ Tail(resp[Me].queue) \in Seq(Request)
      BY <3>1, <2>2
    <3>3. [Idle EXCEPT !.pc = "sweep", !.left = dirty,
                       !.request = {Head(resp[Me].queue)}] \in Thread
      BY <3>2, <1>1 DEF Thread
    <3>4. thread' \in [Threads -> Thread]
      BY <2>2, <3>3, <1>1, <1>2
    <3>5. [resp[Me] EXCEPT !.queue = Tail(@)] \in Responder
      BY <3>2, <1>0 DEF Responder
    <3>6. ExchangeTypeOK'
      BY <2>2, <3>5, <1>6, <1>13 DEF Asked
    <3> QED
      BY <3>4, <3>6, <2>2, <1>13 DEF Asked, history
  <2>3. CASE Go("answer", y) /\ dirty' = {} /\ UNCHANGED resp
    <3>1. ExchangeTypeOK'
      BY <2>3, <1>4, <1>13 DEF Asked, exchange
    <3> QED
      BY <3>1, <2>1, <2>3, <1>1, <1>2, <1>13 DEF Asked, history
  <2> QED
    BY <2>2, <2>3, <1>13 DEF Asked
<1>14. CASE Search
  <2>1. ASSUME NEW q \in Request, NEW f \in SUBSET Ref
        PROVE  [resp[Me] EXCEPT !.draft = <<[Says(Me, q) EXCEPT
                  !.found = f]>>] \in Responder
    <3>1. [Says(Me, q) EXCEPT !.found = f] \in Reply
      BY <2>1, <1>0 DEF Says, Reply, Request, Sigs
    <3>2. <<[Says(Me, q) EXCEPT !.found = f]>> \in Seq(Reply)
      BY <3>1, Single
    <3> QED
      BY <3>2, <1>0 DEF Responder
  <2>2. \A S \in SUBSET Topics : {<<t, cache[t]>> : t \in S} \in SUBSET Ref
    BY DEF Ref
  <2>3. ASSUME resp' # resp
        PROVE  \E x \in Responder : resp' = [resp EXCEPT ![Me] = x]
    <3>1. PICK q \in thread["answer"].request :
            \E S \in SUBSET {t \in q.hits : cache[t] > 0} :
              resp' = IF S = {} THEN resp
                 ELSE [resp EXCEPT ![Me].draft = <<[Says(Me, q) EXCEPT
                         !.found = {<<t, cache[t]>> : t \in S}]>>]
      BY <2>3, <1>14 DEF Search
    <3>2. q \in Request
      BY <1>1 DEF Thread
    <3>3. PICK S \in SUBSET Topics :
            resp' = [resp EXCEPT ![Me].draft = <<[Says(Me, q) EXCEPT
                         !.found = {<<t, cache[t]>> : t \in S}]>>]
      BY <3>1, <3>2, <2>3 DEF Request
    <3> DEFINE f == {<<t, cache[t]>> : t \in S}
               x == [resp[Me] EXCEPT !.draft = <<[Says(Me, q) EXCEPT
                       !.found = f]>>]
    <3>4. f \in SUBSET Ref
      BY <2>2, <3>3
    <3>5. resp' = [resp EXCEPT ![Me] = x]
      BY <3>3
    <3>7. resp[Me] \in Responder
      BY <1>0
    <3> HIDE DEF f
    <3>6. x \in Responder
      BY <2>1, <3>2, <3>4
    <3> QED
      BY <3>5, <3>6
  <2>4. ExchangeTypeOK'
    BY <2>3, <1>4, <1>6, <1>14 DEF Search, exchange
  <2> QED
    BY <2>4, <1>1, <1>2, <1>14 DEF Search, history
<1>15. ASSUME NEW th \in Threads, Read(th)
       PROVE  TypeOK'
  <2>1. PICK t \in thread[th].left :
          Go(th, [thread[th] EXCEPT !.pc = "keep", !.left = @ \ {t},
                                    !.at = {t}, !.view = Len(log[t])])
    BY <1>15 DEF Read
  <2>2. t \in Topics /\ Len(log[t]) \in Nat
    BY <1>0 DEF Thread
  <2>3. ASSUME NEW x \in Thread, NEW n \in Nat, t \in Topics
        PROVE  [x EXCEPT !.pc = "keep", !.left = @ \ {t},
                         !.at = {t}, !.view = n] \in Thread
    BY <2>3 DEF Thread
  <2>4. thread' \in [Threads -> Thread]
    BY <2>1, <2>2, <2>3, <1>2
  <2> QED
    BY <2>4, <1>4, <1>15 DEF Read, history
<1>16. ASSUME NEW th \in Threads, ReadFails(th)
       PROVE  TypeOK'
  <2>1. PICK t \in thread[th].left :
          /\ dirty' = dirty \union {t}
          /\ excused' = Lately("behind", {t})
          /\ Go(th, [thread[th] EXCEPT !.left = @ \ {t}])
    BY <1>16 DEF ReadFails
  <2>2. t \in Topics
    BY DEF Thread
  <2>3. ASSUME NEW x \in Thread
        PROVE  [x EXCEPT !.left = @ \ {t}] \in Thread
    BY DEF Thread
  <2>4. thread' \in [Threads -> Thread]
    BY <2>1, <2>3, <1>2
  <2>5. dirty' \subseteq Topics /\ excused' \in [Topics -> SUBSET {"stale", "behind"}]
    BY <2>1, <2>2, <1>3
  <2> QED
    BY <2>4, <2>5, <1>4, <1>16 DEF ReadFails
<1>17. ASSUME NEW th \in Threads, Keep(th)
       PROVE  TypeOK'
  <2>1. PICK t \in thread[th].at :
          /\ cache' = [cache EXCEPT ![t] = thread[th].view]
          /\ excused' = IF thread[th].view < cache[t] THEN Lately("stale", {t})
                        ELSE IF thread[th].view = Len(log[t])
                        THEN [excused EXCEPT ![t] = {}] ELSE excused
          /\ Go(th, [thread[th] EXCEPT !.pc = "sweep", !.at = {}, !.view = 0])
    BY <1>17 DEF Keep
  <2>2. t \in Topics /\ thread[th].view \in Nat
    BY DEF Thread
  <2>3. ASSUME NEW x \in Thread
        PROVE  [x EXCEPT !.pc = "sweep", !.at = {}, !.view = 0] \in Thread
    BY DEF Thread
  <2>4. excused' \in [Topics -> SUBSET {"stale", "behind"}]
    BY <2>1, <1>3
  <2> QED
    BY <2>1, <2>2, <2>3, <2>4, <1>2, <1>4, <1>17 DEF Keep
<1>18. CASE Tick
  <2>1. [Resting EXCEPT !.pc = "sweep", !.left = dirty, !.habit = 1] \in Thread
    <3>1. 1 \in 0 .. 4
      OBVIOUS
    <3> QED
      BY <3>1, <1>1 DEF Thread
  <2> QED
    BY <2>1, <1>1, <1>2, <1>4, <1>18 DEF Tick, history
<1>19. CASE Refreshed
  <2>1. [Run EXCEPT !.pc = "pass", !.habit = 0] \in Thread
    <3>1. 0 \in 0 .. 4
      OBVIOUS
    <3> QED
      BY <3>1, <1>1 DEF Thread
  <2>2. thread' \in [Threads -> Thread]
    BY <2>1, <1>1, <1>19 DEF Refreshed, Run
  <2> QED
    BY <2>2, <1>4, <1>19 DEF Refreshed, history
<1>20. CASE NextHabit
  <2>1. \A habit \in Habits : Round(habit) \in Thread
    <3> SUFFICES ASSUME NEW habit \in Habits PROVE Round(habit) \in Thread
      OBVIOUS
    <3>1. habit \in 0 .. 4
      BY DEF Habits
    <3>2. {t \in Topics : Wants(habit, t, cache, aged)} \in SUBSET Topics
      OBVIOUS
    <3> QED
      BY <3>1, <3>2, <1>1 DEF Round, Thread
  <2>2. thread' \in [Threads -> Thread]
    BY <2>1, <1>0, <1>1, <1>2, <1>20 DEF NextHabit
  <2>3. blurred' \subseteq Topics
    BY <1>1, <1>20 DEF NextHabit, Thread
  <2> QED
    BY <2>2, <2>3, <1>4, <1>20 DEF NextHabit
<1>21. CASE Judge
  <2>1. PICK t \in Run.left :
          \/ Go("run", [Run EXCEPT !.left = @ \ {t}, !.pc = "act",
                                   !.at = {t}, !.view = Len(log[t])])
          \/ Go("run", [Run EXCEPT !.left = @ \ {t}])
    BY <1>21, <1>1 DEF Judge, Thread
  <2>2. t \in Topics /\ Len(log[t]) \in Nat
    BY <1>0, <1>1 DEF Thread
  <2>3. /\ [Run EXCEPT !.left = @ \ {t}, !.pc = "act",
                       !.at = {t}, !.view = Len(log[t])] \in Thread
        /\ [Run EXCEPT !.left = @ \ {t}] \in Thread
    BY <2>2, <1>1 DEF Thread
  <2> QED
    BY <2>1, <2>3, <1>1, <1>2, <1>4, <1>21 DEF Judge, history
<1>22. CASE Act
  <2>1. PICK t \in Run.at :
          LET kind == Note(Run.habit)
              i == Len(log[t]) + 1
          IN  \/ /\ Published(t, kind)
                 /\ signals' = signals \union {t}
                 /\ own' = own \union {<<t, i>>}
                 /\ \/ dirty' = Marks(t) /\ UNCHANGED excused
                    \/ /\ UNCHANGED dirty
                       /\ excused' = Lately("behind", {t})
              \/ UNCHANGED <<clock, log, signals, own, dirty, excused>>
    BY <1>22, Zenon DEF Act
  <2>2. t \in Topics /\ Len(log[t]) \in Nat
    BY <1>0, <1>1 DEF Thread
  <2>3. [Run EXCEPT !.pc = "pass", !.at = {}, !.view = 0] \in Thread
    BY <1>1 DEF Thread
  <2>4. thread' \in [Threads -> Thread]
    BY <2>3, <1>1, <1>2, <1>22 DEF Act
  <2>5. Note(Run.habit) \in Kinds
    <3>1. Run.habit \in {1, 2, 3, 4}
      BY <1>1, <1>22 DEF Act, ThreadsSound, Thread
    <3> QED
      BY <3>1 DEF Note, Kinds
  <2>6. ExchangeTypeOK'
    BY <2>1, <2>2, <2>5, <1>4, <1>5, <1>22 DEF Act, exchange
  <2>7. excused' \in [Topics -> SUBSET {"stale", "behind"}]
    BY <2>1, <1>3
  <2>8. signals' \subseteq Topics /\ dirty' \subseteq Topics
        /\ own' \subseteq (Topics \X Nat)
    BY <2>1, <2>2 DEF Marks
  <2> QED
    BY <2>4, <2>6, <2>7, <2>8, <1>22 DEF Act
<1>23. CASE Dies
  <2>1. Off \in Responder
    BY DEF Off, Responder
  <2>2. ExchangeTypeOK'
    BY <2>1, <1>6, <1>23 DEF Dies
  <2> QED
    BY <2>2, <1>1, <1>23 DEF Dies, Blank
<1> QED
  BY <1>7, <1>8, <1>9, <1>10, <1>11, <1>12, <1>13, <1>14, <1>15, <1>16, <1>17,
     <1>18, <1>19, <1>20, <1>21, <1>22, <1>23 DEF Rounds, Refresh

(***************************************************************************)
(* The curator's memory                                                    *)
(***************************************************************************)

(* An asker and the responders leave topics and memory alone.              *)
Aside == UNCHANGED <<log, signals, aged, memory, rounds, history>>

LEMMA AskersStandAside ==
  ASSUME \/ Asker /\ UNCHANGED <<coming, signals, aged, memory, rounds, history>>
         \/ \E r \in Responders :
              /\ \/ Serves(r) /\ Serve(r)
                 \/ Stops(r) /\ Stop(r)
                 \/ Hear(r)
                 \/ Send(r)
              /\ UNCHANGED <<coming, signals, aged, memory, rounds, history>>
  PROVE  Aside
<1>1. Asker => UNCHANGED log
  BY DEF Asker, Begin, Probe, CaptureExhibit, Deadline, GatherMatch,
         GatherAnswer, GatherExhibit, Finish
<1>2. \A r \in Responders :
        Serve(r) \/ Stop(r) \/ Hear(r) \/ Send(r) => UNCHANGED log
  BY DEF Serve, Stop, Hear, Send
<1> QED
  BY <1>1, <1>2 DEF Aside

(* One goroutine moves; the other is where it was.                         *)
LEMMA Moves ==
  ASSUME TypeOK, NEW th \in Threads, NEW x, Go(th, x)
  PROVE  /\ thread'[th] = x
         /\ \A o \in Threads : o # th => thread'[o] = thread[o]
BY DEF Go, TypeOK

LEMMA ThreadsStep ==
  ASSUME TypeOK, ThreadsSound, Next
  PROVE  ThreadsSound'
<1> USE DEF TypeOK
<1>0. /\ "run" \in Threads /\ "answer" \in Threads
      /\ \A th \in Threads : th = "run" \/ th = "answer"
      /\ log \in [Topics -> Seq(Op)]
      /\ \A th \in Threads : thread[th] \in Thread
  BY DEF Threads, ExchangeTypeOK
<1>1. ASSUME UNCHANGED <<log, thread>>
      PROVE  ThreadsSound'
  BY <1>1 DEF ThreadsSound, Run
<1>2. ASSUME NEW t \in Topics, NEW kind \in Kinds, Published(t, kind)
      PROVE  \A u \in Topics : Len(log[u]) <= Len(log'[u])
  <2>1. clock \in Nat
    BY DEF ExchangeTypeOK
  <2>2. /\ Len(log'[t]) = Len(log[t]) + 1
        /\ \A u \in Topics : u # t => log'[u] = log[u]
    BY <2>1, <1>0, <1>2, Appends
  <2>3. \A u \in Topics : Len(log[u]) \in Nat
    BY <1>0
  <2> QED
    BY <2>2, <2>3
<1>3. ASSUME UNCHANGED thread,
             \A u \in Topics : Len(log[u]) <= Len(log'[u]),
             log' \in [Topics -> Seq(Op)]
      PROVE  ThreadsSound'
  <2>1. \A u \in Topics : Len(log[u]) \in Nat /\ Len(log'[u]) \in Nat
    BY <1>0, <1>3
  <2>2. \A th \in Threads : thread[th].view \in Nat /\ thread[th].at \subseteq Topics
    BY <1>0 DEF Thread
  <2>3. ASSUME NEW th \in Threads, thread[th].pc = "keep",
               NEW t \in thread[th].at
        PROVE  thread[th].at = {t} /\ thread[th].view <= Len(log'[t])
    <3>1. thread[th].at = {t} /\ thread[th].view <= Len(log[t])
      BY <2>3 DEF ThreadsSound
    <3>2. t \in Topics /\ thread[th].view \in Nat
      BY <2>2
    <3> QED
      BY <3>1, <3>2, <2>1, <1>3
  <2> QED
    BY <2>3, <1>3 DEF ThreadsSound, Run
<1>4. ASSUME NEW t \in Topics, Post(t)
      PROVE  ThreadsSound'
  BY <1>4, <1>1 DEF Post, exchange, memory
<1>5. ASSUME NEW t \in Topics, Stored(t)
      PROVE  ThreadsSound'
  <2>1. PICK kind \in coming[t] : Published(t, kind)
    BY <1>5 DEF Stored
  <2>2. kind \in Kinds
    OBVIOUS
  <2>3. log' \in [Topics -> Seq(Op)]
    BY <2>1, <2>2, <1>0, Appends DEF ExchangeTypeOK
  <2> QED
    BY <2>1, <2>2, <2>3, <1>2, <1>3, <1>5 DEF Stored, memory
<1>6. ASSUME NEW t \in Topics, Signal(t)
      PROVE  ThreadsSound'
  BY <1>6, <1>1 DEF Signal, exchange
<1>7. CASE Age
  BY <1>7, <1>1 DEF Age, exchange, memory
<1>8. CASE Subscribe
  <2>1. /\ Go("run", [Resting EXCEPT !.pc = "subscribed"])
        /\ UNCHANGED log /\ Run.pc = "off"
    BY <1>8 DEF Subscribe, exchange
  <2>2. thread'["run"].pc = "subscribed"
        /\ thread'["answer"] = thread["answer"]
    BY <2>1, <1>0, Moves DEF Resting
  <2> QED
    BY <2>1, <2>2, <1>0 DEF ThreadsSound, Run
<1>9. CASE Seed
  <2>1. /\ Go("run", [Resting EXCEPT !.pc = "sweep", !.left = Topics])
        /\ UNCHANGED log /\ Run.pc = "subscribed"
    BY <1>9 DEF Seed, exchange
  <2>2. /\ thread'["run"].pc = "sweep" /\ thread'["run"].at = {}
        /\ thread'["answer"] = thread["answer"]
    <3>1. /\ thread'["run"] = [Resting EXCEPT !.pc = "sweep", !.left = Topics]
          /\ thread'["answer"] = thread["answer"]
      BY <2>1, <1>0, Moves
    <3> QED
      BY <3>1 DEF Resting
  <2> QED
    BY <2>1, <2>2, <1>0 DEF ThreadsSound, Run
<1>10. CASE Asked
  <2>1. /\ thread["answer"].pc = "idle" /\ UNCHANGED log
        /\ \E x : /\ Go("answer", x)
                  /\ x = thread["answer"] \/ (x.pc = "sweep" /\ x.at = {})
    <3>1. /\ \A q : LET x == [Idle EXCEPT !.pc = "sweep", !.left = dirty,
                                         !.request = {q}]
                   IN  x.pc = "sweep" /\ x.at = {}
          /\ LET x == [Idle EXCEPT !.pc = "sweep", !.left = dirty]
             IN  x.pc = "sweep" /\ x.at = {}
      BY DEF Idle, Resting
    <3>2. thread["answer"].pc = "idle" /\ UNCHANGED log
      BY <1>10 DEF Asked
    <3>3. \/ Go("answer", thread["answer"])
          \/ \E q : Go("answer", [Idle EXCEPT !.pc = "sweep", !.left = dirty,
                                              !.request = {q}])
          \/ Go("answer", [Idle EXCEPT !.pc = "sweep", !.left = dirty])
      BY <1>10 DEF Asked
    <3> QED
      BY <3>1, <3>2, <3>3
  <2>2. /\ thread'["run"] = thread["run"]
        /\ \/ thread'["answer"] = thread["answer"]
           \/ thread'["answer"].pc = "sweep" /\ thread'["answer"].at = {}
    BY <2>1, <1>0, Moves
  <2> QED
    BY <2>1, <2>2, <1>0 DEF ThreadsSound, Run
<1>11. CASE Search
  <2>1. /\ Go("answer", Idle) /\ UNCHANGED log /\ thread["answer"].pc = "sweep"
    BY <1>11 DEF Search, Swept
  <2>2. /\ thread'["run"] = thread["run"] /\ thread'["answer"].pc = "idle"
    BY <2>1, <1>0, Moves DEF Idle, Resting
  <2> QED
    BY <2>1, <2>2, <1>0 DEF ThreadsSound, Run
<1>12. ASSUME NEW th \in Threads, Read(th)
       PROVE  ThreadsSound'
  <2>1. PICK t \in thread[th].left :
          Go(th, [thread[th] EXCEPT !.pc = "keep", !.left = @ \ {t},
                                    !.at = {t}, !.view = Len(log[t])])
    BY <1>12 DEF Read
  <2>2. /\ thread[th].pc = "sweep" /\ UNCHANGED log
        /\ t \in Topics /\ Len(log[t]) \in Nat
    BY <1>12, <1>0 DEF Read, exchange, Thread
  <2>3. /\ thread'[th].pc = "keep" /\ thread'[th].at = {t}
        /\ thread'[th].view = Len(log[t])
        /\ thread'[th].habit = thread[th].habit
        /\ \A o \in Threads : o # th => thread'[o] = thread[o]
    <3>1. /\ thread'[th] = [thread[th] EXCEPT !.pc = "keep", !.left = @ \ {t},
                                    !.at = {t}, !.view = Len(log[t])]
          /\ \A o \in Threads : o # th => thread'[o] = thread[o]
      BY <2>1, Moves
    <3> QED
      BY <3>1, <1>0 DEF Thread
  <2>4. ASSUME NEW o \in Threads
        PROVE  /\ thread'[o].pc = "sweep" => thread'[o].at = {}
               /\ thread'[o].pc = "keep" =>
                    \A u \in thread'[o].at :
                      /\ thread'[o].at = {u}
                      /\ thread'[o].view <= Len(log'[u])
    <3>1. CASE o = th
      BY <3>1, <2>2, <2>3
    <3>2. CASE o # th
      BY <3>2, <2>2, <2>3 DEF ThreadsSound
    <3> QED
      BY <3>1, <3>2
  <2>5. /\ thread'["run"].pc \in {"off", "subscribed", "sweep", "keep"} =>
             thread["run"].pc = thread'["run"].pc \/ thread["run"].pc = "sweep"
        /\ thread'["run"].habit = thread["run"].habit
        /\ thread'["answer"].pc = thread["answer"].pc
           \/ thread["answer"].pc = "sweep"
        /\ thread'["run"].pc \in {"act", "pass"} =>
             thread'["run"] = thread["run"]
    BY <2>2, <2>3, <1>0
  <2> QED
    BY <2>2, <2>4, <2>5, <2>3, <1>0 DEF ThreadsSound, Run
<1>13. ASSUME NEW th \in Threads, ReadFails(th)
       PROVE  ThreadsSound'
  <2>1. PICK t \in thread[th].left :
          Go(th, [thread[th] EXCEPT !.left = @ \ {t}])
    BY <1>13 DEF ReadFails
  <2>2. thread[th].pc = "sweep" /\ UNCHANGED log
    BY <1>13 DEF ReadFails, exchange
  <2>3. /\ thread'[th].pc = "sweep" /\ thread'[th].at = thread[th].at
        /\ thread'[th].habit = thread[th].habit
        /\ \A o \in Threads : o # th => thread'[o] = thread[o]
    <3>1. /\ thread'[th] = [thread[th] EXCEPT !.left = @ \ {t}]
          /\ \A o \in Threads : o # th => thread'[o] = thread[o]
      BY <2>1, Moves
    <3> QED
      BY <3>1, <2>2, <1>0 DEF Thread
  <2> QED
    BY <2>2, <2>3, <1>0 DEF ThreadsSound, Run
<1>14. ASSUME NEW th \in Threads, Keep(th)
       PROVE  ThreadsSound'
  <2>1. /\ Go(th, [thread[th] EXCEPT !.pc = "sweep", !.at = {}, !.view = 0])
        /\ thread[th].pc = "keep" /\ UNCHANGED log
    BY <1>14 DEF Keep, exchange
  <2>2. /\ thread'[th].pc = "sweep" /\ thread'[th].at = {}
        /\ thread'[th].habit = thread[th].habit
        /\ \A o \in Threads : o # th => thread'[o] = thread[o]
    <3>1. /\ thread'[th] = [thread[th] EXCEPT !.pc = "sweep", !.at = {},
                                              !.view = 0]
          /\ \A o \in Threads : o # th => thread'[o] = thread[o]
      BY <2>1, Moves
    <3> QED
      BY <3>1, <1>0 DEF Thread
  <2> QED
    BY <2>1, <2>2, <1>0 DEF ThreadsSound, Run
<1>15. CASE Tick
  <2>1. /\ Go("run", [Resting EXCEPT !.pc = "sweep", !.left = dirty,
                                     !.habit = 1])
        /\ UNCHANGED log
    BY <1>15 DEF Tick, exchange
  <2>2. /\ thread'["run"].pc = "sweep" /\ thread'["run"].at = {}
        /\ thread'["run"].habit = 1
        /\ thread'["answer"] = thread["answer"]
    <3>1. /\ thread'["run"] = [Resting EXCEPT !.pc = "sweep", !.left = dirty,
                                              !.habit = 1]
          /\ thread'["answer"] = thread["answer"]
      BY <2>1, <1>0, Moves
    <3> QED
      BY <3>1 DEF Resting
  <2> QED
    BY <2>1, <2>2, <1>0 DEF ThreadsSound, Run
<1>16. CASE Refreshed
  <2>1. Run.pc = "sweep" /\ Run.left = {} /\ UNCHANGED log
    BY <1>16 DEF Refreshed, Swept, Run, exchange
  <2>2. CASE Run.habit = 0
    <3>1. thread'["run"].pc = "idle" /\ thread'["answer"].pc = "idle"
      BY <2>2, <1>0, <1>16 DEF Refreshed, Idle, Resting
    <3> QED
      BY <3>1, <1>0 DEF ThreadsSound, Run
  <2>3. CASE Run.habit # 0
    <3>1. /\ thread'["run"].pc = "pass" /\ thread'["run"].left = {}
          /\ thread'["answer"] = thread["answer"]
      BY <2>1, <2>3, <1>0, <1>16 DEF Refreshed, Run, Thread
    <3> QED
      BY <2>1, <3>1, <1>0 DEF ThreadsSound, Run
  <2> QED
    BY <2>2, <2>3
<1>17. CASE NextHabit
  <2>1. /\ Run.pc = "pass" /\ UNCHANGED log
        /\ \E x : /\ Go("run", x)
                  /\ x.pc = "idle" \/ (x.pc = "pass" /\ x.habit # 0)
    <3>1. scene.habits \subseteq 1 .. 4
      BY ExchangeAssumption DEF ExchangeTypeOK, Scenario
    <3>2. ASSUME NEW habit \in scene.habits
          PROVE  Round(habit).pc = "pass" /\ Round(habit).habit # 0
      BY <3>1 DEF Round, Resting
    <3>3. Idle.pc = "idle"
      BY DEF Idle, Resting
    <3> QED
      BY <3>2, <3>3, <1>17 DEF NextHabit, exchange
  <2>2. /\ thread'["answer"] = thread["answer"]
        /\ \/ thread'["run"].pc = "idle"
           \/ thread'["run"].pc = "pass" /\ thread'["run"].habit # 0
    BY <2>1, <1>0, Moves
  <2> QED
    BY <2>1, <2>2, <1>0 DEF ThreadsSound, Run
<1>18. CASE Judge
  <2>1. PICK t \in Run.left :
          \/ Go("run", [Run EXCEPT !.left = @ \ {t}, !.pc = "act",
                                   !.at = {t}, !.view = Len(log[t])])
          \/ Go("run", [Run EXCEPT !.left = @ \ {t}])
    BY <1>18, <1>0 DEF Judge, Thread, Run
  <2>2. Run.pc = "pass" /\ UNCHANGED log
    BY <1>18 DEF Judge, exchange
  <2>3. /\ thread'["run"].pc \in {"pass", "act"}
        /\ thread'["run"].habit = Run.habit
        /\ thread'["answer"] = thread["answer"]
    <3>1. /\ \/ thread'["run"] = [Run EXCEPT !.left = @ \ {t}, !.pc = "act",
                                            !.at = {t}, !.view = Len(log[t])]
             \/ thread'["run"] = [Run EXCEPT !.left = @ \ {t}]
          /\ thread'["answer"] = thread["answer"]
      BY <2>1, <1>0, Moves
    <3> QED
      BY <3>1, <2>2, <1>0 DEF Thread, Run
  <2> QED
    BY <2>2, <2>3, <1>0 DEF ThreadsSound, Run
<1>19. CASE Act
  <2>1. /\ Go("run", [Run EXCEPT !.pc = "pass", !.at = {}, !.view = 0])
        /\ Run.pc = "act"
    BY <1>19 DEF Act
  <2>2. /\ thread'["run"].pc = "pass" /\ thread'["run"].habit = Run.habit
        /\ thread'["answer"] = thread["answer"]
    <3>1. /\ thread'["run"] = [Run EXCEPT !.pc = "pass", !.at = {}, !.view = 0]
          /\ thread'["answer"] = thread["answer"]
      BY <2>1, <1>0, Moves
    <3> QED
      BY <3>1, <1>0 DEF Thread, Run
  <2>3. \A u \in Topics : Len(log[u]) <= Len(log'[u])
    <3>1. CASE UNCHANGED log
      BY <3>1, <1>0
    <3>2. CASE log' # log
      <4>1. PICK t \in Run.at : Published(t, Note(Run.habit))
        BY <3>2, <1>19 DEF Act
      <4>2. t \in Topics
        BY <1>0 DEF Run, Thread
      <4>3. Note(Run.habit) \in Kinds
        <5>1. Run.habit \in {1, 2, 3, 4}
          BY <2>1, <1>0 DEF ThreadsSound, Thread, Run
        <5> QED
          BY <5>1 DEF Note, Kinds
      <4> QED
        BY <4>1, <4>2, <4>3, <1>2
    <3> QED
      BY <3>1, <3>2
  <2>4. log' \in [Topics -> Seq(Op)]
    <3>1. TypeOK'
      BY <1>19, CuratorTypes DEF Rounds
    <3> QED
      BY <3>1 DEF ExchangeTypeOK
  <2>5. \A u \in Topics : Len(log[u]) \in Nat /\ Len(log'[u]) \in Nat
    BY <1>0, <2>4
  <2>6. \A th \in Threads : thread[th].view \in Nat /\ thread[th].at \subseteq Topics
    BY <1>0 DEF Thread
  <2>7. ASSUME thread["answer"].pc = "keep", NEW t \in thread["answer"].at
        PROVE  /\ thread["answer"].at = {t}
               /\ thread["answer"].view <= Len(log'[t])
    <3>1. /\ thread["answer"].at = {t}
          /\ thread["answer"].view <= Len(log[t])
      BY <2>7, <1>0 DEF ThreadsSound
    <3>2. t \in Topics /\ thread["answer"].view \in Nat
      BY <2>6, <1>0
    <3> QED
      BY <3>1, <3>2, <2>3, <2>5
  <2> QED
    BY <2>1, <2>2, <2>7, <1>0 DEF ThreadsSound, Run
<1>20. CASE Dies
  BY <1>20, <1>0 DEF Dies, Resting, ThreadsSound, Run
<1>21. ASSUME Aside
       PROVE  ThreadsSound'
  BY <1>21, <1>1 DEF Aside, memory
<1> QED
  BY <1>4, <1>5, <1>6, <1>7, <1>8, <1>9, <1>10, <1>11, <1>12, <1>13, <1>14,
     <1>15, <1>16, <1>17, <1>18, <1>19, <1>20, <1>21, AskersStandAside
     DEF Next, Rounds, Refresh

(* The parts of FreshOrDirty, for one topic.                               *)
Fetching(th, t) ==
  /\ thread[th].pc \in {"sweep", "keep"}
  /\ \/ t \in thread[th].left
     \/ t \in thread[th].at /\ thread[th].view = Len(log[t])
Covered(t) ==
  \/ cache[t] = Len(log[t])
  \/ t \in dirty \union signals
  \/ \E th \in Threads : Fetching(th, t)
  \/ "stale" \in excused[t]

LEMMA FreshIsCovered ==
  FreshOrDirty <=> (Ready => \A t \in Topics : Covered(t))
BY DEF FreshOrDirty, Covered, Fetching

LEMMA FreshStep ==
  ASSUME TypeOK, ThreadsSound, Next, Ready => \A t \in Topics : Covered(t),
         Ready', NEW t \in Topics
  PROVE  Covered(t)'
<1> USE DEF TypeOK
<1>0. /\ "run" \in Threads /\ "answer" \in Threads
      /\ \A th \in Threads : th = "run" \/ th = "answer"
      /\ log \in [Topics -> Seq(Op)]
      /\ \A th \in Threads : thread[th] \in Thread
      /\ excused \in [Topics -> SUBSET {"stale", "behind"}]
  BY DEF Threads, ExchangeTypeOK
<1>1. ASSUME UNCHANGED <<thread, cache, log>>, dirty \subseteq dirty' \union signals',
             signals \subseteq dirty' \union signals',
             "stale" \in excused[t] => "stale" \in excused'[t]
      PROVE  Covered(t)'
  BY <1>1 DEF Covered, Fetching, Ready, Run
<1>2. ASSUME NEW s \in Topics, Post(s)
      PROVE  Covered(t)'
  BY <1>2, <1>1 DEF Post, exchange, memory, history
<1>3. ASSUME NEW s \in Topics, Stored(s)
      PROVE  Covered(t)'
  <2>1. PICK kind \in coming[s] : Published(s, kind)
    BY <1>3 DEF Stored
  <2>2. kind \in Kinds
    OBVIOUS
  <2>3. \A u \in Topics : u # s => log'[u] = log[u]
    BY <2>1, <2>2, <1>0, Appends DEF ExchangeTypeOK
  <2>4. /\ UNCHANGED <<signals, cache, dirty, thread>>
        /\ excused' = IF s \in signals THEN excused ELSE Lately("stale", {s})
    BY <1>3 DEF Stored, memory
  <2>5. CASE t = s
    BY <2>4, <2>5, <1>0 DEF Covered, Lately
  <2>6. CASE t # s
    <3>1. log'[t] = log[t]
      BY <2>3, <2>6
    <3>2. excused'[t] = excused[t]
      BY <2>4, <2>6, <1>0 DEF Lately
    <3>3. Covered(t)
      BY <2>4 DEF Ready, Run
    <3> QED
      BY <3>1, <3>2, <3>3, <2>4 DEF Covered, Fetching
  <2> QED
    BY <2>5, <2>6
<1>4. ASSUME NEW s \in Topics, Signal(s)
      PROVE  Covered(t)'
  BY <1>4, <1>1 DEF Signal, exchange, history
<1>5. CASE Age
  BY <1>5, <1>1 DEF Age, exchange, memory, history
<1>6. CASE Subscribe
  <2>1. Go("run", [Resting EXCEPT !.pc = "subscribed"])
    BY <1>6 DEF Subscribe
  <2>2. thread'["run"] = [Resting EXCEPT !.pc = "subscribed"]
    BY <2>1, <1>0, Moves
  <2> QED
    BY <2>2 DEF Ready, Run, Resting
<1>7. CASE Seed
  <2>1. Go("run", [Resting EXCEPT !.pc = "sweep", !.left = Topics])
    BY <1>7 DEF Seed
  <2>2. thread'["run"] = [Resting EXCEPT !.pc = "sweep", !.left = Topics]
    BY <2>1, <1>0, Moves
  <2>3. Fetching("run", t)'
    BY <2>2 DEF Fetching, Resting
  <2> QED
    BY <2>3, <1>0 DEF Covered
<1>8. CASE Asked
  <2>1. /\ thread["answer"].pc = "idle"
        /\ UNCHANGED <<log, signals, cache, history>>
    BY <1>8 DEF Asked
  <2>2. \/ Go("answer", thread["answer"]) /\ dirty' = dirty
        \/ \E x : /\ Go("answer", x) /\ dirty' = {}
                  /\ x.pc = "sweep" /\ x.left = dirty
    <3>1. /\ \A q : LET x == [Idle EXCEPT !.pc = "sweep", !.left = dirty,
                                         !.request = {q}]
                   IN  x.pc = "sweep" /\ x.left = dirty
          /\ LET x == [Idle EXCEPT !.pc = "sweep", !.left = dirty]
             IN  x.pc = "sweep" /\ x.left = dirty
      BY DEF Idle, Resting
    <3>2. \/ Go("answer", thread["answer"]) /\ dirty' = dirty
          \/ \E q : /\ Go("answer", [Idle EXCEPT !.pc = "sweep",
                                       !.left = dirty, !.request = {q}])
                    /\ dirty' = {}
          \/ /\ Go("answer", [Idle EXCEPT !.pc = "sweep", !.left = dirty])
             /\ dirty' = {}
      BY <1>8 DEF Asked
    <3> QED
      BY <3>1, <3>2
  <2>3. /\ thread'["run"] = thread["run"]
        /\ \/ thread'["answer"] = thread["answer"] /\ dirty' = dirty
           \/ /\ thread'["answer"].pc = "sweep" /\ dirty' = {}
              /\ thread'["answer"].left = dirty
    BY <2>2, <1>0, Moves
  <2>4. Covered(t)
    BY <2>3 DEF Ready, Run
  <2> QED
    BY <2>1, <2>3, <2>4, <1>0 DEF Covered, Fetching, history
<1>9. CASE Search
  <2>1. /\ Go("answer", Idle) /\ thread["answer"].left = {}
        /\ thread["answer"].pc = "sweep"
        /\ UNCHANGED <<log, signals, cache, dirty, history>>
    BY <1>9 DEF Search, Swept
  <2>2. thread'["run"] = thread["run"]
    BY <2>1, <1>0, Moves
  <2>3. ~Fetching("answer", t)
    BY <2>1, <1>0 DEF ThreadsSound, Fetching
  <2>4. Covered(t)
    BY <2>2 DEF Ready, Run
  <2>5. Fetching("run", t) => Fetching("run", t)'
    BY <2>1, <2>2 DEF Fetching
  <2> QED
    BY <2>1, <2>3, <2>4, <2>5, <1>0 DEF Covered, history
<1>10. ASSUME NEW th \in Threads, Read(th)
       PROVE  Covered(t)'
  <2>1. PICK s \in thread[th].left :
          Go(th, [thread[th] EXCEPT !.pc = "keep", !.left = @ \ {s},
                                    !.at = {s}, !.view = Len(log[s])])
    BY <1>10 DEF Read
  <2>2. /\ thread[th].pc = "sweep"
        /\ UNCHANGED <<log, signals, cache, dirty, history>>
    BY <1>10 DEF Read, exchange
  <2>3. /\ thread'[th] = [thread[th] EXCEPT !.pc = "keep", !.left = @ \ {s},
                                    !.at = {s}, !.view = Len(log[s])]
        /\ \A o \in Threads : o # th => thread'[o] = thread[o]
    BY <2>1, Moves
  <2>4. /\ thread'[th].pc = "keep" /\ thread'[th].left = thread[th].left \ {s}
        /\ thread'[th].at = {s} /\ thread'[th].view = Len(log[s])
    BY <2>3, <1>0 DEF Thread
  <2>5. Covered(t)
    BY <2>2, <2>3, <1>0 DEF Ready, Run
  <2>6. Fetching(th, t) => Fetching(th, t)'
    BY <2>2, <2>4 DEF Fetching, ThreadsSound
  <2>7. \A o \in Threads : Fetching(o, t) => Fetching(o, t)'
    BY <2>2, <2>3, <2>6 DEF Fetching
  <2> QED
    BY <2>2, <2>5, <2>7 DEF Covered, history
<1>11. ASSUME NEW th \in Threads, ReadFails(th)
       PROVE  Covered(t)'
  <2>1. PICK s \in thread[th].left :
          /\ dirty' = dirty \union {s}
          /\ excused' = Lately("behind", {s})
          /\ Go(th, [thread[th] EXCEPT !.left = @ \ {s}])
    BY <1>11 DEF ReadFails
  <2>2. /\ thread[th].pc = "sweep"
        /\ UNCHANGED <<log, signals, cache>>
    BY <1>11 DEF ReadFails, exchange
  <2>3. /\ thread'[th] = [thread[th] EXCEPT !.left = @ \ {s}]
        /\ \A o \in Threads : o # th => thread'[o] = thread[o]
    BY <2>1, Moves
  <2>4. /\ thread'[th].pc = "sweep" /\ thread'[th].left = thread[th].left \ {s}
        /\ thread'[th].at = thread[th].at /\ thread'[th].view = thread[th].view
    BY <2>2, <2>3, <1>0 DEF Thread
  <2>5. Covered(t)
    BY <2>2, <2>3, <2>4, <1>0 DEF Ready, Run
  <2>6. t # s => (Fetching(th, t) => Fetching(th, t)')
    BY <2>2, <2>4 DEF Fetching
  <2>7. t # s => \A o \in Threads : Fetching(o, t) => Fetching(o, t)'
    BY <2>2, <2>3, <2>6 DEF Fetching
  <2>8. excused[t] \subseteq excused'[t]
    BY <2>1 DEF Lately
  <2> QED
    BY <2>1, <2>2, <2>5, <2>7, <2>8 DEF Covered
<1>12. ASSUME NEW th \in Threads, Keep(th)
       PROVE  Covered(t)'
  <2>1. PICK s \in thread[th].at :
          /\ cache' = [cache EXCEPT ![s] = thread[th].view]
          /\ excused' = IF thread[th].view < cache[s] THEN Lately("stale", {s})
                        ELSE IF thread[th].view = Len(log[s])
                        THEN [excused EXCEPT ![s] = {}] ELSE excused
          /\ Go(th, [thread[th] EXCEPT !.pc = "sweep", !.at = {}, !.view = 0])
    BY <1>12 DEF Keep
  <2>2. /\ thread[th].pc = "keep"
        /\ UNCHANGED <<log, signals, dirty>>
    BY <1>12 DEF Keep, exchange
  <2>3. /\ thread'[th] = [thread[th] EXCEPT !.pc = "sweep", !.at = {},
                                            !.view = 0]
        /\ \A o \in Threads : o # th => thread'[o] = thread[o]
    BY <2>1, Moves
  <2>4. /\ thread'[th].pc = "sweep" /\ thread'[th].left = thread[th].left
    BY <2>2, <2>3, <1>0 DEF Thread
  <2>5. Covered(t)
    BY <2>2, <2>3, <2>4, <1>0 DEF Ready, Run
  <2>6. /\ thread[th].at = {s} /\ thread[th].view <= Len(log[s])
        /\ s \in Topics /\ thread[th].view \in Nat
    BY <2>2, <1>0 DEF ThreadsSound, Thread
  <2>7. t # s => (Fetching(th, t) => Fetching(th, t)')
    BY <2>2, <2>4, <2>6 DEF Fetching
  <2>8. \A o \in Threads : o # th => (Fetching(o, t) => Fetching(o, t)')
    BY <2>2, <2>3 DEF Fetching
  <2>9. CASE t # s
    <3>1. cache'[t] = cache[t] /\ excused'[t] = excused[t]
      BY <2>1, <2>9, <2>6 DEF Lately
    <3> QED
      BY <3>1, <2>2, <2>5, <2>7, <2>8, <2>9 DEF Covered
  <2>10. CASE t = s /\ thread[th].view = Len(log[s])
    BY <2>1, <2>2, <2>6, <2>10 DEF Covered
  <2>11. CASE t = s /\ thread[th].view # Len(log[s])
    <3>1. cache[t] \in Nat /\ Len(log[t]) \in Nat
      BY <1>0
    <3>2. cache[t] = Len(log[t]) => "stale" \in excused'[t]
      BY <3>1, <2>1, <2>6, <2>11 DEF Lately
    <3>3. "stale" \in excused[t] => "stale" \in excused'[t]
      BY <2>1, <2>11 DEF Lately
    <3>4. Fetching(th, t) => Fetching(th, t)'
      BY <2>2, <2>4, <2>11 DEF Fetching
    <3> QED
      BY <3>2, <3>3, <3>4, <2>2, <2>5, <2>8 DEF Covered
  <2> QED
    BY <2>9, <2>10, <2>11
<1>13. CASE Tick
  <2>1. /\ Go("run", [Resting EXCEPT !.pc = "sweep", !.left = dirty,
                                     !.habit = 1])
        /\ Run.pc = "idle"
        /\ UNCHANGED <<log, signals, cache, history>>
    BY <1>13 DEF Tick, exchange
  <2>2. /\ thread'["run"] = [Resting EXCEPT !.pc = "sweep", !.left = dirty,
                                            !.habit = 1]
        /\ thread'["answer"] = thread["answer"]
    BY <2>1, <1>0, Moves
  <2>3. thread'["run"].pc = "sweep" /\ thread'["run"].left = dirty
    BY <2>2 DEF Resting
  <2>4. Covered(t)
    BY <2>1 DEF Ready, Run
  <2>5. ~Fetching("run", t)
    BY <2>1 DEF Fetching, Run
  <2>6. Fetching("answer", t) => Fetching("answer", t)'
    BY <2>1, <2>2 DEF Fetching
  <2>7. t \in dirty => Fetching("run", t)'
    BY <2>3 DEF Fetching
  <2> QED
    BY <2>1, <2>4, <2>5, <2>6, <2>7, <1>0 DEF Covered, history
<1>14. CASE Refreshed
  <2>1. /\ Run.pc = "sweep" /\ Run.left = {} /\ Run.at = {}
        /\ UNCHANGED <<log, signals, cache, dirty, history>>
    BY <1>14, <1>0 DEF Refreshed, Swept, Run, exchange, ThreadsSound
  <2>2. ~Fetching("run", t)
    BY <2>1 DEF Fetching, Run
  <2>3. Fetching("answer", t) => Fetching("answer", t)'
    <3>1. CASE Run.habit = 0
      <4>1. thread["answer"].pc = "off"
        BY <3>1, <2>1 DEF ThreadsSound
      <4> QED
        BY <4>1 DEF Fetching
    <3>2. CASE Run.habit # 0
      <4>1. thread'["answer"] = thread["answer"]
        BY <3>2, <1>0, <1>14 DEF Refreshed
      <4> QED
        BY <4>1, <2>1 DEF Fetching
    <3> QED
      BY <3>1, <3>2
  <2>4. Covered(t)
    BY <2>1 DEF Ready
  <2> QED
    BY <2>1, <2>2, <2>3, <2>4, <1>0 DEF Covered, history
<1>15. ASSUME Run.pc \in {"pass", "act"}, thread'["answer"] = thread["answer"],
              UNCHANGED <<log, cache>>, dirty \subseteq dirty',
              signals \subseteq signals', excused[t] \subseteq excused'[t]
       PROVE  Covered(t)'
  <2>1. ~Fetching("run", t)
    BY <1>15 DEF Fetching, Run
  <2>2. Fetching("answer", t) => Fetching("answer", t)'
    BY <1>15 DEF Fetching
  <2>3. Covered(t)
    BY <1>15 DEF Ready
  <2> QED
    BY <2>1, <2>2, <2>3, <1>0, <1>15 DEF Covered
<1>16. CASE NextHabit
  <2>1. \E x : Go("run", x)
    BY <1>16 DEF NextHabit
  <2>2. thread'["answer"] = thread["answer"]
    BY <2>1, <1>0, Moves
  <2> QED
    BY <2>2, <1>15, <1>16 DEF NextHabit, exchange
<1>17. CASE Judge
  <2>1. \E x : Go("run", x)
    BY <1>17, Zenon DEF Judge
  <2>2. thread'["answer"] = thread["answer"]
    BY <2>1, <1>0, Moves
  <2>3. Run.pc = "pass" /\ UNCHANGED <<log, cache, dirty, signals, excused>>
    BY <1>17 DEF Judge, exchange, history
  <2> QED
    BY <2>2, <2>3, <1>15
<1>18. CASE Act
  <2>1. PICK s \in Run.at :
          LET kind == Note(Run.habit)
              i == Len(log[s]) + 1
          IN  \/ /\ Published(s, kind)
                 /\ signals' = signals \union {s}
                 /\ \/ dirty' = Marks(s) /\ UNCHANGED excused
                    \/ /\ UNCHANGED dirty
                       /\ excused' = Lately("behind", {s})
              \/ UNCHANGED <<clock, log, signals, own, dirty, excused>>
    BY <1>18, Zenon DEF Act
  <2>2. /\ Go("run", [Run EXCEPT !.pc = "pass", !.at = {}, !.view = 0])
        /\ Run.pc = "act" /\ UNCHANGED cache
    BY <1>18 DEF Act
  <2>3. thread'["answer"] = thread["answer"]
    BY <2>2, <1>0, Moves
  <2>4. dirty \subseteq dirty' /\ signals \subseteq signals'
        /\ excused[t] \subseteq excused'[t]
    BY <2>1 DEF Marks, Lately
  <2>5. CASE UNCHANGED log
    BY <2>2, <2>3, <2>4, <2>5, <1>15
  <2>6. CASE log' # log
    <3>1. Published(s, Note(Run.habit)) /\ s \in signals'
      BY <2>1, <2>6
    <3>2. CASE t = s
      BY <3>1, <3>2 DEF Covered
    <3>3. CASE t # s
      <4>1. log'[t] = log[t]
        BY <3>1, <3>3, <1>0 DEF Published
      <4>2. ~Fetching("run", t)
        BY <2>2 DEF Fetching, Run
      <4>3. Fetching("answer", t) => Fetching("answer", t)'
        BY <2>3, <4>1 DEF Fetching
      <4>4. Covered(t)
        BY <2>2 DEF Ready
      <4> QED
        BY <4>1, <4>2, <4>3, <4>4, <2>2, <2>4, <1>0 DEF Covered
    <3> QED
      BY <3>2, <3>3
  <2> QED
    BY <2>5, <2>6
<1>19. CASE Dies
  BY <1>19, <1>0 DEF Dies, Resting, Ready, Run
<1>20. ASSUME Aside
       PROVE  Covered(t)'
  BY <1>20, <1>1 DEF Aside, memory, history
<1> QED
  BY <1>2, <1>3, <1>4, <1>5, <1>6, <1>7, <1>8, <1>9, <1>10, <1>11, <1>12,
     <1>13, <1>14, <1>16, <1>17, <1>18, <1>19, <1>20, AskersStandAside
     DEF Next, Rounds, Refresh

(***************************************************************************)
(* What an asker gathers                                                   *)
(***************************************************************************)

(* What has arrived was sent in reply to the present ask; each grade is    *)
(* the one that what was read for grading still gives, and what a citation *)
(* needs has been read.                                                    *)
GradesStand ==
  \A i \in 1 .. Len(ask.answers) :
    LET refs == ask.answers[i].reply.op
    IN  /\ ask.answers[i].grade = Grade(ask.memo, refs)
        /\ \A c \in refs : ask.memo[c[1]] # {0}
SoundAsk ==
  /\ \A i \in 1 .. Len(ask.inbox) : ask.inbox[i].to = ask.n
  /\ ask.pc \in {"idle", "probing"} => ask.inbox = <<>>
  /\ OneVoiceEach
  /\ GradesStand

(* A persona heard again for a topic is not credited again.                *)
LEMMA MergeKeepsOneVoice ==
  ASSUME NEW results \in [Topics -> [entry : Nat, answers : Seq(Credit)]],
         NEW r \in Reply, NEW t \in Topics,
         \A i \in 1 .. Len(results[t].answers) :
           results[t].answers[i].to = r.to,
         \A i, j \in 1 .. Len(results[t].answers) :
           results[t].answers[i].persona = results[t].answers[j].persona
             => i = j
  PROVE  LET answers == MergeReply(results, r)[t].answers
         IN  /\ \A i \in 1 .. Len(answers) : answers[i].to = r.to
             /\ \A i, j \in 1 .. Len(answers) :
                  answers[i].persona = answers[j].persona => i = j
<1> DEFINE old == results[t].answers
           c == [persona |-> Persona[r.by], sig |-> r.sig, to |-> r.to]
           new == MergeReply(results, r)[t].answers
<1>1. old \in Seq(Credit) /\ c \in Credit
  BY DEF Credit, Reply
<1>2. \/ new = old
      \/ ~Credited(old, c.persona) /\ new = Append(old, c)
  BY DEF MergeReply
<1>3. CASE new = old
  BY <1>3
<1>4. CASE ~Credited(old, c.persona) /\ new = Append(old, c)
  <2>1. \A i \in 1 .. Len(old) : old[i].persona # c.persona
    BY <1>4 DEF Credited
  <2>2. c.to = r.to
    OBVIOUS
  <2> HIDE DEF c
  <2>3. /\ Len(new) = Len(old) + 1 /\ new[Len(old) + 1] = c
        /\ \A i \in 1 .. Len(old) : new[i] = old[i]
    BY <1>1, <1>4
  <2>4. \A i \in 1 .. Len(new) : i \in 1 .. Len(old) \/ i = Len(old) + 1
    BY <1>1, <2>3
  <2> HIDE DEF new
  <2>5. \A i \in 1 .. Len(new) : new[i].to = r.to
    BY <2>2, <2>3, <2>4
  <2>6. \A i, j \in 1 .. Len(new) : new[i].persona = new[j].persona => i = j
    BY <2>1, <2>3, <2>4
  <2> QED
    BY <2>5, <2>6 DEF new
<1> QED
  BY <1>2, <1>3, <1>4

(* Reading more for grading changes no grade that was given.               *)
LEMMA GradeStays ==
  ASSUME NEW memo \in [Topics -> SUBSET Nat], NEW more \in SUBSET Ref,
         NEW refs \in SUBSET Ref, \A c \in refs : memo[c[1]] # {0}
  PROVE  /\ Grade(Checked(memo, more), refs) = Grade(memo, refs)
         /\ \A c \in refs : Checked(memo, more)[c[1]] # {0}
<1>1. \A c \in refs : c[1] \in Topics
  BY DEF Ref
<1>2. \A c \in refs : Checked(memo, more)[c[1]] = memo[c[1]]
  BY <1>1 DEF Checked
<1>3. (\E c \in refs : c[2] \in Checked(memo, more)[c[1]])
        <=> (\E c \in refs : c[2] \in memo[c[1]])
  BY <1>2
<1> QED
  BY <1>2, <1>3 DEF Grade

LEMMA CitedIsRead ==
  ASSUME NEW memo \in [Topics -> SUBSET Nat], NEW refs \in SUBSET Ref,
         NEW c \in refs
  PROVE  Checked(memo, refs)[c[1]] # {0}
<1>1. c[1] \in Topics
  BY DEF Ref
<1>2. Shown(c[1]) # {0}
  BY DEF Shown
<1> QED
  BY <1>1, <1>2 DEF Checked

LEMMA AskerSound ==
  ASSUME ExchangeTypeOK, SoundAsk, Asker
  PROVE  SoundAsk'
<1> USE DEF ExchangeTypeOK
<1>0. /\ ask.n \in Nat /\ ask.kind \in AskKinds /\ ask.inbox \in Seq(Reply)
      /\ ask.memo \in [Topics -> SUBSET Nat]
      /\ ask.results \in [Topics -> [entry : Nat, answers : Seq(Credit)]]
      /\ ask.answers \in Seq(Answer)
  BY DEF Ask
<1>1. ASSUME ask'.inbox = <<>>, ask'.answers = <<>>, ask'.held = {},
             \A t \in Topics : ask'.results[t].answers = <<>>
      PROVE  SoundAsk'
  BY <1>1 DEF SoundAsk, OneVoiceEach, GradesStand
<1>2. CASE Begin \/ Probe \/ (Finish /\ ask' = Asking(ask.n, ask.kind))
  <2>1. ASSUME NEW n, NEW kind, NEW hits, NEW alone, NEW op, NEW live,
               \/ ask' = [Asking(n, kind) EXCEPT !.pc = "gathering",
                           !.hits = hits, !.alone = alone]
               \/ ask' = [Asking(n, kind) EXCEPT !.pc = "probing",
                           !.op = op, !.live = live]
               \/ ask' = Asking(n, kind)
        PROVE  /\ ask'.inbox = <<>> /\ ask'.answers = <<>> /\ ask'.held = {}
               /\ \A t \in Topics : ask'.results[t].answers = <<>>
    <3>1. /\ ask'.inbox = <<>> /\ ask'.answers = <<>> /\ ask'.held = {}
          /\ ask'.results = [t \in Topics |-> [entry |-> 0, answers |-> <<>>]]
      <4>1. CASE ask' = [Asking(n, kind) EXCEPT !.pc = "gathering",
                           !.hits = hits, !.alone = alone]
        BY <4>1 DEF Asking
      <4>2. CASE ask' = [Asking(n, kind) EXCEPT !.pc = "probing",
                           !.op = op, !.live = live]
        BY <4>2 DEF Asking
      <4>3. CASE ask' = Asking(n, kind)
        BY <4>3 DEF Asking
      <4> QED
        BY <2>1, <4>1, <4>2, <4>3
    <3> QED
      BY <3>1
  <2>2. CASE Begin
    <3>1. PICK kind \in {"discover", "query"} \intersect scene.asks,
               hits \in SUBSET Topics :
            ask' = [Asking(ask.n + 1, kind) EXCEPT !.pc = "gathering",
                      !.hits = hits, !.alone = Listening = {}]
      BY <2>2, Zenon DEF Begin
    <3>2. PICK alone : alone = (Listening = {})
      OBVIOUS
    <3>3. ask' = [Asking(ask.n + 1, kind) EXCEPT !.pc = "gathering",
                    !.hits = hits, !.alone = alone]
      BY <3>1, <3>2, Zenon
    <3> QED
      BY <3>3, <2>1, <1>1
  <2>3. CASE Probe
    <3>1. PICK t \in Topics : \E i \in 1 .. Len(log[t]) :
            ask' = [Asking(ask.n + 1, "fetch") EXCEPT !.pc = "probing",
                      !.op = {<<t, i>>}, !.live = i \in Live(t)]
      BY <2>3, Zenon DEF Probe
    <3>2. PICK i \in 1 .. Len(log[t]) :
            ask' = [Asking(ask.n + 1, "fetch") EXCEPT !.pc = "probing",
                      !.op = {<<t, i>>}, !.live = i \in Live(t)]
      BY <3>1
    <3>3. PICK live : live = (i \in Live(t))
      OBVIOUS
    <3>4. ask' = [Asking(ask.n + 1, "fetch") EXCEPT !.pc = "probing",
                    !.op = {<<t, i>>}, !.live = live]
      BY <3>2, <3>3, Zenon
    <3> QED
      BY <3>4, <2>1, <1>1
  <2>4. CASE ask' = Asking(ask.n, ask.kind)
    BY <2>4, <2>1, <1>1
  <2> QED
    BY <2>2, <2>3, <2>4, <1>2
<1>3. CASE CaptureExhibit
  <2>1. /\ ask'.inbox = ask.inbox /\ ask'.answers = ask.answers
        /\ ask'.held = ask.held /\ ask'.results = ask.results
        /\ ask'.memo = ask.memo /\ ask'.n = ask.n /\ ask'.op = ask.op
        /\ ask'.pc \in {"done", "gathering"}
    BY <1>3 DEF CaptureExhibit, Ask
  <2>2. \A r : Acceptable(ask', r) <=> Acceptable(ask, r)
    BY <2>1 DEF Acceptable
  <2>3. OneVoiceEach'
    BY <2>1, <2>2 DEF SoundAsk, OneVoiceEach
  <2>4. GradesStand'
    BY <2>1 DEF SoundAsk, GradesStand
  <2> QED
    BY <2>1, <2>3, <2>4 DEF SoundAsk
<1>4. CASE Deadline
  BY <1>4 DEF Deadline, SoundAsk, OneVoiceEach, GradesStand, Acceptable
<1>5. ASSUME ask.inbox # <<>>
      PROVE  /\ Head(ask.inbox) \in Reply /\ Head(ask.inbox).to = ask.n
             /\ \A i \in 1 .. Len(Tail(ask.inbox)) :
                  Tail(ask.inbox)[i].to = ask.n
  <2>1. Head(ask.inbox) = ask.inbox[1] /\ 1 \in 1 .. Len(ask.inbox)
        /\ Head(ask.inbox) \in Reply
    BY <1>0, <1>5
  <2>2. \A i \in 1 .. Len(Tail(ask.inbox)) :
          Tail(ask.inbox)[i] = ask.inbox[i + 1]
          /\ i + 1 \in 1 .. Len(ask.inbox)
    BY <1>0, <1>5
  <2> QED
    BY <2>1, <2>2 DEF SoundAsk
<1>6. CASE GatherMatch
  <2> DEFINE r == Head(ask.inbox)
  <2>1. ask' = [ask EXCEPT !.inbox = Tail(@), !.results = MergeReply(@, r)]
        /\ ask.inbox # <<>> /\ ask.pc = "gathering"
    BY <1>6 DEF GatherMatch, InTime
  <2>2. /\ ask'.inbox = Tail(ask.inbox) /\ ask'.answers = ask.answers
        /\ ask'.held = ask.held /\ ask'.results = MergeReply(ask.results, r)
        /\ ask'.memo = ask.memo /\ ask'.n = ask.n /\ ask'.op = ask.op
        /\ ask'.pc = "gathering"
    BY <2>1 DEF Ask
  <2>3. r \in Reply /\ r.to = ask.n
    BY <2>1, <1>5
  <2>4. ASSUME NEW t \in Topics
        PROVE  LET answers == ask'.results[t].answers
               IN  /\ \A i \in 1 .. Len(answers) : answers[i].to = ask'.n
                   /\ \A i, j \in 1 .. Len(answers) :
                        answers[i].persona = answers[j].persona => i = j
    <3>1. /\ \A i \in 1 .. Len(ask.results[t].answers) :
               ask.results[t].answers[i].to = r.to
          /\ \A i, j \in 1 .. Len(ask.results[t].answers) :
               ask.results[t].answers[i].persona
                 = ask.results[t].answers[j].persona => i = j
      BY <2>3 DEF SoundAsk, OneVoiceEach
    <3> HIDE DEF r
    <3>2. LET answers == MergeReply(ask.results, r)[t].answers
          IN  /\ \A i \in 1 .. Len(answers) : answers[i].to = r.to
              /\ \A i, j \in 1 .. Len(answers) :
                   answers[i].persona = answers[j].persona => i = j
      <4> DEFINE results == ask.results
      <4>1. results \in [Topics -> [entry : Nat, answers : Seq(Credit)]]
        BY <1>0
      <4>2. /\ \A i \in 1 .. Len(results[t].answers) :
                 results[t].answers[i].to = r.to
            /\ \A i, j \in 1 .. Len(results[t].answers) :
                 results[t].answers[i].persona = results[t].answers[j].persona
                   => i = j
        BY <3>1
      <4> HIDE DEF results
      <4>3. LET answers == MergeReply(results, r)[t].answers
            IN  /\ \A i \in 1 .. Len(answers) : answers[i].to = r.to
                /\ \A i, j \in 1 .. Len(answers) :
                     answers[i].persona = answers[j].persona => i = j
        BY <4>1, <4>2, <2>3, MergeKeepsOneVoice
      <4> QED
        BY <4>3 DEF results
    <3> QED
      BY <3>2, <2>2, <2>3
  <2>5. OneVoiceEach'
    BY <2>2, <2>4 DEF SoundAsk, OneVoiceEach, Acceptable
  <2> QED
    BY <2>1, <2>2, <2>5, <1>5 DEF SoundAsk, GradesStand
<1>7. CASE GatherAnswer
  <2> DEFINE r == Head(ask.inbox)
             memo == Checked(ask.memo, r.op)
             x == [reply |-> r, grade |-> Grade(memo, r.op)]
  <2>1. /\ ask' = IF r.sig = "failed" THEN [ask EXCEPT !.inbox = Tail(@)]
                  ELSE [ask EXCEPT !.inbox = Tail(@), !.memo = memo,
                                   !.answers = Append(@, x)]
        /\ ask.inbox # <<>> /\ ask.pc = "gathering"
    BY <1>7 DEF GatherAnswer, InTime
  <2>2. /\ ask'.inbox = Tail(ask.inbox)
        /\ ask'.held = ask.held /\ ask'.results = ask.results
        /\ ask'.n = ask.n /\ ask'.op = ask.op /\ ask'.pc = "gathering"
        /\ \/ r.sig = "failed" /\ UNCHANGED <<ask.answers, ask.memo>>
           \/ /\ r.sig # "failed" /\ ask'.memo = memo
              /\ ask'.answers = Append(ask.answers, x)
    <3> HIDE DEF memo, x
    <3> QED
      BY <2>1 DEF Ask
  <2>3. r \in Reply /\ r.to = ask.n /\ r.op \in SUBSET Ref
    BY <2>1, <1>5 DEF Reply
  <2>4. CASE r.sig = "failed" /\ UNCHANGED <<ask.answers, ask.memo>>
    BY <2>1, <2>2, <2>4, <1>5
       DEF SoundAsk, OneVoiceEach, GradesStand, Acceptable
  <2>5. CASE r.sig # "failed" /\ ask'.memo = memo
             /\ ask'.answers = Append(ask.answers, x)
    <3>1. /\ x.reply = r /\ x.grade = Grade(memo, r.op)
          /\ \A c \in r.op : memo[c[1]] # {0}
      BY <2>3, <1>0, CitedIsRead
    <3>2. ASSUME NEW i \in 1 .. Len(ask.answers)
          PROVE  /\ ask.answers[i].grade = Grade(memo, ask.answers[i].reply.op)
                 /\ \A c \in ask.answers[i].reply.op : memo[c[1]] # {0}
      <4>0. ask.answers[i] \in Answer
        BY <1>0
      <4>1. ask.answers[i].reply.op \in SUBSET Ref
        BY <4>0 DEF Answer, Reply
      <4> QED
        <5>1. /\ ask.answers[i].grade = Grade(ask.memo, ask.answers[i].reply.op)
              /\ \A c \in ask.answers[i].reply.op : ask.memo[c[1]] # {0}
          BY DEF SoundAsk, GradesStand
        <5> HIDE DEF r
        <5>2. /\ Grade(memo, ask.answers[i].reply.op)
                   = Grade(ask.memo, ask.answers[i].reply.op)
              /\ \A c \in ask.answers[i].reply.op : memo[c[1]] # {0}
          <6>1. \A refs \in SUBSET Ref :
                  (\A c \in refs : ask.memo[c[1]] # {0}) =>
                    /\ Grade(memo, refs) = Grade(ask.memo, refs)
                    /\ \A c \in refs : memo[c[1]] # {0}
            BY <2>3, <1>0, GradeStays
          <6> QED
            BY <4>1, <5>1, <6>1
        <5> QED
          BY <5>1, <5>2
    <3> HIDE DEF x, memo
    <3>3. /\ \A i \in 1 .. Len(ask'.answers) :
               i \in 1 .. Len(ask.answers) \/ ask'.answers[i] = x
          /\ \A i \in 1 .. Len(ask.answers) : ask'.answers[i] = ask.answers[i]
      BY <2>5, <1>0
    <3>4. GradesStand'
      <4>1. ASSUME NEW i \in 1 .. Len(ask'.answers)
            PROVE  /\ ask'.answers[i].grade
                        = Grade(ask'.memo, ask'.answers[i].reply.op)
                   /\ \A c \in ask'.answers[i].reply.op : ask'.memo[c[1]] # {0}
        BY <3>1, <3>2, <3>3, <2>5
      <4> QED
        BY <4>1 DEF GradesStand
    <3>5. OneVoiceEach'
      <4> HIDE DEF r
      <4>1. \A t \in Topics :
              LET answers == ask'.results[t].answers
              IN  /\ \A i \in 1 .. Len(answers) : answers[i].to = ask'.n
                  /\ \A i, j \in 1 .. Len(answers) :
                       answers[i].persona = answers[j].persona => i = j
        BY <2>2 DEF SoundAsk, OneVoiceEach
      <4>2. \A s \in ask'.held : s.to = ask'.n /\ Acceptable(ask', s)
        BY <2>2 DEF SoundAsk, OneVoiceEach, Acceptable
      <4>3. ASSUME NEW i \in 1 .. Len(ask'.answers)
            PROVE  /\ ask'.answers[i].reply.to = ask'.n
                   /\ ask'.answers[i].reply.sig # "failed"
        <5>1. CASE ask'.answers[i] = x
          BY <5>1, <3>1, <2>2, <2>3, <2>5
        <5>2. CASE i \in 1 .. Len(ask.answers)
          BY <5>2, <3>3, <2>2 DEF SoundAsk, OneVoiceEach
        <5> QED
          BY <5>1, <5>2, <3>3
      <4> QED
        BY <4>1, <4>2, <4>3 DEF OneVoiceEach
    <3> QED
      BY <3>4, <3>5, <2>1, <2>2, <1>5 DEF SoundAsk
  <2> QED
    BY <2>2, <2>4, <2>5
<1>8. CASE GatherExhibit
  <2> DEFINE r == Head(ask.inbox)
             a == [ask EXCEPT !.inbox = Tail(@), !.read = Append(@, r)]
  <2>1. ask' = Weigh(a, r) /\ ask.inbox # <<>> /\ ask.pc = "gathering"
    BY <1>8 DEF GatherExhibit, InTime
  <2>2. /\ a.inbox = Tail(ask.inbox) /\ a.answers = ask.answers
        /\ a.results = ask.results /\ a.memo = ask.memo /\ a.n = ask.n
        /\ a.op = ask.op /\ a.held = ask.held /\ a.pc = "gathering"
    BY <2>1 DEF Ask
  <2>3. a = [n |-> a.n, pc |-> a.pc, kind |-> a.kind, hits |-> a.hits,
             op |-> a.op, inbox |-> a.inbox, alone |-> a.alone,
             live |-> a.live, results |-> a.results, answers |-> a.answers,
             memo |-> a.memo, held |-> a.held, read |-> a.read]
    <3>1. r \in Reply /\ Tail(ask.inbox) \in Seq(Reply)
      BY <2>1, <1>0, <1>5
    <3>2. Append(ask.read, r) \in Seq(Reply)
      BY <3>1 DEF Ask
    <3>3. a \in Ask
      <4> HIDE DEF r
      <4> QED
        BY <3>1, <3>2 DEF Ask
    <3> HIDE DEF a
    <3> QED
      BY <3>3 DEF Ask
  <2>4. r \in Reply /\ r.to = ask.n
    BY <2>1, <1>5
  <2> HIDE DEF a, r
  <2>5. /\ ask'.inbox = a.inbox /\ ask'.answers = a.answers
        /\ ask'.results = a.results /\ ask'.memo = a.memo /\ ask'.n = a.n
        /\ ask'.op = a.op /\ ask'.pc \in {"gathering", "done"}
        /\ ask'.held = a.held \/ (ask'.held = {r} /\ Acceptable(a, r))
    <3>1. CASE ~Acceptable(a, r)
      <4>1. ask' = a
        BY <3>1, <2>1 DEF Weigh
      <4> QED
        BY <4>1, <2>2
    <3>2. CASE Acceptable(a, r) /\ r.verdict = "verified"
      <4>1. ask' = [a EXCEPT !.held = {r}, !.pc = "done"]
        BY <3>2, <2>1 DEF Weigh
      <4>2. /\ ask'.inbox = a.inbox /\ ask'.answers = a.answers
            /\ ask'.results = a.results /\ ask'.memo = a.memo
            /\ ask'.n = a.n /\ ask'.op = a.op
            /\ ask'.pc = "done" /\ ask'.held = {r}
        BY <4>1, <2>3
      <4> QED
        BY <3>2, <4>2
    <3>3. CASE Acceptable(a, r) /\ r.verdict # "verified"
      <4>1. ask' = [a EXCEPT !.held = IF @ = {} THEN {r} ELSE @]
        BY <3>3, <2>1 DEF Weigh
      <4>2. /\ ask'.inbox = a.inbox /\ ask'.answers = a.answers
            /\ ask'.results = a.results /\ ask'.memo = a.memo
            /\ ask'.n = a.n /\ ask'.op = a.op /\ ask'.pc = a.pc
        BY <4>1, <2>3
      <4>3. ask'.held = IF a.held = {} THEN {r} ELSE a.held
        BY <4>1, <2>3
      <4> QED
        BY <3>3, <4>2, <4>3, <2>2
    <3> QED
      BY <3>1, <3>2, <3>3
  <2>6. \A s \in ask'.held : s.to = ask'.n /\ Acceptable(ask', s)
    BY <2>2, <2>4, <2>5 DEF SoundAsk, OneVoiceEach, Acceptable
  <2>7. OneVoiceEach'
    BY <2>2, <2>5, <2>6 DEF SoundAsk, OneVoiceEach
  <2>8. GradesStand'
    BY <2>2, <2>5 DEF SoundAsk, GradesStand
  <2>9. \A i \in 1 .. Len(ask'.inbox) : ask'.inbox[i].to = ask'.n
    BY <2>1, <2>2, <2>5, <1>5
  <2> QED
    BY <2>5, <2>7, <2>8, <2>9 DEF SoundAsk
<1>9. CASE Finish /\ ask' = [ask EXCEPT !.pc = "done", !.inbox = <<>>]
  <2>1. /\ ask'.inbox = <<>> /\ ask'.answers = ask.answers
        /\ ask'.held = ask.held /\ ask'.results = ask.results
        /\ ask'.memo = ask.memo /\ ask'.n = ask.n /\ ask'.op = ask.op
        /\ ask'.pc = "done"
    BY <1>9 DEF Ask
  <2>2. OneVoiceEach'
    BY <2>1 DEF SoundAsk, OneVoiceEach, Acceptable
  <2>3. GradesStand'
    BY <2>1 DEF SoundAsk, GradesStand
  <2>4. \A i \in 1 .. Len(ask'.inbox) : FALSE
    BY <2>1
  <2> QED
    BY <2>1, <2>2, <2>3, <2>4 DEF SoundAsk
<1> QED
  BY <1>2, <1>3, <1>4, <1>6, <1>7, <1>8, <1>9 DEF Asker, Finish

LEMMA ResponderSound ==
  ASSUME ExchangeTypeOK, SoundAsk, NEW r \in Responders,
         Serve(r) \/ Stop(r) \/ Hear(r) \/ Send(r)
  PROVE  SoundAsk'
<1>1. ASSUME UNCHANGED ask
      PROVE  SoundAsk'
  BY <1>1 DEF SoundAsk, OneVoiceEach, GradesStand
<1>2. CASE Serve(r) \/ Stop(r) \/ Hear(r)
  BY <1>1, <1>2 DEF Serve, Stop, Hear
<1>3. CASE Send(r)
  <2> DEFINE m == Head(resp[r].draft)
  <2>1. CASE UNCHANGED ask
    BY <2>1, <1>1
  <2>2. CASE Arrives(m) /\ ask' = [ask EXCEPT !.inbox = Append(@, m)]
    <3>1. ask.inbox \in Seq(Reply) /\ m \in Reply
      <4>1. resp[r].draft \in Seq(Reply) /\ resp[r].draft # <<>>
        BY <1>3 DEF Send, ExchangeTypeOK, Responder
      <4> QED
        BY <4>1 DEF ExchangeTypeOK, Ask
    <3>2. /\ ask'.inbox = Append(ask.inbox, m) /\ ask'.answers = ask.answers
          /\ ask'.held = ask.held /\ ask'.results = ask.results
          /\ ask'.memo = ask.memo /\ ask'.n = ask.n /\ ask'.op = ask.op
          /\ ask'.pc = ask.pc
      BY <2>2 DEF ExchangeTypeOK, Ask
    <3>3. m.to = ask.n /\ ask.pc = "gathering"
      BY <2>2 DEF Arrives
    <3> HIDE DEF m
    <3>4. \A i \in 1 .. Len(ask'.inbox) : ask'.inbox[i].to = ask'.n
      BY <3>1, <3>2, <3>3 DEF SoundAsk
    <3> QED
      BY <3>2, <3>3, <3>4 DEF SoundAsk, OneVoiceEach, GradesStand, Acceptable
  <2> QED
    BY <2>1, <2>2, <1>3 DEF Send
<1> QED
  BY <1>2, <1>3

LEMMA InitSound == Init => ThreadsSound /\ SoundAsk /\ ~Ready
<1> SUFFICES ASSUME Init PROVE ThreadsSound /\ SoundAsk /\ ~Ready
  OBVIOUS
<1>1. \A th \in Threads : thread[th] = Resting
  BY DEF Init
<1>2. "run" \in Threads /\ "answer" \in Threads
  BY DEF Threads
<1>3. ThreadsSound /\ ~Ready
  BY <1>1, <1>2 DEF ThreadsSound, Ready, Run, Resting
<1>4. /\ ask.inbox = <<>> /\ ask.answers = <<>> /\ ask.held = {}
      /\ ask.n = 0 /\ \A t \in Topics : ask.results[t].answers = <<>>
  BY DEF Init, ExchangeInit, Asking
<1> QED
  BY <1>3, <1>4 DEF SoundAsk, OneVoiceEach, GradesStand

(***************************************************************************)
(* The invariant                                                           *)
(***************************************************************************)

CuratorInv == TypeOK /\ ThreadsSound /\ SoundAsk /\ FreshOrDirty

LEMMA InitInvariant == Init => CuratorInv
BY InitTypes, InitSound DEF CuratorInv, FreshOrDirty

(* A step that is not the asker's or a responder's leaves the ask alone.   *)
LEMMA NextTypes ==
  ASSUME TypeOK, ThreadsSound, Next
  PROVE  TypeOK'
<1>1. CASE Asker /\ UNCHANGED <<coming, signals, aged, memory, rounds, history>>
  BY <1>1, AskerTypes DEF TypeOK, memory, history
<1>2. ASSUME NEW r \in Responders,
             Serve(r) \/ Stop(r) \/ Hear(r) \/ Send(r),
             UNCHANGED <<coming, signals, aged, memory, rounds, history>>
      PROVE  TypeOK'
  BY <1>2, ResponderTypes DEF TypeOK, memory, history
<1> QED
  BY <1>1, <1>2, CuratorTypes DEF Next

LEMMA NextSound ==
  ASSUME TypeOK, SoundAsk, Next
  PROVE  SoundAsk'
<1> USE DEF TypeOK
<1>1. ASSUME UNCHANGED ask
      PROVE  SoundAsk'
  BY <1>1 DEF SoundAsk, OneVoiceEach, GradesStand
<1>2. CASE Asker
  BY <1>2, AskerSound
<1>3. ASSUME NEW r \in Responders,
             Serve(r) \/ Stop(r) \/ Hear(r) \/ Send(r)
      PROVE  SoundAsk'
  BY <1>3, ResponderSound
<1>4. \A t \in Topics : Post(t) \/ Stored(t) \/ Signal(t) => UNCHANGED ask
  BY DEF Post, Stored, Signal, exchange
<1>5. Age \/ Subscribe \/ Seed \/ Asked \/ Search => UNCHANGED ask
  BY DEF Age, Subscribe, Seed, Asked, Search, exchange
<1>6. \A th \in Threads : Refresh(th) => UNCHANGED ask
  BY DEF Refresh, Read, ReadFails, Keep, exchange
<1>7. Rounds => UNCHANGED ask
  BY DEF Rounds, Tick, Refreshed, Judge, NextHabit, Act, Dies, exchange
<1> QED
  BY <1>1, <1>2, <1>3, <1>4, <1>5, <1>6, <1>7 DEF Next

LEMMA NextInvariant == CuratorInv /\ [Next]_vars => CuratorInv'
<1> SUFFICES ASSUME CuratorInv, [Next]_vars PROVE CuratorInv'
  OBVIOUS
<1> USE DEF CuratorInv
<1>1. CASE Next
  <2>1. TypeOK' /\ ThreadsSound' /\ SoundAsk'
    BY <1>1, NextTypes, ThreadsStep, NextSound
  <2>2. ASSUME Ready', NEW t \in Topics
        PROVE  Covered(t)'
    BY <1>1, <2>2, FreshIsCovered, FreshStep
  <2>3. FreshOrDirty'
    BY <2>2 DEF FreshOrDirty, Covered, Fetching
  <2> QED
    BY <2>1, <2>3
<1>2. CASE UNCHANGED vars
  <2> USE <1>2 DEF vars, exchange, memory, history
  <2>1. TypeOK'
    BY DEF TypeOK, ExchangeTypeOK
  <2>2. ThreadsSound'
    BY DEF ThreadsSound, Run
  <2>3. SoundAsk'
    BY DEF SoundAsk, OneVoiceEach, GradesStand
  <2>4. FreshOrDirty'
    BY DEF FreshOrDirty, Ready, Run
  <2> QED
    BY <2>1, <2>2, <2>3, <2>4
<1> QED
  BY <1>1, <1>2

(* The types, the goroutines' bookkeeping, the soundness of what an ask    *)
(* holds and the freshness of the memory, together, always.                *)
THEOREM Invariant == Spec => []CuratorInv
BY InitInvariant, NextInvariant, PTL DEF Spec

(* Whatever the interleaving of the two goroutines, of signals and of      *)
(* publishes: a topic the ready curator has not all of is marked, being    *)
(* read or about to be heard of, but for the two races it names.           *)
THEOREM AlwaysFreshOrDirty == Spec => []FreshOrDirty
<1>1. CuratorInv => FreshOrDirty
  BY DEF CuratorInv
<1> QED BY <1>1, Invariant, PTL

(* What an ask gathers was said in reply to it, each persona is credited   *)
(* once for a topic, and nothing tampered with is kept as testimony.       *)
THEOREM OneVoice == Spec => []OneVoiceEach
<1>1. CuratorInv => OneVoiceEach
  BY DEF CuratorInv, SoundAsk
<1> QED BY <1>1, Invariant, PTL

(* Answers that cite the same operation carry the same grade, whatever is  *)
(* published or compacted while they arrive.                               *)
THEOREM GradesAgree == Spec => []SameGrade
<1>1. CuratorInv => SameGrade
  <2> SUFFICES ASSUME GradesStand PROVE SameGrade
    BY DEF CuratorInv, SoundAsk
  <2> QED
    BY Zenon DEF GradesStand, SameGrade
<1> QED BY <1>1, Invariant, PTL

(***************************************************************************)
(* What a fetch settles for                                                *)
(***************************************************************************)

(* While a fetch gathers it has heard nothing verified, and holds the first *)
(* that will do; when it is over, FetchBest.  The state of an ask, `late`    *)
(* for whether its deadline has passed.                                     *)
Settled(a, late) ==
  IF Sure(a) # {} THEN a.held = FirstOf(a, Sure(a))
  ELSE /\ late \/ a.alone
       /\ a.held = FirstOf(a, Good(a))
Undecided(a) ==
  /\ Sure(a) = {} /\ a.held = FirstOf(a, Good(a))
  /\ Good(a) # {} => a.held # {}
FetchSound ==
  ask.kind = "fetch" =>
    /\ ask.pc \in {"idle", "probing"} => ask.read = <<>> /\ ask.held = {}
    /\ ask.pc = "gathering" => ~ask.live /\ Undecided(ask)
    /\ ask.pc = "done" /\ ~ask.live => Settled(ask, ask.n \in expired)

LEMMA NothingHeard ==
  ASSUME NEW a, a.read = <<>>, a.held = {}
  PROVE  Undecided(a)
<1>1. Good(a) = {}
  BY DEF Good
<1>2. Sure(a) = {} /\ FirstOf(a, Good(a)) = {}
  BY <1>1 DEF Sure, FirstOf
<1> QED
  BY <1>1, <1>2 DEF Undecided

(* What a fetch heard is judged by the document it asked for.              *)
LEMMA SameJudgement ==
  ASSUME NEW a, NEW b, b.read = a.read, b.op = a.op
  PROVE  /\ Good(b) = Good(a) /\ Sure(b) = Sure(a)
         /\ \A S : FirstOf(b, S) = FirstOf(a, S)
<1>1. \A r : Acceptable(b, r) <=> Acceptable(a, r)
  BY DEF Acceptable
<1>2. Good(b) = Good(a)
  BY <1>1 DEF Good
<1> QED
  BY <1>2 DEF Sure, FirstOf

LEMMA FirstOfOne ==
  ASSUME NEW a, NEW n \in Nat
  PROVE  FirstOf(a, {n}) = {a.read[n]}
<1>1. {j \in {n} : \A k \in {n} : j <= k} = {n}
  OBVIOUS
<1> QED
  BY <1>1 DEF FirstOf

(* One more reply is heard last, and is good or not.                       *)
LEMMA OneMore ==
  ASSUME NEW a, NEW b, NEW r \in Reply, a.read \in Seq(Reply),
         b.read = Append(a.read, r), b.op = a.op
  PROVE  LET n == Len(a.read) + 1
         IN  /\ n \in Nat /\ b.read[n] = r
             /\ \A i \in Good(a) : i \in Nat /\ i < n /\ b.read[i] = a.read[i]
             /\ Good(b) = IF Acceptable(a, r) THEN Good(a) \union {n}
                          ELSE Good(a)
<1> DEFINE n == Len(a.read) + 1
<1>1. \A s : Acceptable(b, s) <=> Acceptable(a, s)
  BY DEF Acceptable
<1>2. /\ n \in Nat /\ b.read[n] = r /\ Len(b.read) = n
      /\ \A i \in 1 .. Len(a.read) : b.read[i] = a.read[i] /\ i < n
      /\ 1 .. n = (1 .. Len(a.read)) \union {n}
  OBVIOUS
<1> HIDE DEF n
<1>3. \A i \in Good(a) : i \in Nat /\ i < n /\ b.read[i] = a.read[i]
  BY <1>2 DEF Good
<1>4. ASSUME NEW i
      PROVE  i \in Good(b) <=> i \in Good(a) \/ (i = n /\ Acceptable(a, r))
  <2>1. CASE i \in 1 .. Len(a.read)
    BY <2>1, <1>1, <1>2 DEF Good
  <2>2. CASE i = n
    BY <2>2, <1>1, <1>2, <1>3 DEF Good
  <2>3. CASE i \notin 1 .. n
    BY <2>3, <1>2 DEF Good
  <2> QED
    BY <2>1, <2>2, <2>3, <1>2
<1>5. Good(b) = IF Acceptable(a, r) THEN Good(a) \union {n} ELSE Good(a)
  BY <1>4
<1> QED
  BY <1>2, <1>3, <1>5 DEF n

(* A reply that will not do changes nothing.                               *)
LEMMA RefusedReply ==
  ASSUME NEW a, NEW b, NEW r \in Reply, a.read \in Seq(Reply),
         b.read = Append(a.read, r), b.op = a.op, b.held = a.held,
         Undecided(a), ~Acceptable(a, r)
  PROVE  Undecided(b)
<1> DEFINE n == Len(a.read) + 1
<1>1. /\ \A i \in Good(a) : b.read[i] = a.read[i]
      /\ Good(b) = Good(a)
  BY OneMore
<1>2. Sure(b) = {} /\ FirstOf(b, Good(b)) = FirstOf(a, Good(a))
  BY <1>1 DEF Undecided, Sure, FirstOf
<1> QED
  BY <1>1, <1>2 DEF Undecided

(* One that will is held back, unless another was before it.               *)
LEMMA GoodReply ==
  ASSUME NEW a, NEW b, NEW r \in Reply, a.read \in Seq(Reply),
         b.read = Append(a.read, r), b.op = a.op,
         b.held = (IF a.held = {} THEN {r} ELSE a.held),
         Undecided(a), Acceptable(a, r), r.verdict # "verified"
  PROVE  Undecided(b)
<1> DEFINE n == Len(a.read) + 1
<1>1. /\ n \in Nat /\ b.read[n] = r
      /\ \A i \in Good(a) : i \in Nat /\ i < n /\ b.read[i] = a.read[i]
      /\ Good(b) = Good(a) \union {n}
  BY OneMore
<1> HIDE DEF n
<1>2. Sure(b) = {}
  BY <1>1 DEF Undecided, Sure
<1>3. CASE Good(a) = {}
  <2>1. Good(b) = {n} /\ FirstOf(a, Good(a)) = {}
    BY <1>1, <1>3 DEF FirstOf
  <2>2. FirstOf(b, {n}) = {r}
    BY <1>1, FirstOfOne
  <2> QED
    BY <1>2, <2>1, <2>2 DEF Undecided
<1>4. CASE Good(a) # {}
  <2>1. {j \in Good(b) : \A k \in Good(b) : j <= k}
          = {j \in Good(a) : \A k \in Good(a) : j <= k}
    BY <1>1, <1>4
  <2>2. FirstOf(b, Good(b)) = FirstOf(a, Good(a))
    BY <2>1, <1>1 DEF FirstOf
  <2> QED
    BY <1>2, <1>4, <2>2 DEF Undecided
<1> QED
  BY <1>3, <1>4

(* A verified one is the first of its kind, and settles it.                *)
LEMMA SureReply ==
  ASSUME NEW a, NEW b, NEW r \in Reply, a.read \in Seq(Reply),
         b.read = Append(a.read, r), b.op = a.op, b.held = {r},
         Undecided(a), Acceptable(a, r), r.verdict = "verified", NEW late
  PROVE  Settled(b, late)
<1> DEFINE n == Len(a.read) + 1
<1>1. /\ n \in Nat /\ b.read[n] = r
      /\ \A i \in Good(a) : i \in Nat /\ i < n /\ b.read[i] = a.read[i]
      /\ Good(b) = Good(a) \union {n}
  <2>1. /\ n \in Nat /\ b.read[n] = r
        /\ \A i \in Good(a) : i \in Nat /\ i < n /\ b.read[i] = a.read[i]
        /\ Good(b) = IF Acceptable(a, r) THEN Good(a) \union {n} ELSE Good(a)
    BY OneMore, Zenon
  <2> QED
    BY <2>1, Zenon
<1> HIDE DEF n
<1>2. Sure(b) = {n}
  BY <1>1 DEF Undecided, Sure
<1>3. FirstOf(b, {n}) = {r}
  BY <1>1, FirstOfOne
<1> QED
  BY <1>2, <1>3 DEF Settled

(* An ask that is left alone stays settled: the deadline only passes.      *)
LEMMA FetchRests ==
  ASSUME FetchSound, UNCHANGED ask, expired \subseteq expired'
  PROVE  FetchSound'
BY DEF FetchSound, Settled, Undecided, Sure, Good, FirstOf, Acceptable

LEMMA FetchStep ==
  ASSUME ExchangeTypeOK, FetchSound, Asker
  PROVE  FetchSound'
<1>0. /\ ask \in Ask /\ ask.kind \in AskKinds /\ ask.inbox \in Seq(Reply)
      /\ ask.read \in Seq(Reply)
  BY DEF ExchangeTypeOK, Ask
<1>1. CASE Begin
  <2>1. PICK kind \in {"discover", "query"} \intersect scene.asks,
             hits \in SUBSET Topics :
          ask' = [Asking(ask.n + 1, kind) EXCEPT !.pc = "gathering",
                    !.hits = hits, !.alone = Listening = {}]
    BY <1>1, Zenon DEF Begin
  <2>2. ask'.kind = kind
    BY <2>1 DEF Asking
  <2> QED
    BY <2>2 DEF FetchSound
<1>2. CASE Probe
  <2>1. PICK t \in Topics : \E i \in 1 .. Len(log[t]) :
          ask' = [Asking(ask.n + 1, "fetch") EXCEPT !.pc = "probing",
                    !.op = {<<t, i>>}, !.live = i \in Live(t)]
    BY <1>2, Zenon DEF Probe
  <2>2. PICK i \in 1 .. Len(log[t]) :
          ask' = [Asking(ask.n + 1, "fetch") EXCEPT !.pc = "probing",
                    !.op = {<<t, i>>}, !.live = i \in Live(t)]
    BY <2>1
  <2>3. ask'.pc = "probing" /\ ask'.read = <<>> /\ ask'.held = {}
    BY <2>2 DEF Asking
  <2> QED
    BY <2>3 DEF FetchSound
<1>3. CASE CaptureExhibit
  <2>1. /\ ask.pc = "probing" /\ ask'.kind = ask.kind
        /\ ask'.read = ask.read /\ ask'.held = ask.held
        /\ \/ ask'.pc = "done" /\ ask'.live
           \/ ask'.pc = "gathering" /\ ~ask'.live
    BY <1>0, <1>3 DEF CaptureExhibit, Ask
  <2>2. ask.kind = "fetch" => Undecided(ask')
    BY <2>1, NothingHeard DEF FetchSound
  <2> QED
    BY <2>1, <2>2 DEF FetchSound
<1>4. CASE Deadline
  BY <1>4, FetchRests DEF Deadline
<1>5. CASE GatherMatch
  <2>1. ask'.kind = "discover"
    BY <1>0, <1>5 DEF GatherMatch, Ask
  <2> QED
    BY <2>1 DEF FetchSound
<1>6. CASE GatherAnswer
  <2> DEFINE r == Head(ask.inbox)
             memo == Checked(ask.memo, r.op)
             x == [reply |-> r, grade |-> Grade(memo, r.op)]
  <2>1. /\ ask' = IF r.sig = "failed" THEN [ask EXCEPT !.inbox = Tail(@)]
                  ELSE [ask EXCEPT !.inbox = Tail(@), !.memo = memo,
                                   !.answers = Append(@, x)]
        /\ ask.kind = "query"
    BY <1>6 DEF GatherAnswer
  <2> HIDE DEF memo, x, r
  <2>2. ask'.kind = "query"
    BY <2>1, <1>0 DEF Ask
  <2> QED
    BY <2>2 DEF FetchSound
<1>7. CASE GatherExhibit
  <2> DEFINE r == Head(ask.inbox)
             a == [ask EXCEPT !.inbox = Tail(@), !.read = Append(@, r)]
  <2>1. /\ ask' = Weigh(a, r) /\ ask.inbox # <<>>
        /\ ask.pc = "gathering" /\ ask.kind = "fetch"
    BY <1>7 DEF GatherExhibit, InTime
  <2>2. r \in Reply /\ Tail(ask.inbox) \in Seq(Reply)
    BY <2>1, <1>0
  <2> HIDE DEF r
  <2>3. Append(ask.read, r) \in Seq(Reply)
    BY <2>2, <1>0
  <2>4. /\ a \in Ask /\ a.read = Append(ask.read, r) /\ a.op = ask.op
        /\ a.held = ask.held /\ a.pc = "gathering" /\ a.kind = "fetch"
        /\ a.live = ask.live
    BY <2>1, <2>2, <2>3, <1>0 DEF Ask
  <2>5. Undecided(ask) /\ ~ask.live
    BY <2>1 DEF FetchSound
  <2> HIDE DEF a
  <2>6. \A s : Acceptable(a, s) <=> Acceptable(ask, s)
    BY <2>4 DEF Acceptable
  <2>7. CASE ~Acceptable(a, r)
    <3>1. ask' = a
      BY <2>7, <2>1 DEF Weigh
    <3>2. /\ ask'.read = Append(ask.read, r) /\ ask'.op = ask.op
          /\ ask'.held = ask.held
      BY <3>1, <2>4
    <3>3. Undecided(ask')
      BY <3>2, <2>2, <2>5, <2>6, <2>7, <1>0, RefusedReply
    <3> QED
      BY <3>1, <3>3, <2>4, <2>5 DEF FetchSound
  <2>8. CASE Acceptable(a, r) /\ r.verdict = "verified"
    <3>1. ask' = [a EXCEPT !.held = {r}, !.pc = "done"]
      BY <2>8, <2>1 DEF Weigh
    <3>2. /\ ask'.read = a.read /\ ask'.op = a.op /\ ask'.held = {r}
          /\ ask'.pc = "done"
      BY <3>1, <2>4 DEF Ask
    <3>3. Settled(ask', (ask.n \in expired)')
      BY <3>2, <2>2, <2>4, <2>5, <2>6, <2>8, <1>0, SureReply
    <3> QED
      BY <3>2, <3>3 DEF FetchSound
  <2>9. CASE Acceptable(a, r) /\ r.verdict # "verified"
    <3>1. ask' = [a EXCEPT !.held = IF @ = {} THEN {r} ELSE @]
      BY <2>9, <2>1 DEF Weigh
    <3>2. /\ ask'.read = a.read /\ ask'.op = a.op
          /\ ask'.held = (IF a.held = {} THEN {r} ELSE a.held)
          /\ ask'.pc = "gathering" /\ ask'.live = a.live
      BY <3>1, <2>4 DEF Ask
    <3>3. Undecided(ask')
      BY <3>2, <2>2, <2>4, <2>5, <2>6, <2>9, <1>0, GoodReply
    <3> QED
      BY <3>2, <3>3, <2>4, <2>5 DEF FetchSound
  <2> QED
    BY <2>7, <2>8, <2>9
<1>8. CASE Finish /\ ask' = Asking(ask.n, ask.kind)
  <2>1. ask'.pc = "idle" /\ ask'.read = <<>> /\ ask'.held = {}
    BY <1>8 DEF Asking
  <2> QED
    BY <2>1 DEF FetchSound
<1>9. CASE /\ Finish /\ ask' = [ask EXCEPT !.pc = "done", !.inbox = <<>>]
           /\ ~InTime \/ (ask.kind = "query" /\ Len(ask.answers) >= MaxAnswers)
  <2>1. /\ ask'.read = ask.read /\ ask'.op = ask.op /\ ask'.held = ask.held
        /\ ask'.kind = ask.kind /\ ask'.alone = ask.alone
        /\ ask'.n = ask.n /\ ask'.pc = "done" /\ expired' = expired
        /\ ask.pc = "gathering"
    BY <1>9, <1>0 DEF Ask, Finish
  <2>2. /\ Sure(ask') = Sure(ask) /\ Good(ask') = Good(ask)
        /\ FirstOf(ask', Good(ask)) = FirstOf(ask, Good(ask))
    BY <2>1, SameJudgement
  <2>3. ask.kind = "fetch" => ask.n \in expired \/ ask.alone
    BY <1>9, <2>1 DEF InTime
  <2>4. ask.kind = "fetch" => Settled(ask', ask'.n \in expired')
    BY <2>1, <2>2, <2>3 DEF FetchSound, Undecided, Settled
  <2> QED
    BY <2>1, <2>4 DEF FetchSound
<1> QED
  BY <1>1, <1>2, <1>3, <1>4, <1>5, <1>6, <1>7, <1>8, <1>9 DEF Asker, Finish

LEMMA FetchAnswered ==
  ASSUME ExchangeTypeOK, FetchSound, NEW r \in Responders,
         Serve(r) \/ Stop(r) \/ Hear(r) \/ Send(r)
  PROVE  FetchSound'
<1>1. CASE UNCHANGED ask /\ UNCHANGED expired
  BY <1>1, FetchRests
<1>2. CASE Send(r) /\ ask' # ask
  <2> DEFINE m == Head(resp[r].draft)
  <2>1. ask' = [ask EXCEPT !.inbox = Append(@, m)] /\ UNCHANGED expired
    BY <1>2 DEF Send
  <2> HIDE DEF m
  <2>2. /\ ask'.read = ask.read /\ ask'.op = ask.op /\ ask'.held = ask.held
        /\ ask'.kind = ask.kind /\ ask'.alone = ask.alone
        /\ ask'.n = ask.n /\ ask'.pc = ask.pc /\ ask'.live = ask.live
    BY <2>1 DEF Ask, ExchangeTypeOK
  <2>3. /\ Sure(ask') = Sure(ask) /\ Good(ask') = Good(ask)
        /\ \A S : FirstOf(ask', S) = FirstOf(ask, S)
    BY <2>2, SameJudgement
  <2>4. Undecided(ask) => Undecided(ask')
    BY <2>2, <2>3 DEF Undecided
  <2>5. Settled(ask, ask.n \in expired) => Settled(ask', ask'.n \in expired')
    <3>1. \A S : ask'.held = FirstOf(ask', S) <=> ask.held = FirstOf(ask, S)
      BY <2>2, <2>3
    <3>2. ask'.n \in expired' <=> ask.n \in expired
      BY <2>1, <2>2
    <3> QED
      BY <2>2, <2>3, <3>1, <3>2, Zenon DEF Settled
  <2> QED
    BY <2>2, <2>4, <2>5 DEF FetchSound
<1> QED
  BY <1>1, <1>2 DEF Serve, Stop, Hear, Send

LEMMA NextFetch ==
  ASSUME TypeOK, FetchSound, Next
  PROVE  FetchSound'
<1> USE DEF TypeOK
<1>1. CASE Asker
  BY <1>1, FetchStep
<1>2. ASSUME NEW r \in Responders,
             Serve(r) \/ Stop(r) \/ Hear(r) \/ Send(r)
      PROVE  FetchSound'
  BY <1>2, FetchAnswered
<1>3. \A t \in Topics : Post(t) \/ Stored(t) \/ Signal(t)
                          => UNCHANGED <<ask, expired>>
  BY DEF Post, Stored, Signal, exchange
<1>4. Age \/ Subscribe \/ Seed \/ Asked \/ Search => UNCHANGED <<ask, expired>>
  BY DEF Age, Subscribe, Seed, Asked, Search, exchange
<1>5. \A th \in Threads : Refresh(th) => UNCHANGED <<ask, expired>>
  BY DEF Refresh, Read, ReadFails, Keep, exchange
<1>6. Rounds => UNCHANGED <<ask, expired>>
  BY DEF Rounds, Tick, Refreshed, Judge, NextHabit, Act, Dies, exchange
<1>7. CASE UNCHANGED <<ask, expired>>
  BY <1>7, FetchRests
<1> QED
  BY <1>1, <1>2, <1>3, <1>4, <1>5, <1>6, <1>7 DEF Next

(* A fetch settles for an exhibit that is not verified only at its         *)
(* deadline, or when nobody is there; and what it returns is the first     *)
(* verified one it heard, or else the first that will do.                  *)
THEOREM FetchIsBest == Spec => []FetchBest
<1>1. Init => FetchSound
  BY DEF Init, ExchangeInit, Asking, FetchSound
<1>2. CuratorInv /\ FetchSound /\ [Next]_vars => FetchSound'
  <2>1. CuratorInv /\ FetchSound /\ Next => FetchSound'
    BY NextFetch DEF CuratorInv
  <2>2. FetchSound /\ UNCHANGED vars => FetchSound'
    BY FetchRests DEF vars, exchange
  <2> QED
    BY <2>1, <2>2
<1>3. FetchSound => FetchBest
  BY DEF FetchSound, Settled, FetchBest
<1> QED
  BY <1>1, <1>2, <1>3, Invariant, PTL DEF Spec

(***************************************************************************)
(* Acting on what was just read                                            *)
(***************************************************************************)

(* What the run judged as it read the topic it is about to act upon.       *)
Judged(t) ==
  /\ Run.view <= Len(log[t])
  /\ Run.habit = 3 => LastAny(t, Run.view) <= Run.now
  /\ Run.habit = 4 => StaleClaim(t, Run.view, Run.now)
ActSound ==
  /\ aged <= clock /\ Run.now <= aged
  /\ Run.pc = "act" => \A t \in Run.at : Judged(t)

(* What a view says does not change as its topic grows.                    *)
LEMMA ViewKept ==
  ASSUME log \in [Topics -> Seq(Op)], NEW t \in Topics, NEW v \in Nat,
         v <= Len(log[t]),
         \A i \in 1 .. Len(log[t]) : log'[t][i] = log[t][i]
  PROVE  /\ LastAny(t, v)' = LastAny(t, v)
         /\ \A now : StaleClaim(t, v, now)' <=> StaleClaim(t, v, now)
<1>0. Len(log[t]) \in Nat
  OBVIOUS
<1>1. ASSUME NEW w \in 0 .. v, NEW kinds
      PROVE  Is(t, w, kinds)' = Is(t, w, kinds)
  BY <1>0 DEF Is
<1>2. ASSUME NEW i \in 0 .. v
      PROVE  At(t, i)' = At(t, i)
  BY <1>0 DEF At
<1>3. LastAny(t, v)' = LastAny(t, v)
  <2> DEFINE S == Is(t, v, Kinds \ {"mark", "close"})
  <2>1. S' = S
    BY <1>1
  <2>2. S \subseteq 0 .. v
    BY DEF Is
  <2> HIDE DEF S
  <2>3. Latest(S) \in 0 .. v
    <3> DEFINE m == Latest(S)
    <3>1. m \in S \/ m = 0
      BY LatestOf
    <3> HIDE DEF m
    <3>2. m \in S => m \in 0 .. v
      BY <2>2, Zenon
    <3>3. 0 \in 0 .. v
      OBVIOUS
    <3> QED
      BY <3>1, <3>2, <3>3, Zenon DEF m
  <2>4. Latest(S)' = Latest(S)
    BY <2>1 DEF Latest, IsLatest
  <2>5. At(t, Latest(S))' = At(t, Latest(S))
    BY <2>3, <2>4, <1>2
  <2> QED
    BY <2>5 DEF LastAny, Newest, S
<1>4. Holding(t, v)' = Holding(t, v)
  <2>1. /\ Is(t, v, {"claim"})' = Is(t, v, {"claim"})
        /\ Is(t, v, {"drop"})' = Is(t, v, {"drop"})
        /\ Is(t, v, {"done"})' = Is(t, v, {"done"})
    BY <1>1
  <2>2. Is(t, v, {"claim"}) \subseteq 1 .. v
    BY DEF Is
  <2>3. \A i \in 1 .. v : /\ Is(t, i - 1, {"claim"})' = Is(t, i - 1, {"claim"})
                          /\ Is(t, i, {"drop"})' = Is(t, i, {"drop"})
    BY <1>1
  <2> QED
    BY <2>1, <2>2, <2>3 DEF Holding
<1>5. Related(t, v)' = Related(t, v) /\ Related(t, v) \subseteq 1 .. v
  BY <1>0 DEF Related
<1>6. ASSUME NEW now
      PROVE  StaleClaim(t, v, now)' <=> StaleClaim(t, v, now)
  BY <1>0, <1>4, <1>5 DEF StaleClaim
<1> QED
  BY <1>3, <1>6

(* A step changes topics only by publishing to one of them.                *)
LEMMA LogStep ==
  ASSUME TypeOK, ThreadsSound, Next
  PROVE  \/ UNCHANGED <<log, clock>>
         \/ \E t \in Topics, kind \in Kinds : Published(t, kind)
<1> USE DEF TypeOK
<1>1. CASE Asker \/ \E r \in Responders :
                      Serve(r) \/ Stop(r) \/ Hear(r) \/ Send(r)
  BY <1>1 DEF Asker, Begin, Probe, CaptureExhibit, Deadline, GatherMatch,
       GatherAnswer, GatherExhibit, Finish, Serve, Stop, Hear, Send
<1>2. ASSUME NEW t \in Topics, Stored(t)
      PROVE  \E kind \in Kinds : Published(t, kind)
  BY <1>2 DEF Stored
<1>3. CASE Act
  <2>1. UNCHANGED <<log, clock>>
        \/ \E t \in Run.at : Run.pc = "act" /\ Published(t, Note(Run.habit))
    BY <1>3 DEF Act
  <2>2. CASE \E t \in Run.at : Run.pc = "act" /\ Published(t, Note(Run.habit))
    <3>1. PICK t \in Run.at : Run.pc = "act" /\ Published(t, Note(Run.habit))
      BY <2>2
    <3>2. Run \in Thread
      BY DEF Run, Threads
    <3>3. t \in Topics
      BY <3>2 DEF Thread
    <3>4. Run.habit \in {1, 2, 3, 4}
      BY <3>1, <3>2 DEF ThreadsSound, Thread
    <3>5. Note(Run.habit) \in Kinds
      BY <3>4 DEF Note, Kinds
    <3> QED
      BY <3>1, <3>3, <3>5
  <2> QED
    BY <2>1, <2>2
<1>4. \A t \in Topics : Post(t) \/ Signal(t) => UNCHANGED <<log, clock>>
  BY DEF Post, Signal, exchange
<1>5. Age \/ Subscribe \/ Seed \/ Asked \/ Search => UNCHANGED <<log, clock>>
  BY DEF Age, Subscribe, Seed, Asked, Search, exchange
<1>6. \A th \in Threads : Refresh(th) => UNCHANGED <<log, clock>>
  BY DEF Refresh, Read, ReadFails, Keep, exchange
<1>7. Tick \/ Refreshed \/ Judge \/ NextHabit \/ Dies
        => UNCHANGED <<log, clock>>
  BY DEF Tick, Refreshed, Judge, NextHabit, Dies, exchange
<1> QED
  BY <1>1, <1>2, <1>3, <1>4, <1>5, <1>6, <1>7 DEF Next, Rounds

(* A topic only grows, and time only passes.                               *)
LEMMA LogGrows ==
  ASSUME TypeOK, ThreadsSound, Next
  PROVE  /\ clock <= clock'
         /\ \A t \in Topics :
              /\ Len(log[t]) <= Len(log'[t])
              /\ \A i \in 1 .. Len(log[t]) : log'[t][i] = log[t][i]
<1> USE DEF TypeOK
<1>0. /\ log \in [Topics -> Seq(Op)] /\ clock \in Nat
      /\ \A t \in Topics : Len(log[t]) \in Nat
  BY DEF ExchangeTypeOK
<1>1. CASE UNCHANGED <<log, clock>>
  BY <1>1, <1>0
<1>2. ASSUME NEW u \in Topics, NEW kind \in Kinds, Published(u, kind)
      PROVE  /\ clock <= clock'
             /\ \A t \in Topics :
                  /\ Len(log[t]) <= Len(log'[t])
                  /\ \A i \in 1 .. Len(log[t]) : log'[t][i] = log[t][i]
  <2>1. /\ clock' >= clock /\ clock' \in Nat
        /\ Len(log'[u]) = Len(log[u]) + 1
        /\ \A t \in Topics : t # u => log'[t] = log[t]
        /\ \A i \in 1 .. Len(log[u]) : log'[u][i] = log[u][i]
    BY <1>0, <1>2, Appends
  <2>2. ASSUME NEW t \in Topics
        PROVE  /\ Len(log[t]) <= Len(log'[t])
               /\ \A i \in 1 .. Len(log[t]) : log'[t][i] = log[t][i]
    <3>1. CASE t = u
      BY <3>1, <1>0, <2>1
    <3>2. CASE t # u
      <4>1. log'[t] = log[t] /\ Len(log[t]) \in Nat
        BY <3>2, <1>0, <2>1
      <4> QED
        BY <4>1
    <3> QED
      BY <3>1, <3>2
  <2> QED
    BY <2>1, <2>2
<1> QED
  BY <1>1, <1>2, LogStep

(* What was judged stays so until it is acted upon.                        *)
LEMMA JudgedKept ==
  ASSUME TypeOK, ThreadsSound, Next, ActSound, UNCHANGED Run,
         Run.pc = "act", NEW t \in Run.at
  PROVE  Judged(t)'
<1>1. Run \in Thread /\ log \in [Topics -> Seq(Op)]
  BY DEF TypeOK, Run, Threads, ExchangeTypeOK
<1>2. t \in Topics /\ Run.view \in Nat
  BY <1>1 DEF Thread
<1>3. Judged(t)
  BY DEF ActSound
<1>4. /\ Len(log[t]) <= Len(log'[t])
      /\ \A i \in 1 .. Len(log[t]) : log'[t][i] = log[t][i]
  BY <1>2, LogGrows
<1> DEFINE v == Run.view
<1>5. v \in Nat /\ v <= Len(log[t]) /\ v' = v
  BY <1>2, <1>3 DEF Judged
<1>6. /\ Len(log[t]) \in Nat /\ Len(log'[t]) \in Nat
  <2>1. log' \in [Topics -> Seq(Op)]
    BY NextTypes DEF TypeOK, ExchangeTypeOK
  <2> QED
    BY <2>1, <1>1, <1>2
<1> HIDE DEF v
<1>7. /\ LastAny(t, v)' = LastAny(t, v)
      /\ \A now : StaleClaim(t, v, now)' <=> StaleClaim(t, v, now)
  <2>1. ASSUME NEW w \in Nat, w <= Len(log[t])
        PROVE  /\ LastAny(t, w)' = LastAny(t, w)
               /\ \A now : StaleClaim(t, w, now)' <=> StaleClaim(t, w, now)
    BY <2>1, <1>1, <1>2, <1>4, ViewKept
  <2>2. LastAny(t, v)' = LastAny(t, v)
    BY <2>1, <1>5 DEF LastAny, Newest, Is, At
  <2>3. ASSUME NEW now
        PROVE  StaleClaim(t, v, now)' <=> StaleClaim(t, v, now)
    <3>1. PICK w : w = v
      OBVIOUS
    <3>2. w \in Nat /\ w <= Len(log[t]) /\ w = v'
      BY <3>1, <1>5
    <3>3. StaleClaim(t, w, now)' <=> StaleClaim(t, w, now)
      BY <2>1, <3>2
    <3>4. StaleClaim(t, v, now) <=> StaleClaim(t, w, now)
      BY <3>1
    <3>5. StaleClaim(t, v, now)' <=> StaleClaim(t, w, now)'
      BY <3>2 DEF StaleClaim, Related, Holding, Is
    <3> QED
      BY <3>3, <3>4, <3>5
  <2> QED
    BY <2>2, <2>3
<1>8. v <= Len(log'[t])
  BY <1>4, <1>5, <1>6
<1> QED
  BY <1>3, <1>5, <1>7, <1>8 DEF Judged, v

LEMMA ActStep ==
  ASSUME TypeOK, ThreadsSound, ActSound, Next
  PROVE  ActSound'
<1>0. /\ "run" \in Threads /\ Run \in Thread /\ Run' \in Thread
      /\ clock \in Nat /\ clock' \in Nat /\ aged \in Nat
      /\ log \in [Topics -> Seq(Op)]
  BY NextTypes DEF TypeOK, Run, Threads, ExchangeTypeOK
<1>1. clock <= clock'
  BY LogGrows
<1>2. ASSUME UNCHANGED <<Run, aged>>
      PROVE  ActSound'
  <2>1. aged' <= clock' /\ Run'.now <= aged'
    BY <1>0, <1>1, <1>2 DEF ActSound
  <2>2. ASSUME Run'.pc = "act", NEW t \in Run'.at
        PROVE  Judged(t)'
    BY <1>2, <2>2, JudgedKept
  <2> QED
    BY <2>1, <2>2 DEF ActSound
<1>3. ASSUME UNCHANGED aged, Run'.pc # "act", Run'.now \in {0, Run.now, aged}
      PROVE  ActSound'
  BY <1>0, <1>1, <1>3 DEF ActSound, Thread
<1>4. ASSUME NEW x, Go("run", x)
      PROVE  Run' = x
  BY <1>4, Moves, <1>0 DEF Run
<1>5. ASSUME NEW x, Go("answer", x)
      PROVE  UNCHANGED Run
  BY <1>5, Moves DEF Run, Threads
<1>6. CASE Asker /\ UNCHANGED <<coming, signals, aged, memory, rounds, history>>
  BY <1>2, <1>6 DEF memory, Run
<1>7. ASSUME NEW r \in Responders,
             UNCHANGED <<coming, signals, aged, memory, rounds, history>>
      PROVE  ActSound'
  BY <1>2, <1>7 DEF memory, Run
<1>8. ASSUME NEW t \in Topics, Post(t) \/ Stored(t) \/ Signal(t)
      PROVE  ActSound'
  BY <1>2, <1>8 DEF Post, Stored, Signal, memory, Run
<1>9. CASE Age
  <2>1. UNCHANGED Run /\ aged' = clock /\ clock' = clock
    BY <1>9 DEF Age, memory, Run, exchange
  <2>2. aged' <= clock' /\ Run'.now <= aged'
    BY <2>1, <1>0 DEF ActSound, Thread
  <2>3. ASSUME Run'.pc = "act", NEW t \in Run'.at
        PROVE  Judged(t)'
    BY <2>1, <2>3, JudgedKept
  <2> QED
    BY <2>2, <2>3 DEF ActSound
<1>10. CASE Subscribe \/ Seed
  <2>1. UNCHANGED aged /\ \/ Run' = [Resting EXCEPT !.pc = "subscribed"]
                          \/ Run' = [Resting EXCEPT !.pc = "sweep", !.left = Topics]
    BY <1>10, <1>4 DEF Subscribe, Seed
  <2> QED
    BY <2>1, <1>3 DEF Resting
<1>11. CASE Asked \/ Search
  <2>1. UNCHANGED aged /\ (UNCHANGED Run \/ \E x : Go("answer", x))
    BY <1>11 DEF Asked, Search
  <2> QED
    BY <2>1, <1>2, <1>5
<1>12. ASSUME NEW th \in Threads, Refresh(th)
       PROVE  ActSound'
  <2>1. UNCHANGED aged
    BY <1>12 DEF Refresh, Read, ReadFails, Keep
  <2>2. CASE th = "answer"
    <3>1. \E x : Go("answer", x)
      BY <1>12, <2>2 DEF Refresh, Read, ReadFails, Keep
    <3> QED
      BY <3>1, <2>1, <1>2, <1>5
  <2>3. CASE th = "run"
    <3>1. CASE Read(th)
      <4>1. PICK t \in Run.left :
              Go("run", [Run EXCEPT !.pc = "keep", !.left = @ \ {t},
                                    !.at = {t}, !.view = Len(log[t])])
        BY <3>1, <2>3 DEF Read, Run
      <4>2. Run' = [Run EXCEPT !.pc = "keep", !.left = @ \ {t},
                               !.at = {t}, !.view = Len(log[t])]
        BY <4>1, <1>4
      <4>3. Run'.pc = "keep" /\ Run'.now = Run.now
        BY <4>2, <1>0 DEF Thread
      <4> QED
        BY <4>3, <2>1, <1>3
    <3>2. CASE ReadFails(th)
      <4>1. PICK t \in Run.left :
              Run.pc = "sweep" /\ Go("run", [Run EXCEPT !.left = @ \ {t}])
        BY <3>2, <2>3 DEF ReadFails, Run
      <4>2. Run' = [Run EXCEPT !.left = @ \ {t}]
        BY <4>1, <1>4
      <4>3. Run'.pc = "sweep" /\ Run'.now = Run.now
        BY <4>1, <4>2, <1>0 DEF Thread
      <4> QED
        BY <4>3, <2>1, <1>3
    <3>3. CASE Keep(th)
      <4>1. Go("run", [Run EXCEPT !.pc = "sweep", !.at = {}, !.view = 0])
        BY <3>3, <2>3 DEF Keep, Run
      <4>2. Run' = [Run EXCEPT !.pc = "sweep", !.at = {}, !.view = 0]
        BY <4>1, <1>4
      <4>3. Run'.pc = "sweep" /\ Run'.now = Run.now
        BY <4>2, <1>0 DEF Thread
      <4> QED
        BY <4>3, <2>1, <1>3
    <3> QED
      BY <1>12, <3>1, <3>2, <3>3 DEF Refresh
  <2> QED
    BY <2>2, <2>3 DEF Threads
<1>13. CASE Tick
  <2>1. /\ UNCHANGED aged
        /\ Run' = [Resting EXCEPT !.pc = "sweep", !.left = dirty, !.habit = 1]
    BY <1>13, <1>4 DEF Tick
  <2> QED
    BY <2>1, <1>3 DEF Resting
<1>14. CASE Refreshed
  <2>1. UNCHANGED aged /\ Run'.pc \in {"idle", "pass"} /\ Run'.now \in {0, Run.now}
    <3>1. /\ UNCHANGED aged
          /\ \/ thread' = [thread EXCEPT !["run"] = Idle, !["answer"] = Idle]
             \/ thread' = [thread EXCEPT !["run"].pc = "pass", !["run"].habit = 0]
      BY <1>14 DEF Refreshed
    <3>2. CASE thread' = [thread EXCEPT !["run"] = Idle, !["answer"] = Idle]
      <4>1. Run' = Idle
        BY <3>2, <1>0 DEF TypeOK, Run, Threads
      <4> QED
        BY <4>1, <3>1 DEF Idle, Resting
    <3>3. CASE thread' = [thread EXCEPT !["run"].pc = "pass", !["run"].habit = 0]
      BY <3>3, <3>1, <1>0 DEF TypeOK, Run, Thread
    <3> QED
      BY <3>1, <3>2, <3>3
  <2> QED
    BY <2>1, <1>3
<1>15. CASE NextHabit
  <2>1. UNCHANGED aged /\ \/ \E habit : Run' = Round(habit)
                          \/ Run' = Idle
    BY <1>15, <1>4 DEF NextHabit
  <2>2. \A habit : Round(habit).pc = "pass" /\ Round(habit).now = aged
    BY DEF Round, Resting
  <2>3. Idle.pc = "idle" /\ Idle.now = 0
    BY DEF Idle, Resting
  <2> QED
    BY <2>1, <2>2, <2>3, <1>3
<1>16. CASE Act
  <2>1. UNCHANGED aged /\ Run' = [Run EXCEPT !.pc = "pass", !.at = {}, !.view = 0]
    BY <1>16, <1>4 DEF Act
  <2>2. Run'.pc = "pass" /\ Run'.now = Run.now
    BY <2>1, <1>0 DEF Thread
  <2> QED
    BY <2>1, <2>2, <1>3
<1>17. CASE Dies
  <2>1. UNCHANGED aged /\ Run' = Resting
    BY <1>17, <1>0 DEF Dies, Run
  <2> QED
    BY <2>1, <1>3 DEF Resting
<1>18. CASE Judge
  <2>1. PICK t \in Run.left :
          /\ Run.pc = "pass" /\ UNCHANGED <<aged, clock, log>>
          /\ Go("run", IF StillWants(Run.habit, t, Len(log[t]), Run.now)
                       THEN [Run EXCEPT !.left = @ \ {t}, !.pc = "act",
                                        !.at = {t}, !.view = Len(log[t])]
                       ELSE [Run EXCEPT !.left = @ \ {t}])
    BY <1>18 DEF Judge, exchange
  <2>2. t \in Topics
    BY <1>0 DEF Thread
  <2>3. Run' = IF StillWants(Run.habit, t, Len(log[t]), Run.now)
               THEN [Run EXCEPT !.left = @ \ {t}, !.pc = "act",
                                !.at = {t}, !.view = Len(log[t])]
               ELSE [Run EXCEPT !.left = @ \ {t}]
    BY <2>1, <1>4
  <2>4. CASE ~StillWants(Run.habit, t, Len(log[t]), Run.now)
    <3>1. Run'.pc = "pass" /\ Run'.now = Run.now
      BY <2>1, <2>3, <2>4, <1>0 DEF Thread
    <3> QED
      BY <3>1, <2>1, <1>3
  <2>5. CASE StillWants(Run.habit, t, Len(log[t]), Run.now)
    <3>1. /\ Run'.pc = "act" /\ Run'.at = {t} /\ Run'.view = Len(log[t])
          /\ Run'.now = Run.now /\ Run'.habit = Run.habit
      BY <2>3, <2>5, <1>0 DEF Thread
    <3>2. Len(log[t]) \in Nat
      BY <2>2, <1>0
    <3>3. /\ Run.habit = 3 => LastAny(t, Len(log[t])) <= Run.now
          /\ Run.habit = 4 => StaleClaim(t, Len(log[t]), Run.now)
      BY <2>2, <2>5, <3>2 DEF StillWants, Wants, DormantEligible, Blank
    <3>4. /\ (Run.habit = 3 => LastAny(t, Run.view) <= Run.now)'
          /\ (Run.habit = 4 => StaleClaim(t, Run.view, Run.now))'
      <4>1. (Run.habit = 3 => LastAny(t, Run.view) <= Run.now)'
        BY <2>1, <3>1, <3>3 DEF LastAny, Newest, Is, At
      <4>2. (Run.habit = 4 => StaleClaim(t, Run.view, Run.now))'
        BY <2>1, <3>1, <3>3 DEF StaleClaim, Related, Holding, Is
      <4> QED
        BY <4>1, <4>2
    <3>5. (Run.view <= Len(log[t]))'
      BY <2>1, <3>1, <3>2
    <3>6. Judged(t)'
      BY <3>4, <3>5 DEF Judged
    <3> QED
      BY <3>1, <3>6, <2>1, <1>0, <1>1 DEF ActSound
  <2> QED
    BY <2>4, <2>5
<1> QED
  BY <1>6, <1>7, <1>8, <1>9, <1>10, <1>11, <1>12, <1>13, <1>14, <1>15, <1>16,
     <1>17, <1>18 DEF Next, Rounds

(* A note is left only by Act, on the topic judged.                        *)
LEMMA OwnGrowsByAct ==
  ASSUME TypeOK, Next, own' # own
  PROVE  Act
<1>1. \A t \in Topics : Post(t) \/ Stored(t) \/ Signal(t) => UNCHANGED own
  BY DEF Post, Stored, Signal, history
<1>2. Age \/ Subscribe \/ Seed \/ Asked \/ Search => UNCHANGED own
  BY DEF Age, Subscribe, Seed, Asked, Search, history
<1>3. \A th \in Threads : Refresh(th) => UNCHANGED own
  BY DEF Refresh, Read, ReadFails, Keep, history
<1>4. Tick \/ Refreshed \/ Judge \/ NextHabit \/ Dies => UNCHANGED own
  BY DEF Tick, Refreshed, Judge, NextHabit, Dies, history
<1> QED
  BY <1>1, <1>2, <1>3, <1>4 DEF Next, Rounds, history

LEMMA ActsFresh ==
  ASSUME TypeOK, ThreadsSound, ActSound, Next,
         NEW t \in Topics, NEW i \in {Len(log'[t])},
         <<t, i>> \in own' \ own, Len(log[t]) = Run.view
  PROVE  /\ log'[t][i].kind = "mark" => LastAny(t, Len(log[t])) <= aged
         /\ log'[t][i].kind = "drop" =>
              /\ \A j \in 1 .. Len(log[t]) :
                   /\ log[t][j].kind # "done"
                   /\ log[t][j].item => log[t][j].at <= aged
              /\ \E j \in 1 .. Len(log[t]) :
                   /\ log[t][j].kind = "claim"
                   /\ \A k \in j .. Len(log[t]) : log[t][k].kind # "drop"
<1>0. /\ Run \in Thread /\ log \in [Topics -> Seq(Op)]
      /\ clock \in Nat /\ aged \in Nat
  BY DEF TypeOK, Run, Threads, ExchangeTypeOK
<1>1. PICK u \in Run.at :
        /\ Run.pc = "act" /\ Published(u, Note(Run.habit))
        /\ own' = own \union {<<u, Len(log[u]) + 1>>}
  BY OwnGrowsByAct DEF Act
<1>2. u = t /\ i = Len(log[t]) + 1
  BY <1>1
<1>3. Run.habit \in {1, 2, 3, 4}
  BY <1>0, <1>1 DEF ThreadsSound, Thread
<1>4. Note(Run.habit) \in Kinds
  BY <1>3 DEF Note, Kinds
<1>5. log'[t][i].kind = Note(Run.habit)
  BY <1>0, <1>1, <1>2, <1>4, Appends
<1> DEFINE view == log[t]
<1>5a. \A j \in 1 .. Len(view) : view[j].at \in Nat
  <2>1. view \in Seq(Op)
    BY <1>0
  <2> HIDE DEF view
  <2>2. \A j \in 1 .. Len(view) : view[j] \in Op
    BY <2>1
  <2> QED
    BY <2>2 DEF Op
<1>6. /\ Note(Run.habit) = "mark" => Run.habit = 3
      /\ Note(Run.habit) = "drop" => Run.habit = 4
  BY <1>3 DEF Note
<1>7. Judged(t) /\ Run.now <= aged /\ Run.now \in Nat
  BY <1>0, <1>1, <1>2 DEF ActSound, Thread
<1>8. ASSUME Run.habit = 3
      PROVE  LastAny(t, Len(log[t])) <= aged
  <2>1. LastAny(t, Len(log[t])) <= Run.now
    BY <1>7, <1>8 DEF Judged
  <2>2. LastAny(t, Len(log[t])) \in Nat
    <3> DEFINE S == Is(t, Len(log[t]), Kinds \ {"mark", "close"})
               m == Latest(S)
    <3>1. m \in S \/ m = 0
      BY LatestOf
    <3>2. S \subseteq 1 .. Len(log[t])
      BY DEF Is
    <3>3. LastAny(t, Len(log[t])) = IF m = 0 THEN 0 ELSE log[t][m].at
      BY DEF LastAny, Newest, At
    <3> HIDE DEF m, S
    <3>4. m \in 1 .. Len(log[t]) \/ m = 0
      BY <3>1, <3>2, Zenon
    <3> QED
      BY <3>3, <3>4, <1>5a
  <2> QED
    BY <2>1, <2>2, <1>0, <1>7
<1>9. ASSUME Run.habit = 4
      PROVE  /\ \A j \in 1 .. Len(log[t]) :
                  /\ log[t][j].kind # "done"
                  /\ log[t][j].item => log[t][j].at <= aged
             /\ \E j \in 1 .. Len(log[t]) :
                  /\ log[t][j].kind = "claim"
                  /\ \A k \in j .. Len(log[t]) : log[t][k].kind # "drop"
  <2>1. StaleClaim(t, Len(log[t]), Run.now) /\ Len(log[t]) \in Nat
    BY <1>0, <1>7, <1>9 DEF Judged
  <2>2. PICK h \in Holding(t, Len(log[t])) : TRUE
    BY <2>1 DEF StaleClaim
  <2>3. /\ h \in 1 .. Len(log[t]) /\ log[t][h].kind = "claim"
        /\ \A k \in 1 .. Len(log[t]) : log[t][k].kind = "drop" => k < h
        /\ \A j \in 1 .. Len(log[t]) : log[t][j].kind # "done"
    BY <2>2 DEF Holding, Is
  <2>4. \A k \in h .. Len(log[t]) : log[t][k].kind # "drop"
    BY <2>1, <2>3
  <2>5. \A j \in 1 .. Len(log[t]) : log[t][j].item => log[t][j].at <= aged
    <3> SUFFICES ASSUME NEW j \in 1 .. Len(log[t]), log[t][j].item
                 PROVE  log[t][j].at <= aged
      OBVIOUS
    <3>1. log[t][j].at <= Run.now
      BY <2>1 DEF StaleClaim, Related
    <3>2. log[t][j].at \in Nat
      BY <1>5a
    <3> QED
      BY <3>1, <3>2, <1>0, <1>7
  <2> QED
    BY <2>3, <2>4, <2>5
<1> QED
  BY <1>5, <1>6, <1>8, <1>9

(* The curator marks a topic dormant, or gives work back, only on what the *)
(* topic says as it was last read: nothing the memory holds, and nothing   *)
(* that happened between the round's refresh and the reading, can make it  *)
(* mark a topic where something just happened, or take from its holder an  *)
(* item that is done, or that anybody - by a losing claim, by a comment -  *)
(* showed lately to be at.                                                 *)
THEOREM ActsOnWhatItRead == Spec => ActsOnFresh
<1>1. Init => ActSound
  <2> SUFFICES ASSUME Init PROVE ActSound
    OBVIOUS
  <2>1. Run = Resting /\ aged = 0 /\ clock \in Nat
    BY InitTypes DEF Init, TypeOK, ExchangeTypeOK, Run, Threads
  <2> QED
    BY <2>1 DEF ActSound, Resting
<1>2. CuratorInv /\ ActSound /\ [Next]_vars => ActSound'
  <2> SUFFICES ASSUME CuratorInv, ActSound, [Next]_vars PROVE ActSound'
    OBVIOUS
  <2>1. CASE Next
    BY <2>1, ActStep DEF CuratorInv
  <2>2. CASE UNCHANGED vars
    <3>1. UNCHANGED <<log, clock, aged, thread>>
      BY <2>2 DEF vars, exchange, memory
    <3>2. ASSUME NEW t
          PROVE  Judged(t)' <=> Judged(t)
      BY <3>1 DEF Judged, Run, LastAny, StaleClaim, Related, Newest, Holding, Is,
         At, Latest, IsLatest
    <3> QED
      BY <3>1, <3>2 DEF ActSound, Run
  <2> QED
    BY <2>1, <2>2
<1>3. CuratorInv /\ ActSound /\ [Next]_vars =>
        [\A t \in Topics : \A i \in {Len(log'[t])} :
           <<t, i>> \in own' \ own /\ Len(log[t]) = Run.view =>
             /\ log'[t][i].kind = "mark" => LastAny(t, Len(log[t])) <= aged
             /\ log'[t][i].kind = "drop" =>
                  /\ \A j \in 1 .. Len(log[t]) :
                       /\ log[t][j].kind # "done"
                       /\ log[t][j].item => log[t][j].at <= aged
                  /\ \E j \in 1 .. Len(log[t]) :
                       /\ log[t][j].kind = "claim"
                       /\ \A k \in j .. Len(log[t]) : log[t][k].kind # "drop"]_vars
  BY ActsFresh DEF CuratorInv
<1> QED
  BY <1>1, <1>2, <1>3, Invariant, PTL DEF Spec, ActsOnFresh

(***************************************************************************)
(* Never repeating itself                                                  *)
(***************************************************************************)

(* A set of numbers has a least one, unless it is empty.                   *)
LEMMA Least ==
  ASSUME NEW T, T \subseteq Nat, T # {}
  PROVE  \E x \in T : \A y \in T : x <= y
<1> DEFINE R == OpToRel(<, Nat)
<1>1. IsWellFoundedOn(R, Nat)
  BY NatLessThanWellFounded
<1>2. ASSUME NEW x \in Nat, NEW y \in Nat, <<y, x>> \notin R
      PROVE  x <= y
  BY <1>2 DEF OpToRel
<1> HIDE DEF R
<1>3. \E x \in T : \A y \in T : ~ (<<y, x>> \in R)
  BY <1>1, WFMin
<1> QED
  BY <1>2, <1>3

(* A set of places in a topic has a latest one, unless it is empty.        *)
LEMMA LatestIs ==
  ASSUME NEW n \in Nat, NEW S, S \subseteq 1 .. n
  PROVE  IF S = {} THEN Latest(S) = 0 ELSE IsLatest(Latest(S), S)
<1>0. \A i \in S : i \in 1 .. n
  OBVIOUS
<1>1. CASE S = {}
  BY <1>1 DEF Latest, IsLatest
<1>2. CASE S # {}
  <2> DEFINE T == {n - i : i \in S}
  <2>1. \A i \in S : n - i \in Nat
    BY <1>0
  <2>2. T \subseteq Nat
    BY <2>1
  <2>3. \A j \in S : n - j \in T
    OBVIOUS
  <2>4. PICK x \in T : \A y \in T : x <= y
    BY <1>2, <2>2, <2>3, Least
  <2>5. PICK i \in S : x = n - i
    OBVIOUS
  <2> HIDE DEF T
  <2>6. \A j \in S : x <= n - j /\ j \in 1 .. n
    BY <1>0, <2>3, <2>4
  <2>7. IsLatest(i, S)
    BY <2>5, <2>6 DEF IsLatest
  <2>8. \E k \in S : IsLatest(k, S)
    BY <2>7
  <2> QED
    BY <1>2, <2>8 DEF Latest
<1> QED
  BY <1>1, <1>2

(* The time of the newest operation of some kinds, in a topic as read.     *)
NewestOf(ops, v, kinds) ==
  LET m == Latest({i \in 1 .. v : ops[i].kind \in kinds})
  IN  IF m = 0 THEN 0 ELSE ops[m].at

(* Every operation has a time of its own, in the order of the log.         *)
InOrder(ops, now) ==
  /\ \A i \in 1 .. Len(ops) : ops[i].at \in 1 .. now
  /\ \A i, j \in 1 .. Len(ops) : i < j => ops[i].at < ops[j].at

LEMMA NewestIs ==
  ASSUME NEW ops \in Seq(Op), NEW now \in Nat, InOrder(ops, now),
         NEW v \in 0 .. Len(ops), NEW kinds
  PROVE  LET S == {i \in 1 .. v : ops[i].kind \in kinds}
             new == NewestOf(ops, v, kinds)
         IN  /\ new \in Nat
             /\ \A i \in S : ops[i].at <= new
             /\ S = {} => new = 0
             /\ S # {} => \E i \in S : ops[i].at = new
<1> DEFINE S == {i \in 1 .. v : ops[i].kind \in kinds}
           m == Latest(S)
<1>1. v \in Nat /\ Len(ops) \in Nat /\ S \subseteq 1 .. v
      /\ 1 .. v \subseteq 1 .. Len(ops)
  OBVIOUS
<1>2. NewestOf(ops, v, kinds) = IF m = 0 THEN 0 ELSE ops[m].at
  BY DEF NewestOf
<1>3. \A i \in S : i \in 1 .. Len(ops) /\ ops[i].at \in Nat
  BY <1>1 DEF InOrder
<1> HIDE DEF S
<1>4. IF S = {} THEN m = 0 ELSE IsLatest(m, S)
  BY <1>1, LatestIs
<1> HIDE DEF m
<1>5. CASE S = {}
  BY <1>2, <1>4, <1>5 DEF S
<1>6. CASE S # {}
  <2>1. m \in S /\ \A i \in S : i <= m
    BY <1>4, <1>6 DEF IsLatest
  <2>2. m \in 1 .. Len(ops) /\ m # 0
    BY <2>1, <1>3
  <2>3. NewestOf(ops, v, kinds) = ops[m].at
    BY <1>2, <2>2
  <2>4. ASSUME NEW i \in S PROVE ops[i].at <= ops[m].at
    <3>1. /\ i \in 1 .. Len(ops) /\ i <= m
          /\ ops[i].at \in Nat /\ ops[m].at \in Nat
      BY <1>3, <2>1
    <3>2. i = m \/ i < m
      BY <3>1, <2>2
    <3> QED
      BY <3>1, <3>2, <2>2 DEF InOrder
  <2> QED
    BY <2>1, <2>3, <2>4, <1>3, <1>6 DEF S
<1> QED
  BY <1>5, <1>6

(* The newest of a topic is no older than the newest of what it was.       *)
LEMMA NewestGrows ==
  ASSUME NEW ops \in Seq(Op), NEW now \in Nat, InOrder(ops, now),
         NEW more \in Seq(Op), NEW then \in Nat, InOrder(more, then),
         NEW v \in 0 .. Len(ops), NEW w \in 0 .. Len(more), v <= w,
         \A i \in 1 .. v : more[i] = ops[i], NEW kinds
  PROVE  NewestOf(ops, v, kinds) <= NewestOf(more, w, kinds)
<1> DEFINE S == {i \in 1 .. v : ops[i].kind \in kinds}
           W == {i \in 1 .. w : more[i].kind \in kinds}
           old == NewestOf(ops, v, kinds)
           new == NewestOf(more, w, kinds)
<1>1. /\ old \in Nat /\ (S = {} => old = 0)
      /\ S # {} => \E i \in S : ops[i].at = old
  BY NewestIs
<1>2. new \in Nat /\ \A i \in W : more[i].at <= new
  BY NewestIs
<1>3. \A i \in S : i \in W /\ more[i].at = ops[i].at
  OBVIOUS
<1> HIDE DEF S, W, old, new
<1>4. S = {} => old <= new
  BY <1>1, <1>2
<1>5. S # {} => old <= new
  BY <1>1, <1>2, <1>3
<1> QED
  BY <1>4, <1>5 DEF old, new

LEMMA NewestInLog ==
  ASSUME NEW t, NEW v, NEW kinds
  PROVE  Newest(t, v, kinds) = NewestOf(log[t], v, kinds)
BY DEF Newest, At, Is, NewestOf

Timely == \A t \in Topics : InOrder(log[t], clock)

LEMMA InitTimely == Init => Timely
<1> SUFFICES ASSUME Init, NEW t \in Topics PROVE InOrder(log[t], clock)
  BY DEF Timely
<1> DEFINE started == {u \in Topics : scene.start[u] = 1}
           before == {u \in Topics : scene.start[u] = 1 /\ u <= t}
<1>1. /\ clock = Cardinality(started) /\ scene \in Scenario
      /\ log[t] = IF scene.start[t] = 0 THEN <<>>
                  ELSE <<[kind |-> "baseline", at |-> Cardinality(before),
                          item |-> FALSE]>>
  BY ExchangeAssumption DEF Init, ExchangeInit
<1>2. CASE scene.start[t] = 0
  <2>1. log[t] = <<>>
    BY <1>1, <1>2
  <2> QED
    BY <2>1 DEF InOrder
<1>3. CASE scene.start[t] # 0
  <2>1. scene.start[t] = 1 /\ t \in Nat
    BY <1>1, <1>3, ExchangeAssumption DEF Scenario
  <2>2. t \in before /\ before \subseteq started /\ started \subseteq Topics
    BY <2>1
  <2> DEFINE n == Cardinality(before)
  <2>3. IsFiniteSet(started) /\ IsFiniteSet(before)
    BY <2>2, ExchangeAssumption, FS_Subset
  <2> HIDE DEF started, before
  <2>4. n \in Nat /\ n <= Cardinality(started) /\ Cardinality(started) \in Nat
    BY <2>2, <2>3, FS_Subset, FS_CardinalityType
  <2>5. n # 0
    BY <2>2, <2>3, FS_EmptySet
  <2>6. log[t] = <<[kind |-> "baseline", at |-> n, item |-> FALSE]>>
    BY <1>1, <1>3
  <2> HIDE DEF n
  <2>7. n \in 1 .. clock
    BY <2>4, <2>5, <1>1
  <2>8. Len(log[t]) = 1 /\ log[t][1].at = n
    BY <2>6
  <2> QED
    BY <2>7, <2>8 DEF InOrder
<1> QED
  BY <1>2, <1>3

LEMMA TimelyStep ==
  ASSUME TypeOK, ThreadsSound, Timely, Next
  PROVE  Timely'
<1>0. log \in [Topics -> Seq(Op)] /\ clock \in Nat
  BY DEF TypeOK, ExchangeTypeOK
<1>1. CASE UNCHANGED <<log, clock>>
  BY <1>1 DEF Timely, InOrder
<1>2. ASSUME NEW u \in Topics, NEW kind \in Kinds, Published(u, kind),
             NEW t \in Topics
      PROVE  InOrder(log[t], clock)'
  <2>1. PICK item \in BOOLEAN :
          /\ clock' = clock + 1 /\ log[t] \in Seq(Op)
          /\ \/ log'[t] = log[t]
             \/ log'[t] = Append(log[t], [kind |-> kind, at |-> clock + 1,
                                          item |-> item])
    BY <1>0, <1>2 DEF Published, About
  <2>2. /\ \A i \in 1 .. Len(log[t]) : log[t][i].at \in 1 .. clock
        /\ \A i, j \in 1 .. Len(log[t]) : i < j => log[t][i].at < log[t][j].at
    BY DEF Timely, InOrder
  <2>3. CASE log'[t] = log[t]
    BY <2>1, <2>2, <2>3, <1>0 DEF InOrder
  <2>4. CASE log'[t] = Append(log[t], [kind |-> kind, at |-> clock + 1,
                                       item |-> item])
    <3> DEFINE n == Len(log[t])
    <3>1. /\ n \in Nat /\ Len(log'[t]) = n + 1
          /\ log'[t][n + 1].at = clock + 1
          /\ \A i \in 1 .. n : log'[t][i] = log[t][i]
      BY <2>1, <2>4
    <3>2. \A i \in 1 .. (n + 1) : i = n + 1 \/ i \in 1 .. n
      BY <3>1
    <3> HIDE DEF n
    <3>3. \A i \in 1 .. n : log'[t][i].at \in 1 .. clock
      BY <2>2, <3>1 DEF n
    <3>4. \A i \in 1 .. (n + 1) : log'[t][i].at \in 1 .. clock'
      BY <2>1, <3>1, <3>2, <3>3, <1>0
    <3>5. ASSUME NEW i \in 1 .. (n + 1), NEW j \in 1 .. (n + 1), i < j
          PROVE  log'[t][i].at < log'[t][j].at
      <4>1. i \in 1 .. n
        BY <3>1, <3>2, <3>5
      <4>2. CASE j = n + 1
        BY <4>1, <4>2, <3>1, <3>3, <1>0
      <4>3. CASE j \in 1 .. n
        BY <4>1, <4>3, <3>1, <3>5, <2>2 DEF n
      <4> QED
        BY <4>2, <4>3, <3>2
    <3> QED
      BY <3>1, <3>4, <3>5 DEF InOrder
  <2> QED
    BY <2>1, <2>3, <2>4
<1> QED
  BY <1>1, <1>2, LogStep DEF Timely

(* A goroutine that sweeps is about to keep a view of topic t up to j.     *)
Brings(x, t, j) ==
  /\ x.pc \in {"sweep", "keep"}
  /\ t \in x.left \/ (t \in x.at /\ j <= x.view)

(* What the curator left itself is in its memory, or its answering         *)
(* goroutine brings it there, or a race is on record.                      *)
Known(t, j) ==
  \/ j <= cache[t]
  \/ excused[t] # {}
  \/ Brings(thread["answer"], t, j)

(* Otherwise the round in progress brings it; or it is from this round,    *)
(* and the topic is marked for the next.                                   *)
NotesUpTo(habit) == {Note(h) : h \in 1 .. habit}
Filed(t, j) ==
  \/ Known(t, j)
  \/ Brings(Run, t, j)
  \/ Run.pc = "idle" /\ t \in dirty
  \/ /\ Run.pc \in {"pass", "act"} /\ t \in dirty
     /\ log[t][j].kind \in NotesUpTo(Run.habit)

(* No note of its own speaks against what the pass is about to do.         *)
Quiet(t) ==
  \A j \in 1 .. Len(log[t]) :
    <<t, j>> \in own =>
      /\ Run.habit = 1 => log[t][j].kind # "flag"
      /\ Run.habit = 2 /\ log[t][j].kind = "nudge" =>
           log[t][j].at < LastReal(t, Len(log[t]))

(* The places of its notes; what its memory holds; where a pass stands.    *)
OwnPlaces ==
  \A t \in Topics, j \in Nat : <<t, j>> \in own => j \in 1 .. Len(log[t])
CacheHeld == \A t \in Topics : cache[t] <= Len(log[t])
PassHeld ==
  /\ Run.pc = "pass" => Run.at = {}
  /\ Run.pc = "act" => Run.left \cap Run.at = {}
OwnFiled ==
  Ready => \A t \in Topics, j \in Nat : <<t, j>> \in own => Filed(t, j)
OwnQuiet ==
  Run.pc \in {"pass", "act"} =>
    \A t \in (Run.left \union Run.at) \ blurred : Quiet(t)

OwnSound == Timely /\ OwnPlaces /\ CacheHeld /\ PassHeld /\ OwnFiled /\ OwnQuiet

(* How a step moves a goroutine that refreshes the memory.                 *)
LEMMA ReadMoves ==
  ASSUME TypeOK, ThreadsSound, NEW th \in Threads, Read(th)
  PROVE  \E s \in thread[th].left :
           /\ thread[th].pc = "sweep" /\ thread'[th].pc = "keep"
           /\ thread'[th].left = thread[th].left \ {s}
           /\ thread'[th].at = {s} /\ thread'[th].view = Len(log[s])
           /\ \A o \in Threads : o # th => thread'[o] = thread[o]
           /\ UNCHANGED <<log, cache, dirty, excused, own, blurred>>
<1>0. thread[th] \in Thread
  BY DEF TypeOK
<1>1. PICK s \in thread[th].left :
        Go(th, [thread[th] EXCEPT !.pc = "keep", !.left = @ \ {s},
                                  !.at = {s}, !.view = Len(log[s])])
  BY DEF Read
<1>2. /\ thread[th].pc = "sweep"
      /\ UNCHANGED <<log, cache, dirty, excused, own, blurred>>
  BY DEF Read, exchange, history
<1>3. /\ thread'[th] = [thread[th] EXCEPT !.pc = "keep", !.left = @ \ {s},
                                  !.at = {s}, !.view = Len(log[s])]
      /\ \A o \in Threads : o # th => thread'[o] = thread[o]
  BY <1>1, Moves
<1>4. /\ thread'[th].pc = "keep" /\ thread'[th].left = thread[th].left \ {s}
      /\ thread'[th].at = {s} /\ thread'[th].view = Len(log[s])
  BY <1>0, <1>3 DEF Thread
<1> QED
  BY <1>2, <1>3, <1>4

LEMMA FailMoves ==
  ASSUME TypeOK, ThreadsSound, NEW th \in Threads, ReadFails(th)
  PROVE  \E s \in thread[th].left :
           /\ thread[th].pc = "sweep" /\ thread'[th].pc = "sweep"
           /\ thread'[th].left = thread[th].left \ {s}
           /\ thread'[th].at = thread[th].at
           /\ thread'[th].view = thread[th].view
           /\ \A o \in Threads : o # th => thread'[o] = thread[o]
           /\ s \in Topics /\ dirty' = dirty \union {s}
           /\ excused'[s] # {}
           /\ \A t \in Topics : excused[t] \subseteq excused'[t]
           /\ UNCHANGED <<log, cache, own, blurred>>
<1>0. thread[th] \in Thread
  BY DEF TypeOK
<1>1. PICK s \in thread[th].left :
        /\ dirty' = dirty \union {s} /\ excused' = Lately("behind", {s})
        /\ Go(th, [thread[th] EXCEPT !.left = @ \ {s}])
  BY DEF ReadFails
<1>2. /\ thread[th].pc = "sweep" /\ UNCHANGED <<log, cache, own, blurred>>
  BY DEF ReadFails, exchange
<1>3. /\ thread'[th] = [thread[th] EXCEPT !.left = @ \ {s}]
      /\ \A o \in Threads : o # th => thread'[o] = thread[o]
  BY <1>1, Moves
<1>4. /\ thread'[th].pc = "sweep" /\ thread'[th].left = thread[th].left \ {s}
      /\ thread'[th].at = thread[th].at /\ thread'[th].view = thread[th].view
  BY <1>0, <1>2, <1>3 DEF Thread
<1>5. s \in Topics
  BY <1>0 DEF Thread
<1>6. excused'[s] # {} /\ \A t \in Topics : excused[t] \subseteq excused'[t]
  BY <1>1, <1>5 DEF Lately
<1> QED
  BY <1>1, <1>2, <1>3, <1>4, <1>5, <1>6

(* What is kept may be older than what was there: that is on record.       *)
LEMMA KeepMoves ==
  ASSUME TypeOK, ThreadsSound, NEW th \in Threads, Keep(th)
  PROVE  \E s \in Topics :
           /\ thread[th].pc = "keep" /\ thread[th].at = {s}
           /\ thread'[th].pc = "sweep" /\ thread'[th].left = thread[th].left
           /\ thread'[th].at = {}
           /\ \A o \in Threads : o # th => thread'[o] = thread[o]
           /\ thread[th].view \in Nat /\ thread[th].view <= Len(log[s])
           /\ cache' = [cache EXCEPT ![s] = thread[th].view]
           /\ thread[th].view < cache[s] => excused'[s] # {}
           /\ \/ excused[s] \subseteq excused'[s]
              \/ thread[th].view = Len(log[s])
           /\ \A t \in Topics \ {s} : excused'[t] = excused[t]
           /\ UNCHANGED <<log, dirty, own, blurred>>
<1>0. /\ thread[th] \in Thread
      /\ excused \in [Topics -> SUBSET {"stale", "behind"}]
  BY DEF TypeOK
<1>1. PICK s \in thread[th].at :
        /\ cache' = [cache EXCEPT ![s] = thread[th].view]
        /\ excused' = IF thread[th].view < cache[s] THEN Lately("stale", {s})
                      ELSE IF thread[th].view = Len(log[s])
                      THEN [excused EXCEPT ![s] = {}] ELSE excused
        /\ Go(th, [thread[th] EXCEPT !.pc = "sweep", !.at = {}, !.view = 0])
  BY DEF Keep
<1>2. /\ thread[th].pc = "keep" /\ UNCHANGED <<log, dirty, own, blurred>>
  BY DEF Keep, exchange
<1>3. /\ thread'[th] = [thread[th] EXCEPT !.pc = "sweep", !.at = {}, !.view = 0]
      /\ \A o \in Threads : o # th => thread'[o] = thread[o]
  BY <1>1, Moves
<1>4. /\ thread'[th].pc = "sweep" /\ thread'[th].left = thread[th].left
      /\ thread'[th].at = {}
  BY <1>0, <1>3 DEF Thread
<1>5. /\ thread[th].at = {s} /\ thread[th].view <= Len(log[s])
      /\ s \in Topics /\ thread[th].view \in Nat
  BY <1>0, <1>2 DEF ThreadsSound, Thread
<1>6. /\ thread[th].view < cache[s] => excused'[s] # {}
      /\ excused[s] \subseteq excused'[s] \/ thread[th].view = Len(log[s])
      /\ \A t \in Topics \ {s} : excused'[t] = excused[t]
  BY <1>0, <1>1, <1>5 DEF Lately
<1> QED
  BY <1>1, <1>2, <1>3, <1>4, <1>5, <1>6

(* What is kept, or about to be, stays known.                              *)
LEMMA KeepStored ==
  ASSUME TypeOK, ThreadsSound, NEW th \in Threads, Keep(th),
         NEW t \in Topics, NEW j \in 1 .. Len(log[t]),
         \/ j <= cache[t] \/ excused[t] # {}
         \/ t \in thread[th].at /\ j <= thread[th].view
  PROVE  j <= cache'[t] \/ excused'[t] # {}
<1>1. PICK s \in Topics :
           /\ thread[th].pc = "keep" /\ thread[th].at = {s}
           /\ thread[th].view \in Nat /\ thread[th].view <= Len(log[s])
           /\ cache' = [cache EXCEPT ![s] = thread[th].view]
           /\ thread[th].view < cache[s] => excused'[s] # {}
           /\ excused[s] \subseteq excused'[s] \/ thread[th].view = Len(log[s])
           /\ \A u \in Topics \ {s} : excused'[u] = excused[u]
  BY KeepMoves
<1>2. cache \in [Topics -> Nat] /\ Len(log[t]) \in Nat
  BY DEF TypeOK, ExchangeTypeOK
<1>3. CASE t # s
  BY <1>1, <1>2, <1>3
<1>4. CASE t = s
  <2>1. cache'[t] = thread[th].view
    BY <1>1, <1>2, <1>4
  <2>2. CASE j <= cache[t]
    BY <2>1, <2>2, <1>1, <1>2, <1>4
  <2>3. CASE excused[t] # {}
    BY <2>1, <2>3, <1>1, <1>2, <1>4
  <2>4. CASE j <= thread[th].view
    BY <2>1, <2>4
  <2> QED
    BY <2>2, <2>3, <2>4
<1> QED
  BY <1>3, <1>4

LEMMA KeepKnows ==
  ASSUME TypeOK, ThreadsSound, NEW th \in Threads, Keep(th),
         NEW t \in Topics, NEW j \in 1 .. Len(log[t]), Brings(thread[th], t, j)
  PROVE  j <= cache'[t] \/ excused'[t] # {} \/ Brings(thread'[th], t, j)
<1>1. CASE t \in thread[th].at /\ j <= thread[th].view
  BY <1>1, KeepStored
<1>2. CASE t \in thread[th].left
  BY <1>2, KeepMoves DEF Brings
<1> QED
  BY <1>1, <1>2 DEF Brings

(* What is known of a note stays known.                                    *)
LEMMA KnownStays ==
  ASSUME TypeOK, ThreadsSound, Next, ~Dies,
         NEW t \in Topics, NEW j \in 1 .. Len(log[t]), Known(t, j)
  PROVE  Known(t, j)'
<1>0. /\ "run" \in Threads /\ "answer" \in Threads
      /\ \A th \in Threads : th = "run" \/ th = "answer"
      /\ excused \in [Topics -> SUBSET {"stale", "behind"}]
      /\ Len(log[t]) \in Nat
  BY DEF Threads, TypeOK, ExchangeTypeOK
<1>1. ASSUME thread'["answer"] = thread["answer"], UNCHANGED cache,
             excused[t] \subseteq excused'[t]
      PROVE  Known(t, j)'
  BY <1>1 DEF Known, Brings
<1>2. ASSUME ~Brings(thread["answer"], t, j), UNCHANGED cache,
             excused[t] \subseteq excused'[t]
      PROVE  Known(t, j)'
  BY <1>2 DEF Known
<1>3. ASSUME NEW x, Go("run", x), UNCHANGED cache,
             excused[t] \subseteq excused'[t]
      PROVE  Known(t, j)'
  BY <1>3, <1>0, <1>1, Moves
<1>4. CASE Aside
  BY <1>4, <1>1 DEF Aside, memory, history
<1>5. ASSUME NEW s \in Topics, Post(s) \/ Stored(s) \/ Signal(s)
      PROVE  Known(t, j)'
  <2>1. /\ UNCHANGED <<thread, cache>>
        /\ excused' = excused \/ excused' = Lately("stale", {s})
    BY <1>5 DEF Post, Stored, Signal, memory, history
  <2>2. excused[t] \subseteq excused'[t]
    BY <2>1, <1>0 DEF Lately
  <2> QED
    BY <2>1, <2>2, <1>1
<1>6. CASE Age
  BY <1>6, <1>1 DEF Age, memory, history
<1>7. CASE Subscribe \/ Seed \/ Tick \/ NextHabit
  <2>1. (\E x : Go("run", x)) /\ UNCHANGED <<cache, excused>>
    BY <1>7 DEF Subscribe, Seed, Tick, NextHabit, history
  <2> QED
    BY <2>1, <1>3
<1>8. CASE Judge
  <2>1. (\E x : Go("run", x)) /\ UNCHANGED <<cache, excused>>
    BY <1>8, Zenon DEF Judge, history
  <2> QED
    BY <2>1, <1>3
<1>9. CASE Act
  <2>1. /\ \E x : Go("run", x)
        /\ UNCHANGED cache
        /\ \E s : excused' = excused \/ excused' = Lately("behind", {s})
    BY <1>9, Zenon DEF Act
  <2>2. excused[t] \subseteq excused'[t]
    BY <2>1, <1>0 DEF Lately
  <2> QED
    BY <2>1, <2>2, <1>3
<1>10. CASE Asked
  <2>1. ~Brings(thread["answer"], t, j) /\ UNCHANGED <<cache, excused>>
    BY <1>10 DEF Asked, Brings, history
  <2> QED
    BY <2>1, <1>2
<1>11. CASE Search
  <2>1. ~Brings(thread["answer"], t, j) /\ UNCHANGED <<cache, excused>>
    BY <1>11, <1>0 DEF Search, Swept, Brings, history, ThreadsSound
  <2> QED
    BY <2>1, <1>2
<1>12. CASE Refreshed
  <2>1. UNCHANGED <<cache, excused>> /\ Run.pc = "sweep"
    BY <1>12 DEF Refreshed, history, Swept, Run
  <2>2. CASE Run.habit = 0
    <3>1. ~Brings(thread["answer"], t, j)
      BY <2>1, <2>2 DEF ThreadsSound, Brings
    <3> QED
      BY <2>1, <3>1, <1>2
  <2>3. CASE Run.habit # 0
    <3>1. thread'["answer"] = thread["answer"]
      BY <2>3, <1>0, <1>12 DEF Refreshed, TypeOK
    <3> QED
      BY <2>1, <3>1, <1>1
  <2> QED
    BY <2>2, <2>3
<1>13. ASSUME NEW th \in Threads, Read(th)
       PROVE  Known(t, j)'
  <2>1. PICK s \in thread[th].left :
           /\ thread[th].pc = "sweep" /\ thread'[th].pc = "keep"
           /\ thread'[th].left = thread[th].left \ {s}
           /\ thread'[th].at = {s} /\ thread'[th].view = Len(log[s])
           /\ \A o \in Threads : o # th => thread'[o] = thread[o]
           /\ UNCHANGED <<log, cache, dirty, excused>>
    BY <1>13, ReadMoves
  <2>2. CASE th = "run"
    BY <2>1, <2>2, <1>0, <1>1
  <2>3. CASE th = "answer"
    <3>1. Brings(thread["answer"], t, j) => Brings(thread'["answer"], t, j)
      BY <2>1, <2>3, <1>0 DEF Brings, ThreadsSound
    <3> QED
      BY <2>1, <3>1 DEF Known
  <2> QED
    BY <2>2, <2>3, <1>0
<1>14. ASSUME NEW th \in Threads, ReadFails(th)
       PROVE  Known(t, j)'
  <2>1. PICK s \in thread[th].left :
           /\ thread[th].pc = "sweep" /\ thread'[th].pc = "sweep"
           /\ thread'[th].left = thread[th].left \ {s}
           /\ thread'[th].at = thread[th].at
           /\ thread'[th].view = thread[th].view
           /\ \A o \in Threads : o # th => thread'[o] = thread[o]
           /\ excused'[s] # {} /\ excused[t] \subseteq excused'[t]
           /\ UNCHANGED cache
    BY <1>14, FailMoves
  <2>2. CASE th = "run"
    BY <2>1, <2>2, <1>0, <1>1
  <2>3. CASE th = "answer"
    <3>1. Brings(thread["answer"], t, j)
            => Brings(thread'["answer"], t, j) \/ t = s
      BY <2>1, <2>3 DEF Brings
    <3> QED
      BY <2>1, <3>1 DEF Known
  <2> QED
    BY <2>2, <2>3, <1>0
<1>15. ASSUME NEW th \in Threads, Keep(th)
       PROVE  Known(t, j)'
  <2>1. \A o \in Threads : o # th => thread'[o] = thread[o]
    BY <1>15, KeepMoves
  <2>2. CASE j <= cache[t] \/ excused[t] # {}
    BY <1>15, <2>2, KeepStored DEF Known
  <2>3. CASE Brings(thread["answer"], t, j)
    <3>1. CASE th = "answer"
      BY <1>15, <2>3, <3>1, KeepKnows DEF Known
    <3>2. CASE th = "run"
      BY <2>1, <2>3, <3>2, <1>0 DEF Known
    <3> QED
      BY <3>1, <3>2, <1>0
  <2> QED
    BY <2>2, <2>3 DEF Known
<1> QED
  BY <1>4, <1>5, <1>6, <1>7, <1>8, <1>9, <1>10, <1>11, <1>12, <1>13, <1>14,
     <1>15, AskersStandAside DEF Next, Rounds, Refresh

(* How a pass moves on.                                                    *)
LEMMA JudgeMoves ==
  ASSUME TypeOK, Judge
  PROVE  \E s \in Run.left :
           /\ Run.pc = "pass" /\ thread'["run"].left = Run.left \ {s}
           /\ \/ thread'["run"].pc = "act" /\ thread'["run"].at = {s}
              \/ thread'["run"].pc = "pass" /\ thread'["run"].at = Run.at
           /\ thread'["run"].habit = Run.habit
           /\ UNCHANGED <<log, dirty, own, blurred>>
<1>0. Run \in Thread /\ "run" \in Threads
  BY DEF TypeOK, Run, Threads
<1>1. PICK s \in Run.left :
        \E x : /\ Go("run", x) /\ Run.pc = "pass"
               /\ \/ x = [Run EXCEPT !.left = @ \ {s}]
                  \/ x = [[Run EXCEPT !.left = @ \ {s}] EXCEPT
                            !.pc = "act", !.at = {s}, !.view = Len(log[s])]
               /\ UNCHANGED <<log, dirty, own, blurred>>
  BY DEF Judge, exchange, history
<1>2. PICK x : /\ Go("run", x) /\ Run.pc = "pass"
               /\ \/ x = [Run EXCEPT !.left = @ \ {s}]
                  \/ x = [[Run EXCEPT !.left = @ \ {s}] EXCEPT
                            !.pc = "act", !.at = {s}, !.view = Len(log[s])]
               /\ UNCHANGED <<log, dirty, own, blurred>>
  BY <1>1
<1>3. thread'["run"] = x
  BY <1>0, <1>2, Moves
<1>4. /\ x.left = Run.left \ {s} /\ x.habit = Run.habit
      /\ \/ x.pc = "act" /\ x.at = {s}
         \/ x.pc = "pass" /\ x.at = Run.at
  BY <1>0, <1>2 DEF Thread
<1> QED
  BY <1>2, <1>3, <1>4

LEMMA ActMoves ==
  ASSUME TypeOK, ThreadsSound, Act
  PROVE  \E s \in Run.at :
           /\ s \in Topics /\ Run.pc = "act" /\ Run.habit \in {1, 2, 3, 4}
           /\ Note(Run.habit) \in Kinds
           /\ thread'["run"].pc = "pass" /\ thread'["run"].at = {}
           /\ thread'["run"].left = Run.left
           /\ thread'["run"].habit = Run.habit
           /\ dirty \subseteq dirty' /\ UNCHANGED blurred
           /\ \/ own' = own
              \/ /\ Published(s, Note(Run.habit))
                 /\ own' = own \union {<<s, Len(log[s]) + 1>>}
                 /\ s \in dirty' \/ excused'[s] # {}
<1>0. Run \in Thread /\ "run" \in Threads
  BY DEF TypeOK, Run, Threads
<1>1. PICK s \in Run.at :
        /\ Run.pc = "act" /\ UNCHANGED blurred
        /\ \/ /\ Published(s, Note(Run.habit))
              /\ own' = own \union {<<s, Len(log[s]) + 1>>}
              /\ dirty' = Marks(s) \/ (UNCHANGED dirty
                                       /\ excused' = Lately("behind", {s}))
           \/ UNCHANGED <<own, dirty>>
        /\ Go("run", [Run EXCEPT !.pc = "pass", !.at = {}, !.view = 0])
  BY DEF Act
<1>2. s \in Topics
  BY <1>0 DEF Thread
<1>3. Run.habit \in {1, 2, 3, 4}
  BY <1>0, <1>1 DEF ThreadsSound, Thread
<1>4. Note(Run.habit) \in Kinds
  BY <1>3 DEF Note, Kinds
<1>5. thread'["run"] = [Run EXCEPT !.pc = "pass", !.at = {}, !.view = 0]
  BY <1>0, <1>1, Moves
<1>6. /\ thread'["run"].pc = "pass" /\ thread'["run"].at = {}
      /\ thread'["run"].left = Run.left /\ thread'["run"].habit = Run.habit
  BY <1>0, <1>5 DEF Thread
<1>7. dirty \subseteq dirty'
  BY <1>1 DEF Marks
<1>8. \/ own' = own
      \/ /\ Published(s, Note(Run.habit))
         /\ own' = own \union {<<s, Len(log[s]) + 1>>}
         /\ s \in dirty' \/ excused'[s] # {}
  BY <1>1, <1>2 DEF Marks, Lately
<1> QED
  BY <1>1, <1>2, <1>3, <1>4, <1>6, <1>7, <1>8

(* A note it leaves is the newest of the topic it judged.                  *)
LEMMA NewNote ==
  ASSUME TypeOK, ThreadsSound, Next,
         NEW t \in Topics, NEW j \in Nat, <<t, j>> \in own' \ own
  PROVE  /\ Act /\ Run.pc = "act" /\ t \in Run.at
         /\ Run.habit \in {1, 2, 3, 4}
         /\ j = Len(log[t]) + 1 /\ Len(log'[t]) = j
         /\ log'[t][j].kind = Note(Run.habit)
         /\ thread'["run"].pc = "pass" /\ thread'["run"].habit = Run.habit
         /\ t \in dirty' \/ excused'[t] # {}
<1>0. log \in [Topics -> Seq(Op)] /\ clock \in Nat
  BY DEF TypeOK, ExchangeTypeOK
<1>1. Act
  BY OwnGrowsByAct
<1>2. PICK s \in Run.at :
        /\ s \in Topics /\ Run.pc = "act" /\ Run.habit \in {1, 2, 3, 4}
        /\ Note(Run.habit) \in Kinds
        /\ thread'["run"].pc = "pass" /\ thread'["run"].habit = Run.habit
        /\ \/ own' = own
           \/ /\ Published(s, Note(Run.habit))
              /\ own' = own \union {<<s, Len(log[s]) + 1>>}
              /\ s \in dirty' \/ excused'[s] # {}
  BY <1>1, ActMoves
<1>3. /\ Published(s, Note(Run.habit)) /\ t = s /\ j = Len(log[t]) + 1
      /\ s \in dirty' \/ excused'[s] # {}
  BY <1>2
<1>4. /\ Len(log'[t]) = Len(log[t]) + 1
      /\ log'[t][Len(log[t]) + 1].kind = Note(Run.habit)
  BY <1>0, <1>2, <1>3, Appends
<1> QED
  BY <1>1, <1>2, <1>3, <1>4

LEMMA OwnPlacesStep ==
  ASSUME TypeOK, ThreadsSound, OwnPlaces, Next
  PROVE  OwnPlaces'
<1> SUFFICES ASSUME NEW t \in Topics, NEW j \in Nat, <<t, j>> \in own'
             PROVE  j \in 1 .. Len(log'[t])
  BY DEF OwnPlaces
<1>0. Len(log[t]) \in Nat /\ log'[t] \in Seq(Op) /\ Len(log'[t]) \in Nat
  BY NextTypes DEF TypeOK, ExchangeTypeOK
<1>1. CASE <<t, j>> \in own
  <2>1. j \in 1 .. Len(log[t]) /\ Len(log[t]) <= Len(log'[t])
    BY <1>1, LogGrows DEF OwnPlaces
  <2> QED
    BY <2>1, <1>0
<1>2. CASE <<t, j>> \notin own
  <2>1. j = Len(log[t]) + 1 /\ Len(log'[t]) = j
    BY <1>2, NewNote
  <2> QED
    BY <2>1, <1>0
<1> QED
  BY <1>1, <1>2

LEMMA CacheHeldStep ==
  ASSUME TypeOK, ThreadsSound, CacheHeld, Next
  PROVE  CacheHeld'
<1> SUFFICES ASSUME NEW t \in Topics PROVE cache'[t] <= Len(log'[t])
  BY DEF CacheHeld
<1>0a. Len(log'[t]) \in Nat
  <2>1. log'[t] \in Seq(Op)
    BY NextTypes DEF TypeOK, ExchangeTypeOK
  <2> QED
    BY <2>1
<1>0b. Len(log[t]) <= Len(log'[t])
  BY LogGrows
<1>0. /\ Len(log[t]) \in Nat /\ Len(log'[t]) \in Nat
      /\ cache \in [Topics -> Nat]
      /\ Len(log[t]) <= Len(log'[t]) /\ cache[t] <= Len(log[t])
  BY <1>0a, <1>0b DEF TypeOK, ExchangeTypeOK, CacheHeld
<1>1. CASE cache' = cache
  BY <1>0, <1>1
<1>2. CASE Dies
  BY <1>0, <1>2 DEF Dies, Blank
<1>3. ASSUME NEW th \in Threads, Keep(th)
      PROVE  cache'[t] <= Len(log'[t])
  <2>1. PICK s \in Topics :
           /\ thread[th].view \in Nat /\ thread[th].view <= Len(log[s])
           /\ cache' = [cache EXCEPT ![s] = thread[th].view]
           /\ UNCHANGED log
    BY <1>3, KeepMoves
  <2> QED
    BY <1>0, <2>1
<1>4. \A u \in Topics : Post(u) \/ Stored(u) \/ Signal(u) => UNCHANGED cache
  BY DEF Post, Stored, Signal, memory
<1>5. Age \/ Subscribe \/ Seed \/ Asked \/ Search => UNCHANGED cache
  BY DEF Age, Subscribe, Seed, Asked, Search, memory
<1>6. \A th \in Threads : Read(th) \/ ReadFails(th) => UNCHANGED cache
  BY DEF Read, ReadFails
<1>7. Tick \/ Refreshed \/ Judge \/ NextHabit \/ Act => UNCHANGED cache
  BY DEF Tick, Refreshed, Judge, NextHabit, Act
<1> QED
  BY <1>1, <1>2, <1>3, <1>4, <1>5, <1>6, <1>7
     DEF Next, Rounds, Refresh, memory

(* Outside a pass no step of another kind begins or moves one.             *)
LEMMA PassMoves ==
  ASSUME TypeOK, ThreadsSound, Next,
         ~ (Judge \/ Act \/ Refreshed \/ NextHabit)
  PROVE  \/ thread'["run"] = Run /\ UNCHANGED blurred
         \/ thread'["run"].pc \notin {"pass", "act"}
<1>0. /\ "run" \in Threads /\ "answer" \in Threads
      /\ \A th \in Threads : th = "run" \/ th = "answer"
  BY DEF Threads
<1>1. ASSUME UNCHANGED <<thread, blurred>>
      PROVE  thread'["run"] = Run /\ UNCHANGED blurred
  BY <1>1 DEF Run
<1>2. \A u \in Topics : Post(u) \/ Stored(u) \/ Signal(u)
                         => UNCHANGED <<thread, blurred>>
  BY DEF Post, Stored, Signal, memory, history
<1>3. Age => UNCHANGED <<thread, blurred>>
  BY DEF Age, memory, history
<1>4. Asked \/ Search => thread'["run"] = Run /\ UNCHANGED blurred
  BY <1>0 DEF Asked, Search, history, Go, Run, TypeOK
<1>5. Subscribe \/ Seed \/ Tick => thread'["run"].pc \notin {"pass", "act"}
  <2>1. \A x : Go("run", x) => thread'["run"] = x
    BY <1>0, Moves
  <2> QED
    BY <2>1 DEF Subscribe, Seed, Tick, Resting
<1>6. Dies => thread'["run"].pc \notin {"pass", "act"}
  BY <1>0 DEF Dies, Resting
<1>7. ASSUME NEW th \in Threads, Refresh(th)
      PROVE  \/ thread'["run"] = Run /\ UNCHANGED blurred
             \/ thread'["run"].pc \notin {"pass", "act"}
  <2>1. /\ thread'[th].pc \notin {"pass", "act"}
        /\ \A o \in Threads : o # th => thread'[o] = thread[o]
        /\ UNCHANGED blurred
    BY <1>7, ReadMoves, FailMoves, KeepMoves DEF Refresh
  <2> QED
    BY <2>1, <1>0 DEF Run
<1>8. CASE Aside
  BY <1>8, <1>1 DEF Aside, memory, history
<1> QED
  BY <1>1, <1>2, <1>3, <1>4, <1>5, <1>6, <1>7, <1>8, AskersStandAside
     DEF Next, Rounds

(* What a new pass is about.                                               *)
LEMMA RefreshedMoves ==
  ASSUME TypeOK, ThreadsSound, Refreshed
  PROVE  /\ Run.pc = "sweep" /\ Run.left = {} /\ Run.at = {}
         /\ thread'["run"].left = {} /\ thread'["run"].at = {}
         /\ thread'["run"].pc \in {"idle", "pass"}
<1>0. Run \in Thread /\ "run" \in Threads
  BY DEF TypeOK, Run, Threads
<1>1. Run.pc = "sweep" /\ Run.left = {} /\ Run.at = {}
  BY <1>0 DEF Refreshed, Swept, Run, ThreadsSound
<1>2. CASE Run.habit = 0
  <2>1. thread'["run"] = Idle
    BY <1>0, <1>2 DEF Refreshed, TypeOK, Threads
  <2> QED
    BY <1>1, <2>1 DEF Idle, Resting
<1>3. CASE Run.habit # 0
  <2>1. thread'["run"] = [[Run EXCEPT !.pc = "pass"] EXCEPT !.habit = 0]
    BY <1>0, <1>3 DEF Refreshed, TypeOK, Run
  <2> QED
    BY <1>0, <1>1, <2>1 DEF Thread
<1> QED
  BY <1>2, <1>3

LEMMA HabitMoves ==
  ASSUME TypeOK, NextHabit
  PROVE  /\ Run.pc = "pass" /\ UNCHANGED <<log, clock, dirty, own, excused, cache>>
         /\ thread'["run"].at = {}
         /\ thread'["answer"] = thread["answer"]
         /\ \/ thread'["run"].pc = "idle"
            \/ /\ thread'["run"].pc = "pass"
               /\ thread'["run"].habit \in Habits
               /\ thread'["run"].habit > Run.habit
               /\ thread'["run"].left =
                    {t \in Topics : Wants(thread'["run"].habit, t, cache, aged)}
               /\ blurred' = thread["answer"].left \union thread["answer"].at
                                \union {t \in Topics : excused[t] # {}}
<1>0. "run" \in Threads /\ "answer" \in Threads /\ scene.habits \subseteq Habits
  BY ExchangeAssumption DEF TypeOK, Threads, ExchangeTypeOK, Scenario, Habits
<1>1. /\ Run.pc = "pass"
      /\ UNCHANGED <<log, clock, dirty, own, excused, cache>>
  BY DEF NextHabit, exchange
<1>2. CASE Go("run", Idle)
  BY <1>0, <1>1, <1>2, Moves DEF Idle, Resting
<1>3. ASSUME NEW habit \in scene.habits, habit > Run.habit,
             Go("run", Round(habit)),
             blurred' = thread["answer"].left \union thread["answer"].at
                                \union {t \in Topics : excused[t] # {}}
      PROVE  /\ thread'["run"].at = {}
             /\ thread'["answer"] = thread["answer"]
             /\ thread'["run"].pc = "pass"
             /\ thread'["run"].habit = habit
             /\ thread'["run"].left =
                    {t \in Topics : Wants(habit, t, cache, aged)}
  <2>1. thread'["run"] = Round(habit) /\ thread'["answer"] = thread["answer"]
    BY <1>0, <1>3, Moves
  <2> QED
    BY <2>1 DEF Round, Resting
<1> QED
  BY <1>0, <1>1, <1>2, <1>3 DEF NextHabit

LEMMA PassHeldStep ==
  ASSUME TypeOK, ThreadsSound, PassHeld, Next
  PROVE  PassHeld'
<1>1. PassHeld' <=> /\ thread'["run"].pc = "pass" => thread'["run"].at = {}
                    /\ thread'["run"].pc = "act" =>
                         thread'["run"].left \cap thread'["run"].at = {}
  BY DEF PassHeld, Run
<1>2. CASE Judge
  BY <1>1, <1>2, JudgeMoves DEF PassHeld
<1>3. CASE Act
  BY <1>1, <1>3, ActMoves
<1>4. CASE Refreshed
  BY <1>1, <1>4, RefreshedMoves
<1>5. CASE NextHabit
  BY <1>1, <1>5, HabitMoves
<1> QED
  BY <1>1, <1>2, <1>3, <1>4, <1>5, PassMoves DEF PassHeld

(* What was filed stays so while the rounds stand still.                   *)
LEMMA StillFiled ==
  ASSUME TypeOK, ThreadsSound, Next, ~Dies,
         NEW t \in Topics, NEW j \in 1 .. Len(log[t]), Filed(t, j),
         thread'["run"] = thread["run"], dirty \subseteq dirty'
  PROVE  Filed(t, j)'
<1>1. CASE Known(t, j)
  BY <1>1, KnownStays DEF Filed
<1>2. CASE ~Known(t, j)
  <2>1. log'[t][j] = log[t][j]
    BY LogGrows
  <2> QED
    BY <1>2, <2>1 DEF Filed, Brings, Run, NotesUpTo, Note
<1> QED
  BY <1>1, <1>2

(* A note of its own is filed after every step that leaves it ready.       *)
LEMMA FiledStep ==
  ASSUME TypeOK, ThreadsSound, PassHeld, Next, Ready',
         NEW t \in Topics, NEW j \in 1 .. Len(log[t]),
         Ready => Filed(t, j)
  PROVE  Filed(t, j)'
<1>0. /\ "run" \in Threads /\ "answer" \in Threads
      /\ \A th \in Threads : th = "run" \/ th = "answer"
      /\ Run \in Thread /\ log'[t][j] = log[t][j]
  BY LogGrows DEF Threads, TypeOK, Run
<1>1. ~Dies
  BY <1>0 DEF Dies, Ready, Run, Resting
<1>2. \A x : Go("run", x) => thread'["run"] = x
  BY <1>0, Moves
<1>3. ~Subscribe
  BY <1>2 DEF Subscribe, Ready, Run, Resting
<1>4. CASE Seed
  <2>1. thread'["run"].pc = "sweep" /\ thread'["run"].left = Topics
    BY <1>2, <1>4 DEF Seed, Resting
  <2> QED
    BY <2>1 DEF Filed, Brings, Run
<1>5. CASE Ready /\ ~Seed
  <2>1. Filed(t, j)
    BY <1>5
  <2>2. CASE Known(t, j)
    BY <1>1, <2>2, KnownStays DEF Filed
  <2>3. ASSUME thread'["run"] = thread["run"], dirty \subseteq dirty'
        PROVE  Filed(t, j)'
    BY <1>1, <2>1, <2>3, StillFiled
  <2>4. ASSUME NEW u \in Topics, Post(u) \/ Stored(u) \/ Signal(u)
        PROVE  Filed(t, j)'
    BY <2>3, <2>4 DEF Post, Stored, Signal, memory
  <2>5. CASE Aside \/ Age
    BY <2>3, <2>5 DEF Aside, Age, memory
  <2>6. CASE Search
    BY <1>0, <2>3, <2>6 DEF Search, Go, TypeOK
  <2>7. CASE Asked
    <3>1. thread'["run"] = thread["run"]
      BY <1>0, <2>7 DEF Asked, Go, TypeOK
    <3>2. CASE dirty' = dirty
      BY <2>3, <3>1, <3>2
    <3>3. CASE ~Known(t, j) /\ t \notin dirty
      <4>1. Brings(Run, t, j)
        BY <2>1, <2>2, <3>3 DEF Filed
      <4> QED
        BY <3>1, <4>1 DEF Filed, Brings, Run
    <3>4. CASE dirty' # dirty /\ t \in dirty
      <4>1. \E x : /\ Go("answer", x)
                   /\ x.pc = "sweep" /\ x.left = dirty
        <5> DEFINE x == [Idle EXCEPT !.pc = "sweep", !.left = dirty]
                   y(q) == [Idle EXCEPT !.pc = "sweep", !.left = dirty,
                                        !.request = {q}]
        <5>1. Go("answer", x) \/ Go("answer", y(Head(resp[Me].queue)))
          BY <2>7, <3>4 DEF Asked
        <5>2. /\ x.pc = "sweep" /\ x.left = dirty
              /\ \A q : y(q).pc = "sweep" /\ y(q).left = dirty
          BY DEF Idle, Resting
        <5> HIDE DEF x, y
        <5> QED
          BY <5>1, <5>2
      <4>2. /\ thread'["answer"].pc = "sweep"
            /\ thread'["answer"].left = dirty
        BY <1>0, <4>1, Moves
      <4> QED
        BY <3>4, <4>2 DEF Filed, Known, Brings
    <3> QED
      BY <2>2, <3>2, <3>3, <3>4
  <2>8. CASE Tick
    <3>1. /\ Run.pc = "idle" /\ thread'["run"].pc = "sweep"
          /\ thread'["run"].left = dirty
      BY <1>2, <2>8 DEF Tick, Resting
    <3>2. CASE ~Known(t, j)
      <4>1. t \in dirty
        BY <2>1, <3>1, <3>2 DEF Filed, Brings
      <4> QED
        BY <3>1, <4>1 DEF Filed, Brings, Run
    <3> QED
      BY <2>2, <3>2
  <2>9. CASE Refreshed
    <3>1. Run.pc = "sweep" /\ Run.left = {} /\ Run.at = {}
      BY <2>9, RefreshedMoves
    <3> QED
      BY <2>1, <2>2, <3>1 DEF Filed, Brings
  <2>10. CASE NextHabit
    <3>1. CASE ~Known(t, j)
      <4>1. /\ Run.pc = "pass" /\ dirty' = dirty
            /\ \/ thread'["run"].pc = "idle"
               \/ /\ thread'["run"].pc = "pass"
                  /\ thread'["run"].habit \in Habits
                  /\ thread'["run"].habit > Run.habit
        BY <2>10, HabitMoves
      <4>2. t \in dirty /\ log[t][j].kind \in NotesUpTo(Run.habit)
        BY <2>1, <3>1, <4>1 DEF Filed, Brings
      <4>3. CASE thread'["run"].pc = "idle"
        BY <4>1, <4>2, <4>3 DEF Filed, Run
      <4>4. CASE thread'["run"].pc # "idle"
        <5>1. NotesUpTo(Run.habit) \subseteq NotesUpTo(thread'["run"].habit)
          BY <1>0, <4>1, <4>4 DEF NotesUpTo, Habits, Thread
        <5>2. log'[t][j].kind \in NotesUpTo(thread'["run"].habit)
          BY <1>0, <4>2, <5>1
        <5> QED
          BY <4>1, <4>2, <4>4, <5>2 DEF Filed, Run, NotesUpTo, Note
      <4> QED
        BY <4>3, <4>4
    <3> QED
      BY <2>2, <3>1
  <2>11. CASE Judge
    <3>1. CASE ~Known(t, j)
      <4>1. /\ Run.pc \in {"pass", "act"} /\ dirty \subseteq dirty'
            /\ thread'["run"].pc \in {"pass", "act"}
            /\ thread'["run"].habit = Run.habit
        BY <2>11, JudgeMoves
      <4>2. t \in dirty /\ log[t][j].kind \in NotesUpTo(Run.habit)
        BY <2>1, <3>1, <4>1 DEF Filed, Brings
      <4>3. log'[t][j].kind \in NotesUpTo(thread'["run"].habit)
        BY <1>0, <4>1, <4>2
      <4> QED
        BY <4>1, <4>2, <4>3 DEF Filed, Run, NotesUpTo, Note
    <3> QED
      BY <2>2, <3>1
  <2>12. CASE Act
    <3>1. CASE ~Known(t, j)
      <4>1. /\ Run.pc \in {"pass", "act"} /\ dirty \subseteq dirty'
            /\ thread'["run"].pc \in {"pass", "act"}
            /\ thread'["run"].habit = Run.habit
        BY <2>12, ActMoves
      <4>2. t \in dirty /\ log[t][j].kind \in NotesUpTo(Run.habit)
        BY <2>1, <3>1, <4>1 DEF Filed, Brings
      <4>3. log'[t][j].kind \in NotesUpTo(thread'["run"].habit)
        BY <1>0, <4>1, <4>2
      <4> QED
        BY <4>1, <4>2, <4>3 DEF Filed, Run, NotesUpTo, Note
    <3> QED
      BY <2>2, <3>1
  <2>13. ASSUME NEW th \in Threads, Refresh(th)
         PROVE  Filed(t, j)'
    <3>1. CASE th = "answer"
      <4>1. thread'["run"] = thread["run"] /\ dirty \subseteq dirty'
        BY <1>0, <2>13, <3>1, ReadMoves, FailMoves, KeepMoves DEF Refresh
      <4> QED
        BY <2>3, <4>1
    <3>2. CASE th = "run" /\ ~Known(t, j)
      <4>1. Run.pc \in {"sweep", "keep"}
        BY <2>13, <3>2, ReadMoves, FailMoves, KeepMoves DEF Refresh, Run
      <4>2. Brings(thread[th], t, j)
        BY <2>1, <3>2, <4>1 DEF Filed, Run
      <4>3. CASE Keep(th)
        BY <4>2, <4>3, <3>2, KeepKnows DEF Filed, Known, Run
      <4>4. CASE Read(th)
        <5>1. PICK s \in thread[th].left :
                /\ thread[th].pc = "sweep" /\ thread'[th].pc = "keep"
                /\ thread'[th].left = thread[th].left \ {s}
                /\ thread'[th].at = {s} /\ thread'[th].view = Len(log[s])
          BY <4>4, ReadMoves
        <5>2. thread[th].at = {}
          BY <5>1 DEF ThreadsSound
        <5>3. Brings(thread'[th], t, j)
          BY <4>2, <5>1, <5>2 DEF Brings
        <5> QED
          BY <3>2, <5>3 DEF Filed, Run
      <4>5. CASE ReadFails(th)
        <5>1. PICK s \in thread[th].left :
                /\ thread[th].pc = "sweep" /\ thread'[th].pc = "sweep"
                /\ thread'[th].left = thread[th].left \ {s}
                /\ thread'[th].at = thread[th].at
                /\ thread'[th].view = thread[th].view
                /\ excused'[s] # {}
          BY <4>5, FailMoves
        <5>2. Brings(thread'[th], t, j) \/ t = s
          BY <4>2, <5>1 DEF Brings
        <5> QED
          BY <3>2, <5>1, <5>2 DEF Filed, Known, Run
      <4> QED
        BY <2>13, <4>3, <4>4, <4>5 DEF Refresh
    <3> QED
      BY <1>0, <2>2, <3>1, <3>2
  <2> QED
    BY <1>1, <1>3, <1>5, <2>4, <2>5, <2>6, <2>7, <2>8, <2>9, <2>10, <2>11,
       <2>12, <2>13, AskersStandAside DEF Next, Rounds
<1>6. CASE ~Ready /\ ~Seed
  <2>1. Run.pc \in {"off", "subscribed"}
    BY <1>6 DEF Ready
  <2>2. ~ (Judge \/ Act \/ Refreshed \/ NextHabit \/ Tick)
    BY <2>1, JudgeMoves, ActMoves, RefreshedMoves, HabitMoves DEF Tick
  <2>3. CASE Asked \/ Search
    <3>1. thread'["run"] = thread["run"]
      BY <1>0, <2>3 DEF Asked, Search, Go, TypeOK
    <3> QED
      BY <2>1, <3>1 DEF Ready, Run
  <2>4. ASSUME NEW th \in Threads, Refresh(th)
        PROVE  FALSE
    <3>1. /\ thread[th].pc \in {"sweep", "keep"}
          /\ \A o \in Threads : o # th => thread'[o] = thread[o]
      BY <2>4, ReadMoves, FailMoves, KeepMoves DEF Refresh
    <3>2. thread'["run"] = thread["run"]
      BY <1>0, <2>1, <3>1 DEF Run
    <3> QED
      BY <2>1, <3>2 DEF Ready, Run
  <2>5. ~UNCHANGED thread
    BY <2>1 DEF Ready, Run
  <2>6. ~Aside /\ ~Age
    BY <2>5 DEF Aside, Age, memory
  <2>7. \A u \in Topics : ~ (Post(u) \/ Stored(u) \/ Signal(u))
    BY <2>5 DEF Post, Stored, Signal, memory
  <2> QED
    BY <1>1, <1>3, <1>6, <2>2, <2>3, <2>4, <2>6, <2>7, AskersStandAside
       DEF Next, Rounds
<1> QED
  BY <1>4, <1>5, <1>6

(* The memory of a nudge that a habit sees no reason to repeat.            *)
RealKinds == {"baseline", "talk", "claim", "drop", "done"}

LEMMA RealGrows ==
  ASSUME TypeOK, ThreadsSound, Timely, Timely', Next, NEW t \in Topics
  PROVE  /\ LastReal(t, Len(log[t])) \in Nat
         /\ LastReal(t, Len(log[t]))' \in Nat
         /\ LastReal(t, Len(log[t])) <= LastReal(t, Len(log[t]))'
<1>0. /\ log[t] \in Seq(Op) /\ clock \in Nat
      /\ log'[t] \in Seq(Op) /\ clock' \in Nat
  BY NextTypes DEF TypeOK, ExchangeTypeOK
<1>1. InOrder(log[t], clock) /\ InOrder(log'[t], clock')
  BY DEF Timely
<1>2. /\ Len(log[t]) <= Len(log'[t])
      /\ \A i \in 1 .. Len(log[t]) : log'[t][i] = log[t][i]
  BY LogGrows
<1>3. /\ LastReal(t, Len(log[t])) = NewestOf(log[t], Len(log[t]), RealKinds)
      /\ LastReal(t, Len(log[t]))'
           = NewestOf(log'[t], Len(log'[t]), RealKinds)
  BY DEF LastReal, Newest, At, Is, NewestOf, RealKinds
<1>4. /\ Len(log[t]) \in 0 .. Len(log[t])
      /\ Len(log'[t]) \in 0 .. Len(log'[t])
  BY <1>0
<1>5. /\ NewestOf(log[t], Len(log[t]), RealKinds) \in Nat
      /\ NewestOf(log'[t], Len(log'[t]), RealKinds) \in Nat
  BY <1>0, <1>1, <1>4, NewestIs
<1>6. NewestOf(log[t], Len(log[t]), RealKinds)
        <= NewestOf(log'[t], Len(log'[t]), RealKinds)
  BY <1>0, <1>1, <1>2, <1>4, NewestGrows
<1> QED
  BY <1>3, <1>5, <1>6

(* A topic with no note of its own since stays as it was.                  *)
LEMMA QuietStays ==
  ASSUME TypeOK, ThreadsSound, Timely, Timely', OwnPlaces, Next,
         NEW t \in Topics, Quiet(t), thread'["run"].habit = Run.habit,
         \A j \in Nat : <<t, j>> \in own' => <<t, j>> \in own
  PROVE  Quiet(t)'
<1> DEFINE real == LastReal(t, Len(log[t]))
<1>1. real \in Nat /\ real' \in Nat /\ real <= real'
  BY RealGrows
<1>2. ASSUME NEW j \in 1 .. Len(log'[t]), <<t, j>> \in own'
      PROVE  /\ j \in 1 .. Len(log[t]) /\ <<t, j>> \in own
             /\ log'[t][j] = log[t][j] /\ log[t][j].at \in Nat
  <2>1. <<t, j>> \in own
    BY <1>2
  <2>2. j \in 1 .. Len(log[t])
    BY <2>1 DEF OwnPlaces
  <2> QED
    BY <2>1, <2>2, LogGrows DEF Timely, InOrder
<1>3. ASSUME NEW j \in 1 .. Len(log'[t]), <<t, j>> \in own'
      PROVE  /\ Run.habit = 1 => log'[t][j].kind # "flag"
             /\ Run.habit = 2 /\ log'[t][j].kind = "nudge" =>
                  log'[t][j].at < real'
  <2>1. /\ Run.habit = 1 => log[t][j].kind # "flag"
        /\ Run.habit = 2 /\ log[t][j].kind = "nudge" => log[t][j].at < real
    BY <1>2, <1>3 DEF Quiet
  <2> HIDE DEF real
  <2> QED
    BY <1>1, <1>2, <1>3, <2>1
<1> QED
  BY <1>3 DEF Quiet, Run

(* A pass begins with topics where no note of its own speaks against it.   *)
LEMMA QuietBegins ==
  ASSUME TypeOK, ThreadsSound, OwnSound, NextHabit,
         thread'["run"].pc \in {"pass", "act"},
         NEW t \in Topics, t \in thread'["run"].left, t \notin blurred'
  PROVE  Quiet(t)'
<1> DEFINE h == thread'["run"].habit
           n == Len(log[t])
           v == cache[t]
<1>0. /\ log[t] \in Seq(Op) /\ clock \in Nat /\ n \in Nat
      /\ v \in 0 .. n /\ Run \in Thread /\ InOrder(log[t], clock)
  BY DEF TypeOK, ExchangeTypeOK, OwnSound, Timely, CacheHeld, Run, Threads
<1>1. /\ Run.pc = "pass" /\ UNCHANGED <<log, own>>
      /\ h \in Habits /\ h > Run.habit
      /\ Wants(h, t, cache, aged)
      /\ t \notin thread["answer"].left /\ t \notin thread["answer"].at
      /\ excused[t] = {}
  BY HabitMoves
<1>2. ASSUME NEW j \in 1 .. n, <<t, j>> \in own
      PROVE  j <= v \/ log[t][j].kind \in NotesUpTo(Run.habit)
  <2>1. Filed(t, j)
    BY <1>0, <1>1, <1>2 DEF OwnSound, OwnFiled, Ready
  <2>2. Known(t, j) => j <= v
    BY <1>1 DEF Known, Brings
  <2> QED
    BY <1>1, <2>1, <2>2 DEF Filed, Brings
<1>3. ASSUME h = 1, NEW j \in 1 .. n, <<t, j>> \in own
      PROVE  log[t][j].kind # "flag"
  <2>1. Is(t, v, {"flag"}) = {}
    BY <1>1, <1>3 DEF Wants, Doubles, HasDuplicateFlag
  <2>2. NotesUpTo(Run.habit) = {}
    BY <1>0, <1>1, <1>3 DEF NotesUpTo, Thread
  <2>3. j <= v
    BY <1>2, <1>3, <2>2
  <2> QED
    BY <1>0, <2>1, <2>3 DEF Is
<1>4. ASSUME h = 2, NEW j \in 1 .. n, <<t, j>> \in own,
             log[t][j].kind = "nudge"
      PROVE  log[t][j].at < LastReal(t, n)
  <2>1. ~HasDormantFlag(t, v)
    BY <1>1, <1>4 DEF Wants, Rests
  <2> DEFINE nudged == NewestOf(log[t], v, {"nudge"})
             real == NewestOf(log[t], v, RealKinds)
             all == NewestOf(log[t], n, RealKinds)
  <2>2. ~ (nudged > real)
    BY <2>1 DEF HasDormantFlag, LastReal, Newest, At, Is, NewestOf, RealKinds
  <2>3. j <= v
    <3>1. Run.habit \in {0, 1}
      BY <1>0, <1>1, <1>4 DEF Thread
    <3>2. NotesUpTo(Run.habit) \subseteq {"flag"}
      BY <3>1 DEF NotesUpTo, Note
    <3> QED
      BY <1>2, <1>4, <3>2
  <2>4. nudged \in Nat /\ log[t][j].at <= nudged
    BY <1>0, <1>4, <2>3, NewestIs
  <2>5. log[t][j].at \in Nat /\ log[t][j].at # 0
    BY <1>0 DEF InOrder
  <2>6. /\ real \in Nat
        /\ real # 0 => \E i \in 1 .. v :
                         log[t][i].kind \in RealKinds /\ log[t][i].at = real
    BY <1>0, NewestIs
  <2>7. all \in Nat /\ real <= all
    <3>1. n \in 0 .. n
      BY <1>0
    <3> QED
      BY <1>0, <3>1, NewestIs, NewestGrows
  <2>8. LastReal(t, n) = all
    BY DEF LastReal, Newest, At, Is, NewestOf, RealKinds
  <2> HIDE DEF nudged, real, all
  <2>9. PICK i \in 1 .. v : /\ log[t][i].kind \in RealKinds
                            /\ log[t][i].at = real
    BY <2>2, <2>4, <2>5, <2>6
  <2>10. i # j /\ i \in 1 .. n
    BY <1>0, <1>4, <2>9 DEF RealKinds
  <2>11. log[t][i].at # log[t][j].at
    <3>1. i < j \/ j < i
      BY <2>10
    <3>2. /\ log[t][i].at \in Nat
          /\ i < j => log[t][i].at < log[t][j].at
          /\ j < i => log[t][j].at < log[t][i].at
      BY <1>0, <2>10 DEF InOrder
    <3> QED
      BY <2>5, <3>1, <3>2
  <2> QED
    BY <2>2, <2>4, <2>5, <2>6, <2>7, <2>8, <2>9, <2>11
<1>5. /\ LastReal(t, Len(log[t]))' = LastReal(t, n)
      /\ Run'.habit = h
  BY <1>1 DEF LastReal, Newest, At, Is, Latest, IsLatest, Run
<1> QED
  BY <1>1, <1>3, <1>4, <1>5 DEF Quiet

LEMMA OwnQuietStep ==
  ASSUME TypeOK, ThreadsSound, OwnSound, Timely', Next
  PROVE  OwnQuiet'
<1> SUFFICES ASSUME thread'["run"].pc \in {"pass", "act"}, NEW t,
                    t \in thread'["run"].left \union thread'["run"].at,
                    t \notin blurred'
             PROVE  Quiet(t)'
  BY DEF OwnQuiet, Run
<1>0. t \in Topics /\ Run \in Thread
  <2>1. thread' \in [Threads -> Thread] /\ "run" \in Threads
    BY NextTypes DEF TypeOK, Threads
  <2> QED
    BY <2>1 DEF Thread, TypeOK, Run
<1> USE DEF OwnSound
<1>1. ASSUME Run.pc \in {"pass", "act"}, t \in Run.left \union Run.at,
             t \notin blurred, thread'["run"].habit = Run.habit,
             Act => t \notin Run.at
      PROVE  Quiet(t)'
  <2>1. Quiet(t)
    BY <1>1 DEF OwnQuiet
  <2>2. \A j \in Nat : <<t, j>> \in own' => <<t, j>> \in own
    BY <1>0, <1>1, NewNote
  <2> QED
    BY <1>0, <1>1, <2>1, <2>2, QuietStays
<1>2. CASE NextHabit
  BY <1>0, <1>2, HabitMoves, QuietBegins
<1>3. CASE Refreshed
  BY <1>3, RefreshedMoves
<1>4. CASE Judge
  BY <1>1, <1>4, JudgeMoves DEF Judge, Act
<1>5. CASE Act
  <2>1. /\ Run.pc = "act" /\ thread'["run"].at = {}
        /\ thread'["run"].left = Run.left /\ thread'["run"].habit = Run.habit
        /\ UNCHANGED blurred
    BY <1>5, ActMoves
  <2>2. t \in Run.left /\ t \notin Run.at
    BY <2>1 DEF PassHeld
  <2> QED
    BY <1>1, <2>1, <2>2
<1>6. CASE ~ (Judge \/ Act \/ Refreshed \/ NextHabit)
  BY <1>1, <1>6, PassMoves
<1> QED
  BY <1>2, <1>3, <1>4, <1>5, <1>6

LEMMA InitOwn == Init => OwnSound
<1> SUFFICES ASSUME Init PROVE OwnSound
  OBVIOUS
<1>1. Run = Resting /\ own = {} /\ cache = Blank
      /\ log \in [Topics -> Seq(Op)]
  BY InitTypes DEF Init, Run, Threads, TypeOK, ExchangeTypeOK
<1>2. Run.pc = "off"
  BY <1>1 DEF Resting
<1>3. CacheHeld
  BY <1>1 DEF CacheHeld, Blank
<1> QED
  BY <1>1, <1>2, <1>3, InitTimely
     DEF OwnSound, OwnPlaces, PassHeld, OwnFiled, OwnQuiet, Ready

LEMMA OwnFiledStep ==
  ASSUME TypeOK, ThreadsSound, OwnSound, Next
  PROVE  OwnFiled'
<1> SUFFICES ASSUME Ready', NEW t \in Topics, NEW j \in Nat, <<t, j>> \in own'
             PROVE  Filed(t, j)'
  BY DEF OwnFiled
<1>1. CASE <<t, j>> \in own
  <2>1. j \in 1 .. Len(log[t]) /\ (Ready => Filed(t, j))
    BY <1>1 DEF OwnSound, OwnPlaces, OwnFiled
  <2> QED
    BY <2>1, FiledStep DEF OwnSound
<1>2. CASE <<t, j>> \notin own
  <2>1. /\ Run.habit \in {1, 2, 3, 4} /\ log'[t][j].kind = Note(Run.habit)
        /\ thread'["run"].pc = "pass" /\ thread'["run"].habit = Run.habit
        /\ t \in dirty' \/ excused'[t] # {}
    BY <1>2, NewNote
  <2>2. log'[t][j].kind \in NotesUpTo(thread'["run"].habit)
    BY <2>1 DEF NotesUpTo
  <2> QED
    BY <2>1, <2>2 DEF Filed, Known, Run, NotesUpTo, Note
<1> QED
  BY <1>1, <1>2

LEMMA OwnStep == CuratorInv /\ OwnSound /\ [Next]_vars => OwnSound'
<1> SUFFICES ASSUME CuratorInv, OwnSound, [Next]_vars PROVE OwnSound'
  OBVIOUS
<1> USE DEF CuratorInv
<1>1. CASE Next
  <2>1. Timely'
    BY <1>1, TimelyStep DEF OwnSound
  <2> QED
    BY <1>1, <2>1, OwnPlacesStep, CacheHeldStep, PassHeldStep, OwnFiledStep,
       OwnQuietStep DEF OwnSound
<1>2. CASE UNCHANGED vars
  <2>1. UNCHANGED <<log, clock, thread, cache, dirty, own, excused, blurred>>
    BY <1>2 DEF vars, exchange, memory, history
  <2>2. UNCHANGED Run
    BY <2>1 DEF Run
  <2>3. Timely' /\ OwnPlaces' /\ CacheHeld' /\ PassHeld'
    BY <2>1, <2>2
       DEF OwnSound, Timely, InOrder, OwnPlaces, CacheHeld, PassHeld
  <2>4. \A t, j : Filed(t, j)' <=> Filed(t, j)
    BY <2>1, <2>2 DEF Filed, Known, Brings, NotesUpTo, Note
  <2>5. \A t : Quiet(t)' <=> Quiet(t)
    BY <2>1, <2>2
       DEF Quiet, LastReal, Newest, At, Is, Latest, IsLatest
  <2>6. OwnFiled' /\ OwnQuiet'
    BY <2>1, <2>2, <2>4, <2>5 DEF OwnSound, OwnFiled, OwnQuiet, Ready
  <2> QED
    BY <2>3, <2>6 DEF OwnSound
<1> QED
  BY <1>1, <1>2

LEMMA NotAgain ==
  ASSUME TypeOK, ThreadsSound, OwnSound, Next,
         NEW t \in Topics, NEW i \in {Len(log'[t])},
         <<t, i>> \in own' \ own, t \notin blurred,
         NEW j \in 1 .. Len(log[t]), <<t, j>> \in own,
         log[t][j].kind = log'[t][i].kind
  PROVE  /\ log'[t][i].kind # "flag"
         /\ log'[t][i].kind = "nudge" =>
              log[t][j].at < LastReal(t, Len(log[t]))
<1>0. i \in Nat
  <2>1. own' \subseteq Topics \X Nat
    BY NextTypes DEF TypeOK
  <2> QED
    BY <2>1
<1>1. /\ Run.pc = "act" /\ t \in Run.at /\ Run.habit \in {1, 2, 3, 4}
      /\ log'[t][i].kind = Note(Run.habit)
  BY <1>0, NewNote
<1>2. Quiet(t)
  BY <1>1 DEF OwnSound, OwnQuiet
<1>3. /\ Note(Run.habit) = "flag" => Run.habit = 1
      /\ Note(Run.habit) = "nudge" => Run.habit = 2
  BY <1>1 DEF Note
<1> QED
  BY <1>1, <1>2, <1>3 DEF Quiet

(* The curator never repeats itself (duplicatePass, dormancyPass), over    *)
(* restarts too: every note it left is in what it remembers, or is being   *)
(* read again before a pass looks, so a pass that begins with a clear view *)
(* is about topics that hold no note of its own against it.                *)
THEOREM NeverRepeatsItself == Spec => NeverRepeats
<1>1. CuratorInv /\ OwnSound /\ [Next]_vars =>
        [\A t \in Topics : \A i \in {Len(log'[t])} :
           <<t, i>> \in own' \ own /\ t \notin blurred =>
             \A j \in 1 .. Len(log[t]) :
               /\ <<t, j>> \in own
               /\ log[t][j].kind = log'[t][i].kind
               => /\ log'[t][i].kind # "flag"
                  /\ log'[t][i].kind = "nudge" =>
                       log[t][j].at < LastReal(t, Len(log[t]))]_vars
  BY NotAgain DEF CuratorInv
<1> QED
  BY <1>1, InitOwn, OwnStep, Invariant, PTL DEF Spec, NeverRepeats
=============================================================================
