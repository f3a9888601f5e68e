------------------------------ MODULE Exchange ------------------------------
(***************************************************************************)
(* Asking the realm: discovery (topic/discover.go), memory queries and     *)
(* exhibits (topic/memory.go, exhibit.go).  An asker publishes a request   *)
(* with an inbox of its own and a deadline, gathers what answers in time   *)
(* and grades it; any number of processes answer, none is coordinated with *)
(* another, and silence is an answer.                                      *)
(*                                                                         *)
(* A topic is the sequence of everything ever published to it: an operation *)
(* is named by its place.  The connection delivers at most once, what one  *)
(* process sends in order.                                                 *)
(***************************************************************************)
EXTENDS Integers, Sequences, FiniteSets

CONSTANTS
  Topics,      (* The topics on the board: numbers, in the board's order.   *)
  Responders,  (* The processes that answer requests.                       *)
  Boards,      (* Those of them that answer discovery from the board.       *)
  Persona,     (* The persona of each responder.                            *)
  Limit,       (* How many matches the asker wants of each.                 *)
  MaxAnswers,  (* MaxMemoryAnswers.                                         *)
  Scenarios    (* What may happen in a realm: see Scenario.                 *)

Kinds == {"baseline", "talk", "claim", "drop", "done", "flag", "nudge", "mark",
          "close"}
AskKinds == {"discover", "query", "fetch"}
Sigs == {"verified", "unsigned", "failed"}

(* Which topics are started and which only announced; what is asked, and    *)
(* how often; what others publish, until when; the curator's rounds, and   *)
(* what it does on them.  It may be that processes "fail", and that others *)
(* than the asker "ask" the curator.                                       *)
Scenario == [start : [Topics -> {0, 1}], asks : SUBSET AskKinds, times : Nat,
             ops : SUBSET Kinds, most : Nat, rounds : Nat,
             habits : SUBSET (1 .. 4), may : SUBSET {"fail", "ask"}]

ASSUME ExchangeAssumption ==
  /\ Topics \subseteq Nat /\ IsFiniteSet(Topics)
  /\ Boards \subseteq Responders
  /\ Limit \in Nat \ {0} /\ MaxAnswers \in Nat
  /\ Scenarios \subseteq Scenario

VARIABLES
  scene,   (* The scenario of this realm.                                  *)
  clock,   (* Operations published so far: the time.                       *)
  log,     (* Each topic: what was ever published to it, and when.         *)
  ask,     (* The asker's present request.                                 *)
  expired, (* The requests whose deadline has passed.                      *)
  resp     (* Each responder: its requests, and replies not yet sent.      *)

exchange == <<scene, clock, log, ask, expired, resp>>

Faulty == "fail" \in scene.may

(* item: whether it is about the topic's work item, which was opened as the *)
(* topic was.                                                              *)
Op  == [kind : Kinds, at : Nat, item : BOOLEAN]
Ref == Topics \X Nat

(***************************************************************************)
(* Topics                                                                  *)
(***************************************************************************)

(* Events of the item, and comments or attachments anchored to it or not:  *)
(* a difference that only the curator's fourth habit sees.                 *)
About(kind) ==
  IF kind \in {"claim", "drop", "done"} THEN {TRUE}
  ELSE IF kind \in {"talk", "flag", "nudge"} /\ 4 \in scene.habits THEN BOOLEAN
  ELSE {FALSE}
Published(t, kind) ==
  /\ \E item \in About(kind) :
       log' = [log EXCEPT ![t] = Append(@, [kind |-> kind, at |-> clock + 1,
                                            item |-> item])]
  /\ clock' = clock + 1

Is(t, v, kinds) == {i \in 1 .. v : log[t][i].kind \in kinds}
IsLatest(i, S) == i \in S /\ \A j \in S : j <= i
Latest(S) == IF \E i \in S : IsLatest(i, S) THEN CHOOSE i \in S : IsLatest(i, S)
             ELSE 0

(* The stream holds a topic from its latest baseline on.                   *)
Live(t) == LET b == Latest(Is(t, Len(log[t]), {"baseline"}))
           IN  {i \in 1 .. Len(log[t]) : i >= b}

(* ContainsOp: the ids a view shows are its elements', its baseline's and  *)
(* its leaf's.                                                             *)
Shown(t) ==
  LET v == Len(log[t])
      leaf == Latest(Is(t, v, Kinds \ {"baseline"}))
  IN  (Is(t, v, {"talk", "claim", "drop", "done", "flag", "nudge"})
       \union {Latest(Is(t, v, {"baseline"})), leaf}) \ {0}

(***************************************************************************)
(* Requests, replies and what an asker makes of them                       *)
(***************************************************************************)

Request == [n : Nat, kind : AskKinds, hits : SUBSET Topics, op : SUBSET Ref]

(* A reply to request `to`: the topics found and as of which length; or    *)
(* the operation cited, if any; or the one exhibited and how it verifies.  *)
Reply == [to : Nat, by : Responders, sig : Sigs, found : SUBSET Ref,
          op : SUBSET Ref, verdict : Sigs]

Credit == [persona : {Persona[r] : r \in Responders}, sig : Sigs, to : Nat]
Answer == [reply : Reply, grade : {"gossip", "fact", "unverifiable"}]

(* memo: the ids each topic read for grading shows, {0} when not read.     *)
Ask == [n : Nat, pc : {"idle", "probing", "gathering", "done"},
        kind : AskKinds, hits : SUBSET Topics, op : SUBSET Ref,
        inbox : Seq(Reply), alone : BOOLEAN, live : BOOLEAN,
        results : [Topics -> [entry : Nat, answers : Seq(Credit)]],
        answers : Seq(Answer), memo : [Topics -> SUBSET Nat],
        held : SUBSET Reply, read : Seq(Reply)]

Asking(n, kind) ==
  [n |-> n, pc |-> "idle", kind |-> kind, hits |-> {}, op |-> {},
   inbox |-> <<>>, alone |-> FALSE, live |-> FALSE,
   results |-> [t \in Topics |-> [entry |-> 0, answers |-> <<>>]],
   answers |-> <<>>, memo |-> [t \in Topics |-> {0}],
   held |-> {}, read |-> <<>>]

(* WRONG: a persona is credited as often as it repeats itself.             *)
Credited_Wrong(answers, persona) == FALSE
Credited(answers, persona) ==
  \E i \in 1 .. Len(answers) : answers[i].persona = persona

(* mergeReply: the entry first reported stands, and each persona has one   *)
(* credit for a topic.                                                     *)
MergeReply(results, r) ==
  [t \in Topics |->
     LET old == results[t]
         as  == {m \in r.found : m[1] = t}
     IN  IF as = {} THEN old
         ELSE [entry |-> IF old.answers = <<>>
                         THEN (CHOOSE m \in as : TRUE)[2] ELSE old.entry,
               answers |-> IF Credited(old.answers, Persona[r.by])
                           THEN old.answers
                           ELSE Append(old.answers,
                                  [persona |-> Persona[r.by], sig |-> r.sig,
                                   to |-> r.to])]]

(* WRONG: every citation is checked against the topic as it is then.       *)
Checked_Wrong(memo, refs) ==
  [t \in Topics |-> IF \E c \in refs : c[1] = t THEN Shown(t) ELSE memo[t]]
(* citationGrader: one materialisation for each topic cited.               *)
Checked(memo, refs) ==
  [t \in Topics |-> IF memo[t] = {0} /\ \E c \in refs : c[1] = t
                    THEN Shown(t) ELSE memo[t]]
Grade(memo, refs) ==
  CASE refs = {} -> "gossip"
    [] \E c \in refs : c[2] \in memo[c[1]] -> "fact"
    [] OTHER -> "unverifiable"

(* What FetchExhibit looks at: not a tampered reply, nor another document  *)
(* than the one asked for, nor one that fails to verify.                   *)
Acceptable(a, r) == r.sig # "failed" /\ r.op = a.op /\ r.verdict # "failed"

(***************************************************************************)
(* The asker                                                               *)
(***************************************************************************)

Listening == {r \in Responders : resp[r].up}

(* The request goes to every responder that listens.                       *)
Sent(a) ==
  resp' = [r \in Responders |->
    IF r \in Listening
    THEN [resp[r] EXCEPT !.queue = Append(@,
            [n |-> a.n, kind |-> a.kind, hits |-> a.hits, op |-> a.op])]
    ELSE resp[r]]

(* Discover and MemoryQuery: a fresh inbox, a deadline, the request.       *)
Begin ==
  \E kind \in {"discover", "query"} \intersect scene.asks,
     hits \in SUBSET Topics :
    LET a == [Asking(ask.n + 1, kind) EXCEPT
                !.pc = "gathering", !.hits = hits, !.alone = Listening = {}]
    IN  /\ ask.pc \in {"idle", "done"} /\ ask.n < scene.times
        /\ (kind = "query") = (hits = {})
        /\ ask' = a /\ Sent(a)
        /\ UNCHANGED <<scene, clock, log, expired>>

(* FetchExhibit looks in the stream first ...                              *)
Probe ==
  \E t \in Topics : \E i \in 1 .. Len(log[t]) :
    /\ ask.pc \in {"idle", "done"} /\ ask.n < scene.times
    /\ "fetch" \in scene.asks
    /\ ask' = [Asking(ask.n + 1, "fetch") EXCEPT
                 !.pc = "probing", !.op = {<<t, i>>}, !.live = i \in Live(t)]
    /\ UNCHANGED <<scene, clock, log, expired, resp>>

(* ... and finds the operation there, or asks for it.                      *)
CaptureExhibit ==
  /\ ask.pc = "probing"
  /\ \/ /\ ask.live
        /\ ask' = [ask EXCEPT !.pc = "done"]
        /\ UNCHANGED resp
     \/ /\ \E c \in ask.op : c[2] \notin Live(c[1])
        /\ ask' = [ask EXCEPT !.pc = "gathering", !.live = FALSE,
                              !.alone = Listening = {}]
        /\ Sent(ask)
  /\ UNCHANGED <<scene, clock, log, expired>>

Deadline ==
  \E n \in 1 .. ask.n :
    /\ n \notin expired
    /\ (n = ask.n => ask.pc # "probing")
    /\ expired' = expired \union {n}
    /\ UNCHANGED <<scene, clock, log, ask, resp>>

InTime == ask.pc = "gathering" /\ ask.n \notin expired /\ ~ask.alone

GatherMatch ==
  LET r == Head(ask.inbox)
  IN  /\ InTime /\ ask.kind = "discover" /\ ask.inbox # <<>>
      /\ ask' = [ask EXCEPT !.inbox = Tail(@),
                            !.results = MergeReply(@, r)]
      /\ UNCHANGED <<scene, clock, log, expired, resp>>

(* An answer is kept, unless it was tampered with, with its citation       *)
(* graded.                                                                 *)
GatherAnswer ==
  LET r == Head(ask.inbox)
      memo == Checked(ask.memo, r.op)
  IN  /\ InTime /\ ask.kind = "query" /\ ask.inbox # <<>>
      /\ Len(ask.answers) < MaxAnswers
      /\ ask' = IF r.sig = "failed" THEN [ask EXCEPT !.inbox = Tail(@)]
                ELSE [ask EXCEPT !.inbox = Tail(@), !.memo = memo,
                        !.answers = Append(@, [reply |-> r,
                                       grade |-> Grade(memo, r.op)])]
      /\ UNCHANGED <<scene, clock, log, expired, resp>>

(* WRONG: the first exhibit is good enough.                                *)
Weigh_Wrong(a, r) ==
  IF ~Acceptable(a, r) THEN a ELSE [a EXCEPT !.held = {r}, !.pc = "done"]
(* A verified exhibit wins at once; the first of the others is held back.  *)
Weigh(a, r) ==
  CASE ~Acceptable(a, r) -> a
    [] Acceptable(a, r) /\ r.verdict = "verified" ->
         [a EXCEPT !.held = {r}, !.pc = "done"]
    [] OTHER -> [a EXCEPT !.held = IF @ = {} THEN {r} ELSE @]

GatherExhibit ==
  LET r == Head(ask.inbox)
  IN  /\ InTime /\ ask.kind = "fetch" /\ ask.inbox # <<>>
      /\ ask' = Weigh([ask EXCEPT !.inbox = Tail(@),
                                  !.read = Append(@, r)], r)
      /\ UNCHANGED <<scene, clock, log, expired, resp>>

(* The deadline, the cap on answers, nobody there at all - or the caller   *)
(* gave up, and has an error.                                              *)
Finish ==
  /\ ask.pc = "gathering"
  /\ \/ /\ ~InTime \/ (ask.kind = "query" /\ Len(ask.answers) >= MaxAnswers)
        /\ ask' = [ask EXCEPT !.pc = "done", !.inbox = <<>>]
     \/ ask' = Asking(ask.n, ask.kind)
  /\ UNCHANGED <<scene, clock, log, expired, resp>>

(***************************************************************************)
(* The responders                                                          *)
(***************************************************************************)

Responder == [up : BOOLEAN, queue : Seq(Request), draft : Seq(Reply)]
Off == [up |-> FALSE, queue |-> <<>>, draft |-> <<>>]

Serve(r) ==
  /\ ~resp[r].up /\ (scene.times > 0 \/ "ask" \in scene.may)
  /\ resp' = [resp EXCEPT ![r].up = TRUE]
  /\ UNCHANGED <<scene, clock, log, ask, expired>>

(* A responder that stops takes with it what it heard.                     *)
Stop(r) ==
  /\ resp[r].up
  /\ resp' = [resp EXCEPT ![r] = Off]
  /\ UNCHANGED <<scene, clock, log, ask, expired>>

Says(r, q) == [to |-> q.n, by |-> r, sig |-> "verified", found |-> {},
               op |-> {}, verdict |-> "verified"]

(* matchEntries: the first Limit of the topics that match, in board order, *)
(* as the board has them.                                                  *)
Capped(S) == {t \in S : Cardinality({u \in S : u < t}) < Limit}
Matches(r, q) ==
  LET S == Capped(q.hits)
  IN  IF S = {} THEN {<<>>}
      ELSE {<<[Says(r, q) EXCEPT !.sig = s,
                 !.found = {<<t, Len(log[t])>> : t \in S}]>> :
              s \in {"verified", "unsigned"}}

(* What a witness says is its own affair: it may cite anything, or nothing *)
Citations ==
  {{}} \union {{<<t, i>>} : t \in {u \in Topics : log[u] # <<>>},
                          i \in 1 .. scene.most + 1}
Cites(r, q, s, c) == [Says(r, q) EXCEPT !.sig = s, !.op = c]
Testimony(r, q) ==
  {<<>>} \union {<<Cites(r, q, s, c)>> :
                   s \in {"verified", "failed"}, c \in Citations}

(* An exhibit: of the operation asked for or of another, as signed or      *)
(* unsigned or damaged since.                                              *)
Exhibits(r, q) ==
  {<<>>} \union {<<[Cites(r, q, s, c) EXCEPT !.verdict = v]>> :
                   s \in {"verified", "failed"}, c \in {q.op, {}}, v \in Sigs}

Draft(r, q) ==
  CASE q.kind = "discover" -> Matches(r, q)
    [] q.kind = "query"    -> Testimony(r, q)
    [] OTHER               -> Exhibits(r, q)

(* The handler: a stale request is dropped, any other answered, or not.    *)
Hear(r) ==
  LET q == Head(resp[r].queue)
      x == [resp[r] EXCEPT !.queue = Tail(@)]
  IN  /\ resp[r].draft = <<>> /\ resp[r].queue # <<>>
      /\ q.kind = "discover" => r \in Boards
      /\ \/ /\ q.n \notin expired
            /\ \E d \in Draft(r, q) :
                 resp' = [resp EXCEPT ![r] = [x EXCEPT !.draft = d]]
         \/ resp' = [resp EXCEPT ![r] = x]
      /\ UNCHANGED <<scene, clock, log, ask, expired>>

(* WRONG: the asker has one inbox for all it asks.                         *)
Arrives_Wrong(m) == ask.pc = "gathering"
(* A reply arrives at the inbox it was sent to, while somebody listens.    *)
Arrives(m) == ask.pc = "gathering" /\ m.to = ask.n
Send(r) ==
  LET m == Head(resp[r].draft)
  IN  /\ resp[r].draft # <<>>
      /\ resp' = [resp EXCEPT ![r].draft = Tail(@)]
      /\ ask' = IF Arrives(m) THEN [ask EXCEPT !.inbox = Append(@, m)] ELSE ask
      /\ UNCHANGED <<scene, clock, log, expired>>

(* The topics have been started: announced, and given their baseline.      *)
ExchangeInit ==
  /\ scene \in Scenarios
  /\ clock = Cardinality({t \in Topics : scene.start[t] = 1})
  /\ log = [t \in Topics |->
       IF scene.start[t] = 0 THEN <<>>
       ELSE LET before == {u \in Topics : scene.start[u] = 1 /\ u <= t}
            IN  <<[kind |-> "baseline", at |-> Cardinality(before),
                   item |-> FALSE]>>]
  /\ ask = Asking(0, "discover") /\ expired = {}
  /\ resp = [r \in Responders |-> Off]

Asker == \/ Begin \/ Probe \/ CaptureExhibit \/ Deadline
         \/ GatherMatch \/ GatherAnswer \/ GatherExhibit \/ Finish
ExchangeNext ==
  \/ Asker
  \/ \E r \in Responders : Serve(r) \/ Stop(r) \/ Hear(r) \/ Send(r)

(***************************************************************************)
(* Properties                                                              *)
(***************************************************************************)

ExchangeTypeOK ==
  /\ scene \in Scenarios
  /\ clock \in Nat
  /\ log \in [Topics -> Seq(Op)]
  /\ ask \in Ask
  /\ expired \subseteq Nat
  /\ resp \in [Responders -> Responder]

(* What an ask gathers was said in reply to it, however late the answers   *)
(* to earlier ones are; each persona is credited once for a topic; what    *)
(* was tampered with is no testimony.                                      *)
OneVoiceEach ==
  /\ \A t \in Topics :
       LET answers == ask.results[t].answers
       IN  /\ \A i \in 1 .. Len(answers) : answers[i].to = ask.n
           /\ \A i, j \in 1 .. Len(answers) :
                answers[i].persona = answers[j].persona => i = j
  /\ \A i \in 1 .. Len(ask.answers) :
       /\ ask.answers[i].reply.to = ask.n
       /\ ask.answers[i].reply.sig # "failed"
  /\ \A r \in ask.held : r.to = ask.n /\ Acceptable(ask, r)

(* Among what a fetch heard: what it can accept, what is verified too, and *)
(* the first of either.                                                    *)
Good(a) == {i \in 1 .. Len(a.read) : Acceptable(a, a.read[i])}
Sure(a) == {i \in Good(a) : a.read[i].verdict = "verified"}
FirstOf(a, S) == {a.read[i] : i \in {j \in S : \A k \in S : j <= k}}

(* A fetch gives up on a verified exhibit only at the deadline, or when    *)
(* nobody is there; and what it returns instead is what it heard first.    *)
FetchBest ==
  ask.kind = "fetch" /\ ask.pc = "done" /\ ~ask.live =>
    IF Sure(ask) # {} THEN ask.held = FirstOf(ask, Sure(ask))
    ELSE /\ ask.n \in expired \/ ask.alone
         /\ ask.held = FirstOf(ask, Good(ask))

(* Witnesses who cite the same operation get the same grade for it, also   *)
(* when the topic is compacted while their answers arrive.                 *)
SameGrade ==
  \A i, j \in 1 .. Len(ask.answers) :
    ask.answers[i].reply.op = ask.answers[j].reply.op
      => ask.answers[i].grade = ask.answers[j].grade
=============================================================================
