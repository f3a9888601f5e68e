------------------------------ MODULE Curator -------------------------------
(***************************************************************************)
(* The curator (curator/): a persona that keeps the topics it has read in  *)
(* memory, reads again those it hears of, answers discovery from what it   *)
(* has, and makes the rounds: it flags look-alikes, proposes to close what *)
(* is quiet, marks it dormant and reopens work claimed long ago.  Two      *)
(* goroutines share its memory: `run`, which makes the rounds, and         *)
(* `answer`, which refreshes it before each answer.                        *)
(***************************************************************************)
EXTENDS Exchange

CONSTANTS
  Me,     (* The curator among the responders.                              *)
  Alike   (* The pairs of topics whose announcements look alike.            *)

ASSUME CuratorAssumption == Me \in Responders \ Boards

VARIABLES
  coming,  (* The operation on its way to each topic's stream, if any.      *)
  signals, (* The topics whose message the curator's subscription brings.   *)
  aged,    (* What was published until then is older than the idle window.  *)
  cache,   (* How much of each topic the curator has in memory, 0 for none. *)
  dirty,   (* The topics it is to read again.                               *)
  thread,  (* Its two goroutines.                                           *)
  rounds,  (* Rounds made so far.                                           *)
  (* History variables.                                                     *)
  own,     (* The notes it left itself.                                     *)
  excused, (* Why what it has of a topic may be out of date.                *)
  blurred  (* The topics it had no fresh view of when its pass began.       *)

memory  == <<cache, dirty, thread>>
history == <<own, excused, blurred>>
vars == <<exchange, coming, signals, aged, memory, rounds, history>>

Habits  == 1 .. 4    (* duplicates, dormancy, marking, reclaiming           *)
Threads == {"run", "answer"}
Thread == [pc : {"off", "subscribed", "idle", "sweep", "keep", "pass", "act"},
           left : SUBSET Topics, at : SUBSET Topics, view : Nat,
           habit : 0 .. 4, now : Nat, request : SUBSET Request]
Resting == [pc |-> "off", left |-> {}, at |-> {}, view |-> 0, habit |-> 0,
            now |-> 0, request |-> {}]
Blank == [t \in Topics |-> 0]
Idle == [Resting EXCEPT !.pc = "idle"]
Go(th, x) == thread' = [thread EXCEPT ![th] = x]

Run     == thread["run"]
Hearing == Run.pc # "off"
Ready   == Run.pc \notin {"off", "subscribed"}
Lately(tag, S) == [t \in Topics |-> IF t \in S THEN excused[t] \union {tag}
                                    ELSE excused[t]]

(***************************************************************************)
(* What a view of a topic says                                             *)
(***************************************************************************)

At(t, i) == IF i = 0 THEN 0 ELSE log[t][i].at
Newest(t, v, kinds) ==
  At(t, Latest(Is(t, v, kinds)))

(* buildCached: suggestions are no activity, but the clock of dormancy     *)
(* counts them; the latest baseline is what a view knows of the birth.     *)
LastReal(t, v) ==
  Newest(t, v, {"baseline", "talk", "claim", "drop", "done"})
LastAny(t, v)  == Newest(t, v, Kinds \ {"mark", "close"})
Birth(t, v)    == Newest(t, v, {"baseline"})
Closed(t, v)   == Is(t, v, {"close"}) # {}
Dormant(t, v)  ==
  Newest(t, v, {"mark"}) > Newest(t, v, Kinds \ {"baseline", "mark", "close"})

HasDuplicateFlag(t, v) == Is(t, v, {"flag"}) # {}
HasDormantFlag(t, v)   == Newest(t, v, {"nudge"}) > LastReal(t, v)

(* WorkClaimed: the claim that holds the work item, the first since it was *)
(* last open; once it is done, nothing holds it.                           *)
Holding(t, v) ==
  {i \in Is(t, v, {"claim"}) :
     /\ \A j \in Is(t, i - 1, {"claim"}) : \E k \in Is(t, i, {"drop"}) : k > j
     /\ \A k \in Is(t, v, {"drop"}) : k < i
     /\ Is(t, v, {"done"}) = {}}

(* What counts as activity on the item: all its events, the void ones too, *)
(* and the comments and attachments anchored to it.                        *)
Related(t, v) == {i \in 1 .. v : log[t][i].item}

(* WRONG: only the claim itself counts.                                    *)
StaleClaim_Wrong(t, v, now) == \E i \in Holding(t, v) : log[t][i].at <= now
StaleClaim(t, v, now) ==
  Holding(t, v) # {} /\ \A i \in Related(t, v) : log[t][i].at <= now

Older(t, u, snap) ==
  LET b == Birth(t, snap[t])
      c == Birth(u, snap[u])
  IN  snap[u] > 0 /\ (c < b \/ (c = b /\ u < t))

(* What each habit looks for in a view, or among them: an open topic that   *)
(* looks like an older one and does not say so yet; one that was quiet for  *)
(* long and not told so; one without any sign of life; a claim grown old.  *)
Doubles(t, snap) ==
  /\ ~Closed(t, snap[t]) /\ ~HasDuplicateFlag(t, snap[t])
  /\ \E u \in Topics : {t, u} \in Alike /\ Older(t, u, snap)
Rests(t, v, now) ==
  ~Closed(t, v) /\ ~HasDormantFlag(t, v) /\ LastReal(t, v) <= now
DormantEligible(t, v, now) ==
  ~Closed(t, v) /\ ~Dormant(t, v) /\ LastAny(t, v) <= now

(* Whether a habit wants to act on topic t, from the views of snap.        *)
Wants(habit, t, snap, now) ==
  /\ snap[t] > 0
  /\ CASE habit = 1 -> Doubles(t, snap)
       [] habit = 2 -> Rests(t, snap[t], now)
       [] habit = 3 -> DormantEligible(t, snap[t], now)
       [] OTHER     -> StaleClaim(t, snap[t], now)

(* WRONG: what the memory says is acted upon.                              *)
StillWants_Wrong(habit, t, v, now) == TRUE
(* dormantMarkPass and reclaimPass look again before they act; comment     *)
(* reads the topic too, but only for where to attach the note.             *)
StillWants(habit, t, v, now) ==
  habit \in {3, 4} => Wants(habit, t, [Blank EXCEPT ![t] = v], now)

Note(habit) == <<"flag", "nudge", "mark", "drop">>[habit]

(***************************************************************************)
(* The realm around the curator                                            *)
(***************************************************************************)

(* Somebody publishes; subscribers may hear of it before it is stored.     *)
Post(t) ==
  \E kind \in scene.ops :
    /\ coming[t] = {} /\ clock < scene.most
    /\ (log[t] = <<>>) => kind = "baseline"
    /\ coming' = [coming EXCEPT ![t] = {kind}]
    /\ signals' = IF Hearing THEN signals \union {t} ELSE signals
    /\ UNCHANGED <<exchange, aged, memory, rounds, history>>

Stored(t) ==
  \E kind \in coming[t] :
    /\ Published(t, kind)
    /\ coming' = [coming EXCEPT ![t] = {}]
    /\ excused' = IF t \in signals THEN excused ELSE Lately("stale", {t})
    /\ UNCHANGED <<scene, ask, expired, resp, signals, aged, memory, rounds,
                   own, blurred>>

(* Time passes: all that was published is older than the idle window.      *)
Age ==
  /\ scene.habits \ {1} # {} /\ aged # clock
  /\ aged' = clock
  /\ UNCHANGED <<exchange, coming, signals, memory, rounds, history>>

(***************************************************************************)
(* The projection                                                          *)
(***************************************************************************)

(* newProjection subscribes first ...                                      *)
Subscribe ==
  /\ Run.pc = "off" /\ rounds < scene.rounds
  /\ Go("run", [Resting EXCEPT !.pc = "subscribed"])
  /\ UNCHANGED <<exchange, coming, signals, aged, cache, dirty, rounds,
                 history>>

(* ... then takes the board's topics, and reads them.                      *)
Seed ==
  /\ Run.pc = "subscribed"
  /\ dirty' = {}
  /\ Go("run", [Resting EXCEPT !.pc = "sweep", !.left = Topics])
  /\ UNCHANGED <<exchange, coming, signals, aged, cache, rounds, history>>

(* The subscription marks what it hears of.                                *)
Signal(t) ==
  /\ t \in signals
  /\ signals' = signals \ {t}
  /\ dirty' = dirty \union {t}
  /\ UNCHANGED <<exchange, coming, aged, cache, thread, rounds, history>>

(* WRONG: a topic that cannot be read is forgotten.                        *)
ReadFails_Wrong(th) ==
  \E t \in thread[th].left :
    /\ Faulty /\ thread[th].pc = "sweep"
    /\ excused' = Lately("behind", {t})
    /\ Go(th, [thread[th] EXCEPT !.left = @ \ {t}])
    /\ UNCHANGED <<exchange, coming, signals, aged, cache, dirty, rounds, own,
                 blurred>>

(* refresh: each topic marked is read; a failure marks it again ...        *)
ReadFails(th) ==
  \E t \in thread[th].left :
    /\ Faulty /\ thread[th].pc = "sweep"
    /\ dirty' = dirty \union {t}
    /\ excused' = Lately("behind", {t})
    /\ Go(th, [thread[th] EXCEPT !.left = @ \ {t}])
    /\ UNCHANGED <<exchange, coming, signals, aged, cache, rounds, own,
                 blurred>>

Read(th) ==
  \E t \in thread[th].left :
    /\ thread[th].pc = "sweep"
    /\ Go(th, [thread[th] EXCEPT !.pc = "keep", !.left = @ \ {t}, !.at = {t},
                                 !.view = Len(log[t])])
    /\ UNCHANGED <<exchange, coming, signals, aged, cache, dirty, rounds,
                 history>>

(* ... and what was read is kept, over whatever is there by then.          *)
Keep(th) ==
  \E t \in thread[th].at :
    /\ thread[th].pc = "keep"
    /\ cache' = [cache EXCEPT ![t] = thread[th].view]
    /\ excused' = IF thread[th].view < cache[t] THEN Lately("stale", {t})
                  ELSE IF thread[th].view = Len(log[t])
                  THEN [excused EXCEPT ![t] = {}] ELSE excused
    /\ Go(th, [thread[th] EXCEPT !.pc = "sweep", !.at = {}, !.view = 0])
    /\ UNCHANGED <<exchange, coming, signals, aged, dirty, rounds, own,
                 blurred>>

Swept(th) == thread[th].pc = "sweep" /\ thread[th].left = {}

(***************************************************************************)
(* Answering discovery                                                     *)
(***************************************************************************)

(* A request for the curator, of the asker or of somebody else.            *)
Asked ==
  /\ thread["answer"].pc = "idle" /\ resp[Me].draft = <<>>
  /\ \/ /\ resp[Me].queue # <<>> /\ Head(resp[Me].queue).kind = "discover"
        /\ LET q == Head(resp[Me].queue)
           IN  Go("answer",
                 IF q.n \in expired THEN thread["answer"]
                 ELSE [Idle EXCEPT !.pc = "sweep", !.left = dirty,
                                   !.request = {q}])
        /\ resp' = [resp EXCEPT ![Me].queue = Tail(@)]
        /\ dirty' = IF Head(resp[Me].queue).n \in expired THEN dirty ELSE {}
     \/ /\ "ask" \in scene.may /\ dirty # {}
        /\ Go("answer", [Idle EXCEPT !.pc = "sweep", !.left = dirty])
        /\ dirty' = {} /\ UNCHANGED resp
  /\ UNCHANGED <<scene, clock, log, ask, expired, coming, signals, aged, cache,
                 rounds, history>>

(* search: any Limit of the topics that match, as the memory has them.     *)
Search ==
  /\ Swept("answer")
  /\ IF thread["answer"].request = {} THEN UNCHANGED resp
     ELSE \E q \in thread["answer"].request :
          \E S \in SUBSET {t \in q.hits : cache[t] > 0} :
            /\ Cardinality(S) <= Limit
            /\ S = {} => \A t \in q.hits : cache[t] = 0
            /\ resp' = IF S = {} THEN resp
                 ELSE [resp EXCEPT ![Me].draft = <<[Says(Me, q) EXCEPT
                         !.found = {<<t, cache[t]>> : t \in S}]>>]
  /\ Go("answer", Idle)
  /\ UNCHANGED <<scene, clock, log, ask, expired, coming, signals, aged, cache,
                 dirty, rounds, history>>

(***************************************************************************)
(* The rounds                                                              *)
(***************************************************************************)

(* A tick: refresh, then one habit after the other.                        *)
Tick ==
  /\ Run.pc = "idle" /\ rounds < scene.rounds
  /\ rounds' = rounds + 1
  /\ Go("run", [Resting EXCEPT !.pc = "sweep", !.left = dirty, !.habit = 1])
  /\ dirty' = {}
  /\ UNCHANGED <<exchange, coming, signals, aged, cache, history>>

(* A habit looks at what the memory holds as its pass begins.              *)
Round(habit) ==
  [Resting EXCEPT !.pc = "pass", !.habit = habit, !.now = aged,
                  !.left = {t \in Topics : Wants(habit, t, cache, aged)}]

(* The first refresh done, the projection is ready and answers; any other, *)
(* the round begins.                                                       *)
Refreshed ==
  /\ Swept("run")
  /\ thread' = IF Run.habit = 0
               THEN [thread EXCEPT !["run"] = Idle, !["answer"] = Idle]
               ELSE [thread EXCEPT !["run"].pc = "pass", !["run"].habit = 0]
  /\ UNCHANGED <<exchange, coming, signals, aged, cache, dirty, rounds,
                 history>>

(* The next habit with something to do; what cannot be read is left alone. *)
NextHabit ==
  /\ Run.pc = "pass"
  /\ \/ \E habit \in scene.habits :
          /\ habit > Run.habit /\ Round(habit).left # {}
          /\ Go("run", Round(habit))
          /\ blurred' = thread["answer"].left \union thread["answer"].at
                           \union {t \in Topics : excused[t] # {}}
     \/ Go("run", Idle) /\ blurred' = {}
  /\ UNCHANGED <<exchange, coming, signals, aged, cache, dirty, rounds, own,
                 excused>>

(* A topic is read, and acted upon.                                        *)
Judge ==
  \E t \in Run.left :
    LET fresh == Len(log[t])
        x == [Run EXCEPT !.left = @ \ {t}]
    IN  /\ Run.pc = "pass"
        /\ Go("run", IF StillWants(Run.habit, t, fresh, Run.now)
                     THEN [x EXCEPT !.pc = "act", !.at = {t}, !.view = fresh]
                     ELSE x)
        /\ UNCHANGED <<exchange, coming, signals, aged, cache, dirty, rounds,
                       history>>

(* WRONG: the topic is not marked: its message will do that.               *)
Marks_Wrong(t) == dirty
Marks(t) == dirty \union {t}

(* The operation is stored and acknowledged; or stored only; or neither.   *)
Act ==
  \E t \in Run.at :
    LET kind == Note(Run.habit)
        i == Len(log[t]) + 1
    IN  /\ Run.pc = "act"
        /\ \/ /\ Published(t, kind)
              /\ signals' = signals \union {t}
              /\ own' = own \union {<<t, i>>}
              /\ \/ dirty' = Marks(t) /\ UNCHANGED excused
                 \/ /\ Faulty /\ UNCHANGED dirty
                    /\ excused' = Lately("behind", {t})
           \/ Faulty /\ UNCHANGED <<clock, log, signals, own, dirty, excused>>
        /\ Go("run", [Run EXCEPT !.pc = "pass", !.at = {}, !.view = 0])
        /\ UNCHANGED <<scene, ask, expired, resp, coming, aged, cache, rounds,
                       blurred>>

(* The curator stops, and forgets everything.                              *)
Dies ==
  /\ Faulty /\ Hearing
  /\ thread' = [th \in Threads |-> Resting]
  /\ cache' = Blank /\ dirty' = {} /\ signals' = {}
  /\ resp' = [resp EXCEPT ![Me] = Off]
  /\ excused' = [t \in Topics |-> {}] /\ blurred' = {}
  /\ UNCHANGED <<scene, clock, log, ask, expired, coming, aged, rounds, own>>

(***************************************************************************)
(* The system                                                              *)
(***************************************************************************)

Init ==
  /\ ExchangeInit
  /\ coming = [t \in Topics |-> {}] /\ signals = {} /\ aged = 0
  /\ cache = Blank /\ dirty = {}
  /\ thread = [th \in Threads |-> Resting]
  /\ rounds = 0 /\ own = {} /\ excused = [t \in Topics |-> {}]
  /\ blurred = {}

(* The curator serves once its projection is ready; where there is none,   *)
(* its process is a responder like any other.                              *)
Serves(r) == r = Me /\ scene.rounds > 0 => thread["answer"].pc = "idle"
Stops(r)  == r = Me => scene.rounds = 0

Refresh(th) == Read(th) \/ ReadFails(th) \/ Keep(th)
Rounds == Tick \/ Refreshed \/ Judge \/ NextHabit \/ Act \/ Dies

Next ==
  \/ Asker /\ UNCHANGED <<coming, signals, aged, memory, rounds, history>>
  \/ \E r \in Responders :
       /\ \/ Serves(r) /\ Serve(r)
          \/ Stops(r) /\ Stop(r)
          \/ Hear(r)
          \/ Send(r)
       /\ UNCHANGED <<coming, signals, aged, memory, rounds, history>>
  \/ \E t \in Topics : Post(t) \/ Stored(t) \/ Signal(t)
  \/ Age \/ Subscribe \/ Seed \/ Asked \/ Search
  \/ \E th \in Threads : Refresh(th)
  \/ Rounds

Spec == Init /\ [][Next]_vars

(***************************************************************************)
(* Properties                                                              *)
(***************************************************************************)

TypeOK ==
  /\ ExchangeTypeOK
  /\ coming \in [Topics -> SUBSET Kinds]
  /\ signals \subseteq Topics /\ dirty \subseteq Topics
  /\ aged \in Nat /\ rounds \in Nat
  /\ cache \in [Topics -> Nat]
  /\ thread \in [Threads -> Thread]
  /\ own \subseteq (Topics \X Nat)
  /\ excused \in [Topics -> SUBSET {"stale", "behind"}]
  /\ blurred \subseteq Topics

(* A topic the curator has not all of is marked, being read, or about to   *)
(* be heard of - unless a message overtook its operation's storing, or an  *)
(* older reading was kept over a younger one.                              *)
FreshOrDirty ==
  Ready => \A t \in Topics :
    \/ cache[t] = Len(log[t])
    \/ t \in dirty \union signals
    \/ \E th \in Threads :
         /\ thread[th].pc \in {"sweep", "keep"}
         /\ t \in thread[th].left
            \/ (t \in thread[th].at /\ thread[th].view = Len(log[t]))
    \/ "stale" \in excused[t]

(* The curator never repeats itself: no second flag, no second nudge in    *)
(* one quiet spell, also after a restart - unless its answering goroutine  *)
(* kept its memory from being fresh, or a call failed.                     *)
NeverRepeats ==
  [][\A t \in Topics : \A i \in {Len(log'[t])} :
       <<t, i>> \in own' \ own /\ t \notin blurred =>
         \A j \in 1 .. Len(log[t]) :
           /\ <<t, j>> \in own
           /\ log[t][j].kind = log'[t][i].kind
           => /\ log'[t][i].kind # "flag"
              /\ log'[t][i].kind = "nudge" =>
                   log[t][j].at < LastReal(t, Len(log[t]))]_vars

(* The topic is not marked dormant where anything just happened; and work  *)
(* is not given back unless it is in hand - claimed, not given back since, *)
(* never done - and nobody, by a claim that lost either, or by a comment   *)
(* or an attachment on it, showed lately that they are at it.  What was    *)
(* published since the curator last read the topic is excepted.            *)
ActsOnFresh ==
  [][\A t \in Topics : \A i \in {Len(log'[t])} :
       <<t, i>> \in own' \ own /\ Len(log[t]) = Run.view =>
         /\ log'[t][i].kind = "mark" => LastAny(t, Len(log[t])) <= aged
         /\ log'[t][i].kind = "drop" =>
              /\ \A j \in 1 .. Len(log[t]) :
                   /\ log[t][j].kind # "done"
                   /\ log[t][j].item => log[t][j].at <= aged
              /\ \E j \in 1 .. Len(log[t]) :
                   /\ log[t][j].kind = "claim"
                   /\ \A k \in j .. Len(log[t]) : log[t][k].kind # "drop"]_vars

(* What the documentation says of the flag: it is pinned in the newer of   *)
(* two look-alike topics.                                                  *)
NotesInNewer ==
  \A m \in own :
    log[m[1]][m[2]].kind = "flag" =>
      \E u \in Topics : {m[1], u} \in Alike /\ log[u] # <<>>
                        /\ log[u][1].at < log[m[1]][1].at
=============================================================================
