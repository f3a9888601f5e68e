-------------------------------- MODULE Mail --------------------------------
(***************************************************************************)
(* Provisioning a realm, and the notifications that live in it: how the    *)
(* realm gets its identity and its streams, how a realm of the old shape   *)
(* has its inboxes moved (realm/provision.go, identity.go), and how a turn *)
(* that mentions personas is posted, retried under its own id and          *)
(* announced to them one by one (topic/post.go, mention.go, notify.go).    *)
(*                                                                         *)
(* The server is modelled by what the code asks of it: a stream stores a   *)
(* message of a subject it captures unless its id is in the duplicate      *)
(* window; the inbox stream keeps the newest Window messages of a persona. *)
(***************************************************************************)
EXTENDS Integers, Sequences, FiniteSets, SequencesExt

CONSTANTS
  Personas,     (* The personas a turn mentions.                            *)
  Posters,      (* The callers, each with one turn to post under an id of   *)
                (* its own; Posters also names those ids.                   *)
  Provisioners, (* The processes that provision the realm.                  *)
  Old,          (* The id of a turn of the old realm.                       *)
  Window,       (* InboxWindow.                                             *)
  Tapped,       (* The personas an old realm holds notifications for ...    *)
  Residue,      (* ... and how many for each.                               *)
  Scenarios,    (* What may happen in a realm: that processes "fail": they  *)
                (* die and lose answers; that they are "slow", so that the  *)
                (* duplicate windows forget.  "alone" bounds a realm to one *)
                (* provisioner at a time.                                   *)
  MaxTries,     (* Bound: attempts at posting one turn.                     *)
  MaxRuns       (* Bound: provisioning runs.                                *)

ASSUME MailAssumption ==
  /\ Old \notin Posters
  /\ Tapped \subseteq Personas
  /\ Window \in Nat \ {0} /\ Residue \in Nat
  /\ Scenarios \subseteq SUBSET {"fail", "slow", "alone"}
  /\ MaxTries \in Nat /\ MaxRuns \in Nat

VARIABLES
  scene,     (* The scenario of this realm.                                 *)
  key,       (* The realm's identity, 0 before there is one: identities are *)
             (* numbered in the order in which they were put.               *)
  oplog,     (* The shape of the op-log stream.                            *)
  stored,    (* How often the stream holds each turn.                      *)
  recent,    (* The turn ids in its duplicate window.                      *)
  residue,   (* The notifications the op-log holds for each persona.       *)
  tray,      (* The inbox stream, once there is one.                       *)
  seen,      (* The notification ids in its duplicate window.              *)
  shelf,     (* The buckets that exist.                                    *)
  prov,      (* Each provisioner.                                          *)
  poster,    (* Each poster.                                               *)
  sent,      (* Notifications published so far; the last one's id.         *)
  runs,      (* Provisioning runs started.                                 *)
  (* History variables.                                                    *)
  accepted,  (* Every notification a stream ever stored, by persona.       *)
  shed,      (* Those that made room for others.                           *)
  late,      (* The turns retried after the duplicate window forgot them.  *)
  behind     (* The personas to whom an old note was moved after a younger *)
             (* one, or moved twice.                                       *)

server == <<key, oplog, stored, recent, residue, tray, seen, shelf>>
past   == <<accepted, shed, late, behind>>
vars   == <<scene, server, prov, poster, sent, runs, past>>

Faulty == "fail" \in scene

Note   == [id : Nat, op : Posters \union {Old}]
NoTray == [p \in Personas |-> <<>>]

(***************************************************************************)
(* Streams                                                                 *)
(***************************************************************************)

(* WRONG: one more than the window.                                        *)
Kept_Wrong(s) == IF Len(s) > Window + 1 THEN Tail(s) ELSE s

(* The inbox stream discards the oldest of a subject beyond the window.    *)
Kept(s) == IF Len(s) > Window THEN Tail(s) ELSE s
Dropped(s) == IF Len(s) > Window THEN {Head(s)} ELSE {}

(* A publish to p's inbox subject, wherever it is captured.                *)
PutInTray(p, n) ==
  IF <<p, n.id>> \in seen THEN UNCHANGED <<tray, seen, shed>>
  ELSE LET s == Append(tray.notes[p], n)
       IN  /\ tray' = [tray EXCEPT !.notes[p] = Kept(s)]
           /\ shed' = [shed EXCEPT ![p] = @ \union Dropped(s)]
           /\ seen' = seen \union {<<p, n.id>>}

Captured == tray.there \/ oplog = "legacy"

(* publishNotify to p, landing in the inbox stream or, in an old realm, in *)
(* the op-log.                                                             *)
Deliver(p, n) ==
  /\ IF tray.there THEN PutInTray(p, n) /\ UNCHANGED residue
     ELSE /\ residue' = [residue EXCEPT ![p] = Append(@, n)]
          /\ UNCHANGED <<tray, seen, shed>>
  /\ accepted' = [accepted EXCEPT ![p] = @ \union {n}]

(* WRONG: in the order of the stream.                                      *)
FetchInbox_Wrong(p, limit) ==
  LET all == tray.notes[p]
  IN  SubSeq(all, 1, IF Len(all) > limit THEN limit ELSE Len(all))

(* FetchInbox: newest first, at most limit.                                *)
FetchInbox(p, limit) ==
  LET all == Reverse(tray.notes[p])
  IN  SubSeq(all, 1, IF Len(all) > limit THEN limit ELSE Len(all))

(* Time passes, and the duplicate windows forget.                          *)
Expire ==
  /\ "slow" \in scene /\ (recent # {} \/ seen # {})
  /\ recent' = {} /\ seen' = {}
  /\ UNCHANGED <<scene, key, oplog, stored, residue, tray, shelf, prov, poster,
                 sent, runs, past>>

(***************************************************************************)
(* Posting a turn                                                          *)
(***************************************************************************)

Poster == [pc : {"idle", "notifying", "failed", "returned"},
           left : SUBSET Personas, tries : Nat, learned : Nat]
Provisioner == [pc : {"idle", "mint", "oplog", "shape", "tray", "moving",
                      "shelves", "done"},
                found : {"none", "legacy", "topics"}, converged : BOOLEAN,
                only : BOOLEAN, inboxes : SUBSET Personas,
                batch : Seq(Note), to : SUBSET Personas]

Resting == [pc |-> "idle", found |-> "none", converged |-> FALSE,
            only |-> FALSE, inboxes |-> {}, batch |-> <<>>, to |-> {}]

(* A fresh realm, or one of the old shape.                                 *)
OldNotes == [i \in 1 .. Residue |-> [id |-> i, op |-> Old]]
Init ==
  /\ scene \in Scenarios
  /\ oplog \in {"none", "legacy"}
  /\ key = 0 /\ recent = {} /\ seen = {} /\ shelf = {} /\ runs = 0
  /\ sent = IF oplog = "legacy" THEN Residue ELSE 0
  /\ residue = [p \in Personas |->
       IF oplog = "legacy" /\ p \in Tapped THEN OldNotes ELSE <<>>]
  /\ stored = [o \in Posters \union {Old} |->
                 IF o = Old /\ oplog = "legacy" THEN 1 ELSE 0]
  /\ tray = [there |-> FALSE, notes |-> NoTray]
  /\ prov = [v \in Provisioners |-> Resting]
  /\ poster = [h \in Posters |->
       [pc |-> "idle", left |-> {}, tries |-> 0, learned |-> 0]]
  /\ accepted = [p \in Personas |-> ToSet(residue[p])]
  /\ shed = [p \in Personas |-> {}]
  /\ late = {} /\ behind = {}

Set(h, x) == poster' = [poster EXCEPT ![h] = x]

(* Client.RealmKey: only success is remembered.                            *)
RealmKey(h) == IF poster[h].learned = 0 THEN key ELSE poster[h].learned

(* The turn's id is its duplicate-detection id; WRONG: it is not.          *)
Absorbed_Wrong(h) == FALSE
Absorbed(h) == h \in recent

(* PostTurnIdempotent, first and again: the op is stored unless its id is  *)
(* in the window.  A signed turn needs the realm's identity.               *)
Post(h) ==
  LET x == [poster[h] EXCEPT !.tries = @ + 1, !.learned = RealmKey(h)]
      Failing == Set(h, [x EXCEPT !.pc = "failed"])
  IN  /\ poster[h].pc \in {"idle", "failed"} /\ poster[h].tries < MaxTries
      /\ \/ /\ RealmKey(h) # 0 /\ oplog # "none"
            /\ stored' = IF Absorbed(h) THEN stored
                         ELSE [stored EXCEPT ![h] = @ + 1]
            /\ recent' = recent \union {h}
            /\ late' = IF h \notin recent /\ stored[h] > 0
                       THEN late \union {h} ELSE late
            /\ \/ Set(h, [x EXCEPT !.pc = "notifying", !.left = Personas])
               \/ (Faulty /\ Failing)
         \/ /\ RealmKey(h) = 0 \/ oplog = "none" \/ Faulty
            /\ Failing /\ UNCHANGED <<stored, recent, late>>
      /\ UNCHANGED <<scene, key, oplog, residue, tray, seen, shelf, prov, sent,
                     runs, accepted, shed, behind>>

(* WRONG: a notification that fails is passed over.                        *)
Notify_Wrong(h) ==
  \E p \in poster[h].left :
    LET x == [poster[h] EXCEPT !.left = @ \ {p}]
    IN  /\ poster[h].pc = "notifying"
        /\ \/ /\ Captured
              /\ Deliver(p, [id |-> sent + 1, op |-> h])
              /\ sent' = sent + 1
              /\ Set(h, x)
           \/ /\ ~Captured \/ Faulty
              /\ Set(h, x)
              /\ UNCHANGED <<residue, tray, seen, shed, accepted, sent>>
        /\ UNCHANGED <<scene, key, oplog, stored, recent, shelf, prov, runs,
                       late, behind>>

(* notifyMentions: whom the turn mentions, one after the other; the first  *)
(* failure ends the call with an error, the turn being stored.             *)
Notify(h) ==
  \E p \in poster[h].left :
    LET x == [poster[h] EXCEPT !.left = @ \ {p}]
        Failing == Set(h, [x EXCEPT !.pc = "failed", !.left = {}])
    IN  /\ poster[h].pc = "notifying"
        /\ \/ /\ Captured
              /\ Deliver(p, [id |-> sent + 1, op |-> h])
              /\ sent' = sent + 1
              /\ Set(h, x) \/ (Faulty /\ Failing)
           \/ /\ ~Captured \/ Faulty
              /\ Failing
              /\ UNCHANGED <<residue, tray, seen, shed, accepted, sent>>
        /\ UNCHANGED <<scene, key, oplog, stored, recent, shelf, prov, runs,
                       late, behind>>

Return(h) ==
  /\ poster[h].pc = "notifying" /\ poster[h].left = {}
  /\ Set(h, [poster[h] EXCEPT !.pc = "returned"])
  /\ UNCHANGED <<scene, server, prov, sent, runs, past>>

(***************************************************************************)
(* Provisioning                                                            *)
(***************************************************************************)

Goto(v, x) == prov' = [prov EXCEPT ![v] = x]
At(v, pc)  == prov[v].pc = pc
To(v, pc)  == Goto(v, [prov[v] EXCEPT !.pc = pc])
stage      == <<scene, poster, sent, accepted, late>>

(* provisionIdentity, of Provision or on its own (EnsureIdentity): an      *)
(* identity that stands is left alone.                                     *)
Start(v) ==
  \E only \in BOOLEAN :
    /\ prov[v].pc \in {"idle", "done"} /\ runs < MaxRuns
    /\ "alone" \in scene =>
         \A w \in Provisioners : prov[w].pc \in {"idle", "done"}
    /\ only => key = 0
    /\ runs' = runs + 1
    /\ Goto(v, [Resting EXCEPT !.only = only,
                               !.pc = IF key = 0 THEN "mint" ELSE "oplog"])
    /\ UNCHANGED <<server, stage, shed, behind>>

(* WRONG: the identity is put, whatever stands.                            *)
Mint_Wrong(v) ==
  /\ At(v, "mint")
  /\ key' = key + 1
  /\ IF prov[v].only THEN Goto(v, Resting) ELSE To(v, "oplog")
  /\ UNCHANGED <<oplog, stored, recent, residue, tray, seen, shelf, runs,
                 stage, shed, behind>>

(* kv.Create: the first of two racing identities wins.                     *)
Mint(v) ==
  /\ At(v, "mint")
  /\ key' = IF key = 0 THEN 1 ELSE key
  /\ IF prov[v].only THEN Goto(v, Resting) ELSE To(v, "oplog")
  /\ UNCHANGED <<oplog, stored, recent, residue, tray, seen, shelf, runs,
                 stage, shed, behind>>

(* provisionOpLog: looks the stream up ...                                 *)
LookUp(v) ==
  /\ At(v, "oplog")
  /\ Goto(v, [prov[v] EXCEPT !.pc = "shape", !.found = oplog])
  /\ UNCHANGED <<server, runs, stage, shed, behind>>

(* ... and creates it, or narrows the old shape, or leaves it.             *)
Shape(v) ==
  /\ At(v, "shape")
  /\ oplog' = "topics"
  /\ Goto(v, [prov[v] EXCEPT !.pc = "tray",
                             !.converged = prov[v].found = "legacy"])
  /\ UNCHANGED <<key, stored, recent, residue, tray, seen, shelf, runs, stage,
                 shed, behind>>

(* provisionNotify; migration follows only a run that narrowed.            *)
MakeTray(v) ==
  /\ At(v, "tray")
  /\ tray' = [tray EXCEPT !.there = TRUE]
  /\ Goto(v, IF prov[v].converged
             THEN [prov[v] EXCEPT !.pc = "moving",
                     !.inboxes = {p \in Personas : residue[p] # <<>>}]
             ELSE [prov[v] EXCEPT !.pc = "shelves"])
  /\ UNCHANGED <<key, oplog, stored, recent, residue, seen, shelf, runs, stage,
                 shed, behind>>

(* WRONG: the oldest Window messages.                                      *)
Newest_Wrong(s) == SubSeq(s, 1, IF Len(s) > Window THEN Window ELSE Len(s))
(* lastMessagesOn: the newest Window messages of the next inbox.           *)
Newest(s) == SubSeq(s, IF Len(s) > Window THEN Len(s) - Window + 1 ELSE 1,
                    Len(s))
ReadInbox(v) ==
  \E p \in prov[v].inboxes :
    /\ At(v, "moving") /\ prov[v].batch = <<>>
    /\ Goto(v, [prov[v] EXCEPT !.inboxes = @ \ {p}, !.to = {p},
                               !.batch = Newest(residue[p])])
    /\ UNCHANGED <<server, runs, stage, shed, behind>>

(* Each is republished as it was, its id included.                         *)
Republish(v) ==
  \E p \in prov[v].to :
    LET n == Head(prov[v].batch)
        younger == \E m \in ToSet(tray.notes[p]) : m.id >= n.id
    IN  /\ At(v, "moving") /\ prov[v].batch # <<>>
        /\ PutInTray(p, n)
        /\ behind' = IF younger THEN behind \union {p} ELSE behind
        /\ Goto(v, [prov[v] EXCEPT !.batch = Tail(@)])
        /\ UNCHANGED <<key, oplog, stored, recent, residue, shelf, runs,
                       stage>>

(* When all are moved, what the op-log still holds of them is purged.      *)
Purge(v) ==
  /\ At(v, "moving") /\ prov[v].batch = <<>> /\ prov[v].inboxes = {}
  /\ shed' = [p \in Personas |->
       shed[p] \union {residue[p][i] : i \in 1 .. Len(residue[p]) - Window}]
  /\ residue' = NoTray
  /\ To(v, "shelves")
  /\ UNCHANGED <<key, oplog, stored, recent, tray, seen, shelf, runs, stage,
                 behind>>

(* provisionObjectStore, then provisionPersonas.                           *)
Shelve(v) ==
  /\ At(v, "shelves")
  /\ IF "objects" \in shelf
     THEN /\ shelf' = shelf \union {"personas"}
          /\ Goto(v, [Resting EXCEPT !.pc = "done"])
     ELSE shelf' = shelf \union {"objects"} /\ UNCHANGED prov
  /\ UNCHANGED <<key, oplog, stored, recent, residue, tray, seen, runs, stage,
                 shed, behind>>

(* Any call of a run may fail, and its process may die.                    *)
Abandon(v) ==
  /\ Faulty /\ prov[v].pc \notin {"idle", "done"}
  /\ Goto(v, Resting)
  /\ UNCHANGED <<server, runs, stage, shed, behind>>

Provision(v) ==
  \/ Start(v) \/ Mint(v) \/ LookUp(v) \/ Shape(v) \/ MakeTray(v)
  \/ ReadInbox(v) \/ Republish(v) \/ Purge(v) \/ Shelve(v)
  \/ Abandon(v)

Next ==
  \/ Expire
  \/ \E h \in Posters : Post(h) \/ Notify(h) \/ Return(h)
  \/ \E v \in Provisioners : Provision(v)

Spec == Init /\ [][Next]_vars

(***************************************************************************)
(* Properties                                                              *)
(***************************************************************************)

TypeOK ==
  /\ scene \in Scenarios
  /\ key \in Nat /\ runs \in Nat /\ sent \in Nat
  /\ oplog \in {"none", "legacy", "topics"}
  /\ stored \in [Posters \union {Old} -> Nat]
  /\ recent \subseteq Posters /\ late \subseteq Posters
  /\ residue \in [Personas -> Seq(Note)]
  /\ tray \in [there : BOOLEAN, notes : [Personas -> Seq(Note)]]
  /\ seen \subseteq (Personas \X Nat)
  /\ shelf \subseteq {"objects", "personas"}
  /\ prov \in [Provisioners -> Provisioner]
  /\ poster \in [Posters -> Poster]
  /\ accepted \in [Personas -> SUBSET Note]
  /\ shed \in [Personas -> SUBSET Note]
  /\ behind \subseteq Personas

(* No stored notification is ever lost but to make room for others: not in *)
(* a move two provisioners make at once, not in one that is interrupted,   *)
(* and not when it is posted in the middle of one.                         *)
NoNoteVanishes ==
  \A p \in Personas :
    accepted[p] \subseteq ToSet(residue[p]) \union ToSet(tray.notes[p])
                          \union shed[p]

(* Notifications and turns agree: each notification points to a stored     *)
(* turn, and a call that returned without error has told everybody.        *)
NotesAndTurnsAgree ==
  /\ \A p \in Personas : \A n \in accepted[p] : stored[n.op] > 0
  /\ \A h \in Posters, p \in Personas :
       poster[h].pc = "returned" => \E n \in accepted[p] : n.op = h

(* A turn retried under its id is stored once, however many calls it took  *)
(* - unless a retry came after the duplicate window had forgotten it.      *)
OneTurn == \A h \in Posters : stored[h] > 1 => h \in late

(* Whoever signs binds the one identity of the realm, racing provisioners  *)
(* or not.                                                                 *)
OneIdentity == \A h \in Posters : poster[h].learned \in {0, key}

(* The inbox reads newest first, and what it shed is older than what it    *)
(* kept - unless a move wrote a notification twice, or after a younger one.*)
NewestKept ==
  \A p \in Personas \ behind :
    LET inbox == FetchInbox(p, Window)
    IN  /\ \A i \in 2 .. Len(inbox) : inbox[i].id < inbox[i - 1].id
        /\ \A i \in 1 .. Len(inbox), n \in shed[p] : n.id < inbox[i].id

(* The inductive invariant behind NotesAndTurnsAgree and OneIdentity, and  *)
(* the size of an inbox: what the window remembers is stored, and a call   *)
(* under way has stored its turn and told everybody but those left.        *)
IInv ==
  /\ TypeOK
  /\ \A p \in Personas : Len(tray.notes[p]) <= Window
  /\ \A p \in Personas : \A n \in accepted[p] : stored[n.op] > 0
  /\ \A h \in recent : stored[h] > 0
  /\ \A h \in Posters : poster[h].pc \in {"notifying", "returned"} =>
       /\ stored[h] > 0
       /\ poster[h].pc = "returned" => poster[h].left = {}
       /\ \A p \in Personas \ poster[h].left : \E n \in accepted[p] : n.op = h
  /\ OneIdentity

(* What the documentation says of provisioning again: once a run has       *)
(* succeeded and none is under way, nothing is left in the old place.      *)
Converges ==
  /\ \A v \in Provisioners : prov[v].pc \in {"idle", "done"}
  /\ \E v \in Provisioners : prov[v].pc = "done"
  => \A p \in Personas : residue[p] = <<>>
=============================================================================
