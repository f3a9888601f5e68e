----------------------------- MODULE Mail_proofs -----------------------------
(***************************************************************************)
(* Proofs about Mail, for any personas, posters, provisioners, scenarios   *)
(* and bounds: the invariant IInv, and with it that notifications agree    *)
(* with turns, that whoever signs binds the realm's one identity, and that *)
(* a turn is stored once while the duplicate window remembers it; then the *)
(* invariant NotesKept, and with it that no notification vanishes and that *)
(* an inbox keeps its newest.                                              *)
(***************************************************************************)
EXTENDS Mail, TLAPS

(***************************************************************************)
(* The invariant, by the part of the system                                *)
(***************************************************************************)

RealmTypes ==
  /\ scene \in Scenarios
  /\ key \in Nat /\ runs \in Nat
  /\ oplog \in {"none", "legacy", "topics"}
  /\ shelf \subseteq {"objects", "personas"}

TrayTypes ==
  /\ tray \in [there : BOOLEAN, notes : [Personas -> Seq(Note)]]
  /\ \A p \in Personas : Len(tray.notes[p]) <= Window
  /\ seen \subseteq (Personas \X Nat)
  /\ shed \in [Personas -> SUBSET Note]

MoveTypes ==
  /\ residue \in [Personas -> Seq(Note)]
  /\ prov \in [Provisioners -> Provisioner]
  /\ behind \subseteq Personas

TurnTypes ==
  /\ sent \in Nat
  /\ stored \in [Posters \union {Old} -> Nat]
  /\ recent \subseteq Posters /\ late \subseteq Posters
  /\ poster \in [Posters -> Poster]
  /\ accepted \in [Personas -> SUBSET Note]

(* A call under way has stored its turn and told all but those left.       *)
Announces(h) ==
  poster[h].pc \in {"notifying", "returned"} =>
    /\ stored[h] > 0
    /\ poster[h].pc = "returned" => poster[h].left = {}
    /\ \A p \in Personas \ poster[h].left : \E n \in accepted[p] : n.op = h

Turns ==
  /\ TurnTypes
  /\ \A p \in Personas : \A n \in accepted[p] : stored[n.op] > 0
  /\ \A h \in recent : stored[h] > 0
  /\ \A h \in Posters : Announces(h) /\ poster[h].learned \in {0, key}

LEMMA ByPart ==
  /\ IInv <=> RealmTypes /\ TrayTypes /\ MoveTypes /\ Turns
  /\ IInv' <=> RealmTypes' /\ TrayTypes' /\ MoveTypes' /\ Turns'
BY DEF IInv, TypeOK, RealmTypes, TrayTypes, MoveTypes, Turns, TurnTypes,
       Announces, OneIdentity

(***************************************************************************)
(* Streams                                                                 *)
(***************************************************************************)

(* A stream keeps what it stores within the window (spec.go).              *)
LEMMA TrayStep ==
  ASSUME TrayTypes, NEW p \in Personas, NEW n \in Note, PutInTray(p, n)
  PROVE  TrayTypes'
<1>1. CASE <<p, n.id>> \in seen
  BY <1>1 DEF PutInTray, TrayTypes
<1>2. CASE <<p, n.id>> \notin seen
  <2> DEFINE s == Append(tray.notes[p], n)
  <2>1. /\ tray' = [tray EXCEPT !.notes[p] = Kept(s)]
        /\ shed' = [shed EXCEPT ![p] = @ \union Dropped(s)]
        /\ seen' = seen \union {<<p, n.id>>}
    BY <1>2 DEF PutInTray
  <2>2. /\ s \in Seq(Note) /\ Len(s) <= Window + 1 /\ Len(s) \in Nat \ {0}
    <3>1. tray.notes[p] \in Seq(Note) /\ Len(tray.notes[p]) <= Window
      BY DEF TrayTypes
    <3> QED BY <3>1, MailAssumption
  <2> HIDE DEF s
  <2>3. Kept(s) \in Seq(Note) /\ Len(Kept(s)) <= Window
    BY <2>2, MailAssumption DEF Kept
  <2>4. Dropped(s) \subseteq Note
    BY <2>2 DEF Dropped
  <2>5. n.id \in Nat
    BY DEF Note
  <2>6. tray' = [there |-> tray.there, notes |-> [tray.notes EXCEPT ![p] = Kept(s)]]
    BY <2>1 DEF TrayTypes
  <2> DEFINE k == Kept(s)
  <2> HIDE DEF k
  <2>7. /\ tray'.there = tray.there /\ tray.there \in BOOLEAN
        /\ tray'.notes = [tray.notes EXCEPT ![p] = k]
        /\ tray.notes \in [Personas -> Seq(Note)]
        /\ tray' = [there |-> tray'.there, notes |-> tray'.notes]
    BY <2>6 DEF TrayTypes, k
  <2>8. k \in Seq(Note) /\ Len(k) <= Window
    BY <2>3 DEF k
  <2>9. /\ tray'.notes \in [Personas -> Seq(Note)]
        /\ \A q \in Personas : Len(tray'.notes[q]) <= Window
    BY <2>7, <2>8 DEF TrayTypes
  <2>10. /\ shed' \in [Personas -> SUBSET Note]
         /\ seen' \subseteq Personas \X Nat
    BY <2>1, <2>4, <2>5 DEF TrayTypes
  <2> QED BY <2>7, <2>9, <2>10 DEF TrayTypes
<1> QED BY <1>1, <1>2

LEMMA NewestType ==
  ASSUME NEW s \in Seq(Note)
  PROVE  Newest(s) \in Seq(Note)
<1> DEFINE a == IF Len(s) > Window THEN Len(s) - Window + 1 ELSE 1
<1>1. a \in Nat \ {0} /\ Len(s) \in Nat
  BY MailAssumption
<1>2. Newest(s) = [i \in 1 .. Len(s) - a + 1 |-> s[a + i - 1]]
  BY <1>1 DEF Newest
<1>3. \A i \in 1 .. Len(s) - a + 1 : a + i - 1 \in 1 .. Len(s)
  BY <1>1
<1> HIDE DEF a
<1>4. Len(s) - a + 1 \in Int
  BY <1>1
<1> QED BY <1>1, <1>2, <1>3, <1>4

(***************************************************************************)
(* The steps of a poster                                                   *)
(***************************************************************************)

(* One poster moves: the others see turns and notes added, none removed.   *)
LEMMA TurnsStep ==
  ASSUME Turns, NEW h \in Posters, TurnTypes',
         poster' = [poster EXCEPT ![h] = poster'[h]],
         \A o \in Posters \union {Old} : stored'[o] >= stored[o],
         \A p \in Personas : accepted[p] \subseteq accepted'[p],
         \A p \in Personas : \A n \in accepted'[p] \ accepted[p] : stored'[n.op] > 0,
         \A g \in recent' : stored'[g] > 0,
         key' = key, poster'[h].learned \in {0, key}, Announces(h)'
  PROVE  Turns'
<1>1. \A o \in Posters \union {Old} : stored[o] \in Nat /\ stored'[o] \in Nat
  BY DEF Turns, TurnTypes
<1>2. ASSUME NEW p \in Personas, NEW n \in accepted'[p]
      PROVE  stored'[n.op] > 0
  <2>1. CASE n \in accepted[p]
    <3>1. n.op \in Posters \union {Old} /\ stored[n.op] > 0
      BY <2>1 DEF Turns, TurnTypes, Note
    <3> QED BY <3>1, <1>1
  <2>2. CASE n \notin accepted[p]
    BY <2>2
  <2> QED BY <2>1, <2>2
<1>3. ASSUME NEW g \in Posters, g # h
      PROVE  Announces(g)' /\ poster'[g].learned \in {0, key'}
  <2>1. poster'[g] = poster[g]
    BY <1>3 DEF Turns, TurnTypes
  <2>2. Announces(g) /\ poster[g].learned \in {0, key}
    BY DEF Turns
  <2> QED BY <2>1, <2>2, <1>1 DEF Announces
<1> QED BY <1>2, <1>3 DEF Turns

LEMMA PostStep ==
  ASSUME IInv, NEW h \in Posters, Post(h)
  PROVE  IInv'
<1>1. RealmTypes /\ TrayTypes /\ MoveTypes /\ Turns /\ TurnTypes
  BY ByPart DEF Turns
<1> DEFINE x == [poster[h] EXCEPT !.tries = @ + 1, !.learned = RealmKey(h)]
<1>2. UNCHANGED <<scene, key, oplog, residue, tray, seen, shelf, prov, sent,
                  runs, accepted, shed, behind>>
  BY DEF Post
<1>3. RealmTypes' /\ TrayTypes' /\ MoveTypes'
  BY <1>1, <1>2 DEF RealmTypes, TrayTypes, MoveTypes
<1>4. poster[h] \in Poster /\ poster[h].learned \in {0, key}
  BY <1>1 DEF TurnTypes, Turns
<1>5. RealmKey(h) \in {0, key} /\ RealmKey(h) \in Nat
  BY <1>1, <1>4 DEF RealmKey, RealmTypes
<1>6. x \in Poster /\ x.learned \in {0, key}
  <2>1. poster[h].tries + 1 \in Nat
    BY <1>4 DEF Poster
  <2>2. x.learned = RealmKey(h)
    BY <1>4 DEF Poster
  <2> QED BY <1>4, <1>5, <2>1, <2>2 DEF Poster
<1> HIDE DEF x
<1> DEFINE failing == [x EXCEPT !.pc = "failed"]
           notifying == [x EXCEPT !.pc = "notifying", !.left = Personas]
<1>7. /\ failing \in Poster /\ failing.pc = "failed"
      /\ failing.learned \in {0, key}
      /\ notifying \in Poster /\ notifying.pc = "notifying"
      /\ notifying.left = Personas /\ notifying.learned \in {0, key}
  BY <1>6 DEF Poster
<1> HIDE DEF failing, notifying
<1>8. CASE /\ stored' = IF Absorbed(h) THEN stored ELSE [stored EXCEPT ![h] = @ + 1]
           /\ recent' = recent \union {h}
           /\ late' = IF h \notin recent /\ stored[h] > 0
                      THEN late \union {h} ELSE late
           /\ Set(h, notifying) \/ Set(h, failing)
  <2>1. /\ poster' = [poster EXCEPT ![h] = poster'[h]]
        /\ poster'[h] = notifying \/ poster'[h] = failing
    BY <1>8, <1>1 DEF Set, TurnTypes
  <2>2. TurnTypes'
    BY <1>1, <1>2, <1>7, <1>8, <2>1 DEF TurnTypes
  <2>3. /\ \A o \in Posters \union {Old} : stored'[o] >= stored[o]
        /\ \A g \in recent' : stored'[g] > 0
        /\ stored'[h] > 0
    <3>1. CASE h \in recent
      <4>1. stored' = stored /\ recent' = recent
        BY <1>8, <3>1 DEF Absorbed
      <4> QED BY <3>1, <4>1, <1>1 DEF Turns, TurnTypes
    <3>2. CASE h \notin recent
      <4>1. stored' = [stored EXCEPT ![h] = @ + 1]
        BY <1>8, <3>2 DEF Absorbed
      <4> QED BY <1>8, <3>2, <4>1, <1>1 DEF Turns, TurnTypes
    <3> QED BY <3>1, <3>2
  <2>4. Announces(h)'
    BY <1>7, <2>1, <2>3 DEF Announces
  <2>5. Turns'
    BY <1>1, <1>2, <1>7, <2>1, <2>2, <2>3, <2>4, TurnsStep
  <2> QED BY <1>3, <2>5, ByPart
<1>9. CASE Set(h, failing) /\ UNCHANGED <<stored, recent, late>>
  <2>1. poster' = [poster EXCEPT ![h] = poster'[h]] /\ poster'[h] = failing
    BY <1>9, <1>1 DEF Set, TurnTypes
  <2>2. TurnTypes'
    BY <1>1, <1>2, <1>7, <1>9, <2>1 DEF TurnTypes
  <2>3. Announces(h)'
    BY <1>7, <2>1 DEF Announces
  <2>4. /\ \A o \in Posters \union {Old} : stored'[o] >= stored[o]
        /\ \A g \in recent' : stored'[g] > 0
    BY <1>1, <1>9 DEF Turns, TurnTypes
  <2>5. Turns'
    BY <1>1, <1>2, <1>7, <2>1, <2>2, <2>3, <2>4, TurnsStep
  <2> QED BY <1>3, <2>5, ByPart
<1> QED BY <1>8, <1>9 DEF Post, x, failing, notifying

LEMMA NotifyStep ==
  ASSUME IInv, NEW h \in Posters, Notify(h)
  PROVE  IInv'
<1>1. RealmTypes /\ TrayTypes /\ MoveTypes /\ Turns /\ TurnTypes
  BY ByPart DEF Turns
<1>2. PICK p \in poster[h].left :
        LET x == [poster[h] EXCEPT !.left = @ \ {p}]
            Failing == Set(h, [x EXCEPT !.pc = "failed", !.left = {}])
        IN  /\ poster[h].pc = "notifying"
            /\ \/ /\ Captured
                  /\ Deliver(p, [id |-> sent + 1, op |-> h])
                  /\ sent' = sent + 1
                  /\ Set(h, x) \/ (Faulty /\ Failing)
               \/ /\ ~Captured \/ Faulty
                  /\ Failing
                  /\ UNCHANGED <<residue, tray, seen, shed, accepted, sent>>
            /\ UNCHANGED <<scene, key, oplog, stored, recent, shelf, prov, runs,
                           late, behind>>
  BY DEF Notify
<1> DEFINE x == [poster[h] EXCEPT !.left = @ \ {p}]
           failing == [x EXCEPT !.pc = "failed", !.left = {}]
           n == [id |-> sent + 1, op |-> h]
<1>3. /\ poster[h] \in Poster /\ poster[h].learned \in {0, key}
      /\ Announces(h) /\ poster[h].pc = "notifying"
  BY <1>1, <1>2 DEF TurnTypes, Turns
<1>4. /\ x \in Poster /\ x.pc = "notifying" /\ x.learned \in {0, key}
      /\ x.left = poster[h].left \ {p}
      /\ failing \in Poster /\ failing.pc = "failed"
      /\ failing.learned \in {0, key}
      /\ p \in Personas
  BY <1>3 DEF Poster
<1>5. n \in Note /\ n.op = h
  BY <1>1 DEF TurnTypes, Note
<1> HIDE DEF x, failing, n
<1>6. UNCHANGED <<scene, key, oplog, stored, recent, shelf, prov, runs, late,
                  behind>>
  BY <1>2
<1>7. RealmTypes'
  BY <1>1, <1>6 DEF RealmTypes
<1>8. \A o \in Posters \union {Old} : stored'[o] >= stored[o]
  BY <1>1, <1>6 DEF TurnTypes
<1>9. \A g \in recent' : stored'[g] > 0
  BY <1>1, <1>6 DEF Turns
<1>10. CASE /\ Deliver(p, n) /\ sent' = sent + 1
            /\ Set(h, x) \/ Set(h, failing)
  <2>1. TrayTypes' /\ MoveTypes'
    <3>1. CASE PutInTray(p, n) /\ UNCHANGED residue
      <4>1. TrayTypes'
        BY <1>1, <1>4, <1>5, <3>1, TrayStep
      <4> QED BY <4>1, <3>1, <1>1, <1>6 DEF MoveTypes
    <3>2. CASE /\ residue' = [residue EXCEPT ![p] = Append(@, n)]
               /\ UNCHANGED <<tray, seen, shed>>
      <4>1. residue' \in [Personas -> Seq(Note)]
        <5>1. residue \in [Personas -> Seq(Note)] /\ residue[p] \in Seq(Note)
          BY <1>1, <1>4 DEF MoveTypes
        <5>2. Append(residue[p], n) \in Seq(Note)
          BY <5>1, <1>5
        <5> QED BY <3>2, <5>1, <5>2
      <4> QED BY <4>1, <3>2, <1>1, <1>6 DEF TrayTypes, MoveTypes
    <3> QED BY <3>1, <3>2, <1>10 DEF Deliver
  <2>2. accepted' = [accepted EXCEPT ![p] = @ \union {n}]
    BY <1>10 DEF Deliver
  <2>3. /\ poster' = [poster EXCEPT ![h] = poster'[h]]
        /\ poster'[h] = x \/ poster'[h] = failing
    BY <1>10, <1>1 DEF Set, TurnTypes
  <2>4. TurnTypes'
    <3>1. sent' \in Nat /\ poster' \in [Posters -> Poster]
      BY <1>1, <1>4, <1>10, <2>3 DEF TurnTypes
    <3>2. accepted' \in [Personas -> SUBSET Note]
      BY <1>1, <1>5, <2>2 DEF TurnTypes
    <3> QED BY <3>1, <3>2, <1>1, <1>6 DEF TurnTypes
  <2>5. \A q \in Personas : accepted[q] \subseteq accepted'[q]
    BY <1>1, <2>2 DEF TurnTypes
  <2>6. n \in accepted'[p] /\ stored'[h] > 0
    BY <1>1, <1>3, <1>4, <1>6, <2>2 DEF TurnTypes, Announces
  <2>7. \A q \in Personas : \A m \in accepted'[q] \ accepted[q] : stored'[m.op] > 0
    <3>1. ASSUME NEW q \in Personas, NEW m \in accepted'[q] \ accepted[q]
          PROVE  m = n
      BY <2>2, <1>1 DEF TurnTypes
    <3> QED BY <3>1, <2>6, <1>5
  <2>8. Announces(h)'
    <3>1. CASE poster'[h] = x
      <4>1. ASSUME NEW q \in Personas \ x.left
            PROVE  \E m \in accepted'[q] : m.op = h
        <5>1. CASE q = p
          BY <5>1, <2>6, <1>5
        <5>2. CASE q # p
          <6>1. PICK m \in accepted[q] : m.op = h
            BY <5>2, <1>3, <1>4 DEF Announces
          <6> QED BY <6>1, <2>5
        <5> QED BY <5>1, <5>2
      <4> QED BY <4>1, <3>1, <1>4, <2>6 DEF Announces
    <3>2. CASE poster'[h] = failing
      BY <3>2, <1>4 DEF Announces
    <3> QED BY <3>1, <3>2, <2>3
  <2>9. Turns'
    BY <1>1, <1>4, <1>6, <1>8, <1>9, <2>3, <2>4, <2>5, <2>7, <2>8, TurnsStep
  <2> QED BY <1>7, <2>1, <2>9, ByPart
<1>11. CASE /\ Set(h, failing)
            /\ UNCHANGED <<residue, tray, seen, shed, accepted, sent>>
  <2>1. TrayTypes' /\ MoveTypes'
    BY <1>1, <1>6, <1>11 DEF TrayTypes, MoveTypes
  <2>2. poster' = [poster EXCEPT ![h] = poster'[h]] /\ poster'[h] = failing
    BY <1>11, <1>1 DEF Set, TurnTypes
  <2>3. TurnTypes'
    BY <1>1, <1>4, <1>6, <1>11, <2>2 DEF TurnTypes
  <2>4. Announces(h)'
    BY <1>4, <2>2 DEF Announces
  <2>5. Turns'
    BY <1>1, <1>4, <1>6, <1>8, <1>9, <1>11, <2>2, <2>3, <2>4, TurnsStep
  <2> QED BY <1>7, <2>1, <2>5, ByPart
<1> QED BY <1>2, <1>10, <1>11 DEF x, failing, n

LEMMA ReturnStep ==
  ASSUME IInv, NEW h \in Posters, Return(h)
  PROVE  IInv'
<1>1. RealmTypes /\ TrayTypes /\ MoveTypes /\ Turns /\ TurnTypes
  BY ByPart DEF Turns
<1> DEFINE x == [poster[h] EXCEPT !.pc = "returned"]
<1>2. /\ UNCHANGED <<scene, server, prov, sent, runs, past>>
      /\ poster[h].pc = "notifying" /\ poster[h].left = {}
      /\ Set(h, x)
  BY DEF Return
<1>3. /\ poster[h] \in Poster /\ poster[h].learned \in {0, key}
      /\ Announces(h)
  BY <1>1 DEF TurnTypes, Turns
<1>4. /\ x \in Poster /\ x.pc = "returned" /\ x.left = {}
      /\ x.learned \in {0, key}
  BY <1>2, <1>3 DEF Poster
<1> HIDE DEF x
<1>5. poster' = [poster EXCEPT ![h] = poster'[h]] /\ poster'[h] = x
  BY <1>1, <1>2 DEF Set, TurnTypes
<1>6. RealmTypes' /\ TrayTypes' /\ MoveTypes'
  BY <1>1, <1>2 DEF RealmTypes, TrayTypes, MoveTypes, server, past
<1>7. TurnTypes'
  BY <1>1, <1>2, <1>4, <1>5 DEF TurnTypes, server, past
<1>8. Announces(h)'
  BY <1>2, <1>3, <1>4, <1>5 DEF Announces, server, past
<1>9. /\ \A o \in Posters \union {Old} : stored'[o] >= stored[o]
      /\ \A g \in recent' : stored'[g] > 0
  BY <1>1, <1>2 DEF Turns, TurnTypes, server
<1>10. Turns'
  BY <1>1, <1>2, <1>4, <1>5, <1>7, <1>8, <1>9, TurnsStep DEF server, past
<1> QED BY <1>6, <1>10, ByPart

(***************************************************************************)
(* The steps of a provisioner                                              *)
(***************************************************************************)

LEMMA RestingType == Resting \in Provisioner
BY DEF Resting, Provisioner

(* A provisioner leaves turns alone, and an identity that stands.          *)
LEMMA ProvisionTurns ==
  ASSUME RealmTypes, Turns,
         UNCHANGED <<stored, recent>>, UNCHANGED stage,
         key' = key \/ key = 0
  PROVE  Turns'
<1>1. ASSUME NEW h \in Posters
      PROVE  Announces(h)' /\ poster'[h].learned \in {0, key'}
  <2>1. Announces(h) /\ poster[h].learned \in {0, key}
    BY DEF Turns
  <2> QED BY <2>1 DEF Announces, stage
<1> QED BY <1>1 DEF Turns, TurnTypes, stage

LEMMA ProvisionStep ==
  ASSUME IInv, NEW v \in Provisioners, Provision(v)
  PROVE  IInv'
<1>1. RealmTypes /\ TrayTypes /\ MoveTypes /\ Turns
  BY ByPart
<1>2. prov[v] \in Provisioner /\ prov \in [Provisioners -> Provisioner]
  BY <1>1 DEF MoveTypes
<1>3. ASSUME NEW x \in Provisioner, Goto(v, x) PROVE prov' \in [Provisioners -> Provisioner]
  BY <1>2, <1>3 DEF Goto
<1>4. ASSUME RealmTypes', TrayTypes', MoveTypes', UNCHANGED <<stored, recent>>,
             UNCHANGED stage, key' = key \/ key = 0
      PROVE  IInv'
  BY <1>1, <1>4, ProvisionTurns, ByPart
<1>5. CASE Start(v)
  <2>1. PICK only \in BOOLEAN :
          Goto(v, [Resting EXCEPT !.only = only,
                     !.pc = IF key = 0 THEN "mint" ELSE "oplog"])
    BY <1>5 DEF Start
  <2>2. [Resting EXCEPT !.only = only,
           !.pc = IF key = 0 THEN "mint" ELSE "oplog"] \in Provisioner
    BY RestingType DEF Provisioner
  <2>3. UNCHANGED <<server, stage, shed, behind>> /\ runs' = runs + 1
    BY <1>5 DEF Start
  <2>4. RealmTypes' /\ TrayTypes' /\ MoveTypes'
    <3>1. prov' \in [Provisioners -> Provisioner]
      BY <2>1, <2>2, <1>3
    <3> QED BY <3>1, <2>3, <1>1 DEF RealmTypes, TrayTypes, MoveTypes, server, stage
  <2> QED BY <2>3, <2>4, <1>4 DEF server
<1>6. CASE Mint(v)
  <2>1. /\ key' = IF key = 0 THEN 1 ELSE key
        /\ Goto(v, Resting) \/ Goto(v, [prov[v] EXCEPT !.pc = "oplog"])
        /\ UNCHANGED <<oplog, stored, recent, residue, tray, seen, shelf, runs,
                       stage, shed, behind>>
    BY <1>6 DEF Mint, To
  <2>2. [prov[v] EXCEPT !.pc = "oplog"] \in Provisioner
    BY <1>2 DEF Provisioner
  <2>3. RealmTypes' /\ TrayTypes' /\ MoveTypes'
    <3>1. prov' \in [Provisioners -> Provisioner]
      BY <2>1, <2>2, <1>3, RestingType
    <3> QED BY <3>1, <2>1, <1>1 DEF RealmTypes, TrayTypes, MoveTypes, stage
  <2> QED BY <2>1, <2>3, <1>4
<1>7. CASE LookUp(v)
  <2>1. /\ Goto(v, [prov[v] EXCEPT !.pc = "shape", !.found = oplog])
        /\ UNCHANGED <<server, runs, stage, shed, behind>>
    BY <1>7 DEF LookUp
  <2>2. [prov[v] EXCEPT !.pc = "shape", !.found = oplog] \in Provisioner
    BY <1>1, <1>2 DEF Provisioner, RealmTypes
  <2>3. RealmTypes' /\ TrayTypes' /\ MoveTypes'
    <3>1. prov' \in [Provisioners -> Provisioner]
      BY <2>1, <2>2, <1>3
    <3> QED BY <3>1, <2>1, <1>1 DEF RealmTypes, TrayTypes, MoveTypes, server, stage
  <2> QED BY <2>1, <2>3, <1>4 DEF server
<1>8. CASE Shape(v)
  <2>1. /\ oplog' = "topics"
        /\ Goto(v, [prov[v] EXCEPT !.pc = "tray",
                                   !.converged = prov[v].found = "legacy"])
        /\ UNCHANGED <<key, stored, recent, residue, tray, seen, shelf, runs,
                       stage, shed, behind>>
    BY <1>8 DEF Shape
  <2>2. [prov[v] EXCEPT !.pc = "tray", !.converged = prov[v].found = "legacy"]
          \in Provisioner
    <3>1. (prov[v].found = "legacy") \in BOOLEAN
      OBVIOUS
    <3> QED BY <3>1, <1>2 DEF Provisioner
  <2>3. RealmTypes' /\ TrayTypes' /\ MoveTypes'
    <3>1. prov' \in [Provisioners -> Provisioner]
      BY <2>1, <2>2, <1>3
    <3> QED BY <3>1, <2>1, <1>1 DEF RealmTypes, TrayTypes, MoveTypes, stage
  <2> QED BY <2>1, <2>3, <1>4
<1>9. CASE MakeTray(v)
  <2> DEFINE moving == [prov[v] EXCEPT !.pc = "moving",
                          !.inboxes = {p \in Personas : residue[p] # <<>>}]
             shelves == [prov[v] EXCEPT !.pc = "shelves"]
  <2>1. /\ tray' = [tray EXCEPT !.there = TRUE]
        /\ Goto(v, moving) \/ Goto(v, shelves)
        /\ UNCHANGED <<key, oplog, stored, recent, residue, seen, shelf, runs,
                       stage, shed, behind>>
    BY <1>9 DEF MakeTray
  <2>2. moving \in Provisioner /\ shelves \in Provisioner
    BY <1>2 DEF Provisioner
  <2> HIDE DEF moving, shelves
  <2>3. prov' \in [Provisioners -> Provisioner]
    BY <2>1, <2>2, <1>3
  <2>4. RealmTypes' /\ MoveTypes'
    BY <2>1, <2>3, <1>1 DEF RealmTypes, MoveTypes, stage
  <2>5. TrayTypes'
    BY <2>1, <1>1 DEF TrayTypes
  <2> QED BY <2>1, <2>4, <2>5, <1>4
<1>10. CASE ReadInbox(v)
  <2>1. PICK p \in prov[v].inboxes :
          /\ Goto(v, [prov[v] EXCEPT !.inboxes = @ \ {p}, !.to = {p},
                                     !.batch = Newest(residue[p])])
          /\ UNCHANGED <<server, runs, stage, shed, behind>>
    BY <1>10 DEF ReadInbox
  <2>2. p \in Personas /\ Newest(residue[p]) \in Seq(Note)
    BY <1>1, <1>2, NewestType DEF MoveTypes, Provisioner
  <2>3. [prov[v] EXCEPT !.inboxes = @ \ {p}, !.to = {p},
                        !.batch = Newest(residue[p])] \in Provisioner
    BY <2>2, <1>2 DEF Provisioner
  <2>4. RealmTypes' /\ TrayTypes' /\ MoveTypes'
    <3>1. prov' \in [Provisioners -> Provisioner]
      BY <2>1, <2>3, <1>3
    <3> QED BY <3>1, <2>1, <1>1 DEF RealmTypes, TrayTypes, MoveTypes, server, stage
  <2> QED BY <2>1, <2>4, <1>4 DEF server
<1>11. CASE Republish(v)
  <2>1. PICK p \in prov[v].to :
          /\ prov[v].batch # <<>>
          /\ PutInTray(p, Head(prov[v].batch))
          /\ behind' = behind \union {p} \/ behind' = behind
          /\ Goto(v, [prov[v] EXCEPT !.batch = Tail(@)])
          /\ UNCHANGED <<key, oplog, stored, recent, residue, shelf, runs,
                         stage>>
    BY <1>11 DEF Republish
  <2>2. /\ p \in Personas /\ Head(prov[v].batch) \in Note
        /\ Tail(prov[v].batch) \in Seq(Note)
    BY <2>1, <1>2 DEF Provisioner
  <2>3. [prov[v] EXCEPT !.batch = Tail(@)] \in Provisioner
    BY <2>2, <1>2 DEF Provisioner
  <2>4. TrayTypes'
    BY <2>1, <2>2, <1>1, TrayStep
  <2>5. RealmTypes' /\ MoveTypes'
    <3>1. prov' \in [Provisioners -> Provisioner]
      BY <2>1, <2>3, <1>3
    <3> QED BY <3>1, <2>1, <2>2, <1>1 DEF RealmTypes, MoveTypes, stage
  <2> QED BY <2>1, <2>4, <2>5, <1>4
<1>12. CASE Purge(v)
  <2>1. /\ shed' = [p \in Personas |->
              shed[p] \union {residue[p][i] : i \in 1 .. Len(residue[p]) - Window}]
        /\ residue' = NoTray
        /\ Goto(v, [prov[v] EXCEPT !.pc = "shelves"])
        /\ UNCHANGED <<key, oplog, stored, recent, tray, seen, shelf, runs,
                       stage, behind>>
    BY <1>12 DEF Purge, To
  <2>2. [prov[v] EXCEPT !.pc = "shelves"] \in Provisioner
    BY <1>2 DEF Provisioner
  <2>3. shed' \in [Personas -> SUBSET Note]
    <3>1. ASSUME NEW p \in Personas, NEW i \in 1 .. Len(residue[p]) - Window
          PROVE  residue[p][i] \in Note
      <4>1. residue[p] \in Seq(Note)
        BY <1>1 DEF MoveTypes
      <4>2. i \in 1 .. Len(residue[p])
        BY <4>1, MailAssumption
      <4> QED BY <4>1, <4>2
    <3>2. \A p \in Personas : shed[p] \subseteq Note
      BY <1>1 DEF TrayTypes
    <3> QED BY <3>1, <3>2, <2>1
  <2>4. residue' \in [Personas -> Seq(Note)]
    BY <2>1 DEF NoTray
  <2>5. RealmTypes' /\ TrayTypes' /\ MoveTypes'
    <3>1. prov' \in [Provisioners -> Provisioner]
      BY <2>1, <2>2, <1>3
    <3> QED BY <3>1, <2>1, <2>3, <2>4, <1>1 DEF RealmTypes, TrayTypes, MoveTypes, stage
  <2> QED BY <2>1, <2>5, <1>4
<1>13. CASE Shelve(v)
  <2>1. /\ shelf' = shelf \union {"personas"} \/ shelf' = shelf \union {"objects"}
        /\ Goto(v, [Resting EXCEPT !.pc = "done"]) \/ UNCHANGED prov
        /\ UNCHANGED <<key, oplog, stored, recent, residue, tray, seen, runs,
                       stage, shed, behind>>
    BY <1>13 DEF Shelve
  <2>2. [Resting EXCEPT !.pc = "done"] \in Provisioner
    BY RestingType DEF Provisioner
  <2>3. RealmTypes' /\ TrayTypes' /\ MoveTypes'
    <3>1. prov' \in [Provisioners -> Provisioner]
      BY <2>1, <2>2, <1>2, <1>3
    <3> QED BY <3>1, <2>1, <1>1 DEF RealmTypes, TrayTypes, MoveTypes, stage
  <2> QED BY <2>1, <2>3, <1>4
<1>14. CASE Abandon(v)
  <2>1. Goto(v, Resting) /\ UNCHANGED <<server, runs, stage, shed, behind>>
    BY <1>14 DEF Abandon
  <2>2. RealmTypes' /\ TrayTypes' /\ MoveTypes'
    <3>1. prov' \in [Provisioners -> Provisioner]
      BY <2>1, <1>3, RestingType
    <3> QED BY <3>1, <2>1, <1>1 DEF RealmTypes, TrayTypes, MoveTypes, server, stage
  <2> QED BY <2>1, <2>2, <1>4 DEF server
<1> QED BY <1>5, <1>6, <1>7, <1>8, <1>9, <1>10, <1>11, <1>12, <1>13, <1>14
        DEF Provision

(***************************************************************************)
(* The theorems                                                            *)
(***************************************************************************)

LEMMA InitInvariant == Init => IInv
<1> SUFFICES ASSUME Init PROVE IInv
  OBVIOUS
<1>1. OldNotes \in Seq(Note)
  BY MailAssumption DEF OldNotes, Note
<1>2. residue \in [Personas -> Seq(Note)]
  BY <1>1 DEF Init
<1>3. \A p \in Personas : ToSet(residue[p]) \subseteq Note
  BY <1>2 DEF ToSet
<1>4. RealmTypes
  BY DEF Init, RealmTypes
<1>5. TrayTypes
  <2>1. /\ tray = [there |-> FALSE, notes |-> NoTray] /\ seen = {}
        /\ shed = [p \in Personas |-> {}]
    BY DEF Init
  <2>2. NoTray \in [Personas -> Seq(Note)]
        /\ \A p \in Personas : Len(NoTray[p]) <= Window
    BY MailAssumption DEF NoTray
  <2> QED BY <2>1, <2>2 DEF TrayTypes
<1>6. MoveTypes
  BY <1>2, RestingType DEF Init, MoveTypes
<1>7. TurnTypes
  <2>1. \A h \in Posters : poster[h] \in Poster
    BY DEF Init, Poster
  <2>2. poster \in [Posters -> Poster]
    BY <2>1 DEF Init
  <2>3. accepted \in [Personas -> SUBSET Note]
    BY <1>3 DEF Init
  <2>4. sent \in Nat /\ stored \in [Posters \union {Old} -> Nat]
    BY MailAssumption DEF Init
  <2> QED BY <2>2, <2>3, <2>4 DEF Init, TurnTypes
<1>8. ASSUME NEW p \in Personas, NEW n \in accepted[p]
      PROVE  stored[n.op] > 0
  <2>1. accepted[p] = ToSet(residue[p])
    BY DEF Init
  <2>2. PICK i \in DOMAIN residue[p] : n = residue[p][i]
    BY <2>1, <1>8 DEF ToSet
  <2>3. oplog = "legacy" /\ residue[p] = OldNotes
    <3>1. residue[p] = IF oplog = "legacy" /\ p \in Tapped THEN OldNotes ELSE <<>>
      BY DEF Init
    <3> QED BY <2>2, <3>1
  <2>4. n.op = Old
    BY <2>2, <2>3 DEF OldNotes
  <2> QED BY <2>3, <2>4 DEF Init
<1>9. \A h \in Posters : Announces(h) /\ poster[h].learned \in {0, key}
  BY DEF Init, Announces
<1>10. Turns
  BY <1>7, <1>8, <1>9 DEF Turns, Init
<1> QED BY <1>4, <1>5, <1>6, <1>10, ByPart

LEMMA NextInvariant == IInv /\ [Next]_vars => IInv'
<1> SUFFICES ASSUME IInv, [Next]_vars PROVE IInv'
  OBVIOUS
<1>1. RealmTypes /\ TrayTypes /\ MoveTypes /\ Turns
  BY ByPart
<1>2. CASE Expire
  <2>1. RealmTypes' /\ TrayTypes' /\ MoveTypes'
    BY <1>1, <1>2 DEF Expire, RealmTypes, TrayTypes, MoveTypes, past
  <2>2. Turns'
    BY <1>1, <1>2 DEF Expire, Turns, TurnTypes, Announces, past
  <2> QED BY <2>1, <2>2, ByPart
<1>3. CASE UNCHANGED vars
  <2>1. RealmTypes' /\ TrayTypes' /\ MoveTypes'
    BY <1>1, <1>3 DEF vars, server, past, RealmTypes, TrayTypes, MoveTypes
  <2>2. Turns'
    BY <1>1, <1>3 DEF vars, server, past, Turns, TurnTypes, Announces
  <2> QED BY <2>1, <2>2, ByPart
<1> QED BY <1>2, <1>3, PostStep, NotifyStep, ReturnStep, ProvisionStep DEF Next

(* The invariant of provisioning and notifying holds whatever callers and  *)
(* provisioners do, in any order and with any faults.                      *)
THEOREM Invariant == Spec => []IInv
BY InitInvariant, NextInvariant, PTL DEF Spec

(* Every notification points to a stored turn, and a PostTurnIdempotent    *)
(* that returned without an error has told every persona it mentions.      *)
THEOREM NotesAgreeWithTurns == Spec => []NotesAndTurnsAgree
<1>1. IInv => NotesAndTurnsAgree
  <2> SUFFICES ASSUME IInv PROVE NotesAndTurnsAgree
    OBVIOUS
  <2>1. Turns
    BY ByPart
  <2>2. ASSUME NEW h \in Posters, NEW p \in Personas, poster[h].pc = "returned"
        PROVE  \E n \in accepted[p] : n.op = h
    <3>1. Announces(h)
      BY <2>1 DEF Turns
    <3> QED BY <2>2, <3>1 DEF Announces
  <2> QED BY <2>1, <2>2 DEF NotesAndTurnsAgree, Turns
<1> QED BY <1>1, Invariant, PTL

(* Racing provisioners never leave two identities behind: whoever learned  *)
(* one learned the one that stands (identity.go).                          *)
THEOREM OneIdentityOnly == Spec => []OneIdentity
<1>1. IInv => OneIdentity
  BY DEF IInv
<1> QED BY <1>1, Invariant, PTL

(* A retry under the id of a stored turn adds no second copy while the     *)
(* duplicate window remembers the first (post.go PostTurnIdempotent).      *)
THEOREM OneTurnOnly == Spec => []OneTurn
<1>1. Init => OneTurn
  BY DEF Init, OneTurn
<1>2. IInv /\ OneTurn /\ [Next]_vars => OneTurn'
  <2> SUFFICES ASSUME IInv, OneTurn, [Next]_vars PROVE OneTurn'
    OBVIOUS
  <2>1. TurnTypes
    BY ByPart DEF Turns
  <2>2. CASE UNCHANGED <<stored, late>>
    BY <2>2 DEF OneTurn
  <2>3. ASSUME NEW h \in Posters, Post(h)
        PROVE  OneTurn'
    <3>1. CASE UNCHANGED <<stored, late>>
      BY <3>1 DEF OneTurn
    <3>2. CASE /\ stored' = IF Absorbed(h) THEN stored
                            ELSE [stored EXCEPT ![h] = @ + 1]
               /\ late' = IF h \notin recent /\ stored[h] > 0
                          THEN late \union {h} ELSE late
      <4>1. CASE Absorbed(h)
        BY <3>2, <4>1 DEF Absorbed, OneTurn
      <4>2. CASE ~Absorbed(h)
        <5>1. /\ stored' = [stored EXCEPT ![h] = @ + 1]
              /\ late' = IF stored[h] > 0 THEN late \union {h} ELSE late
          BY <3>2, <4>2 DEF Absorbed
        <5> QED BY <5>1, <2>1 DEF OneTurn, TurnTypes
      <4> QED BY <4>1, <4>2
    <3> QED BY <2>3, <3>1, <3>2 DEF Post
  <2>4. ASSUME NEW h \in Posters, Notify(h) \/ Return(h)
        PROVE  UNCHANGED <<stored, late>>
    BY <2>4 DEF Notify, Return, server, past
  <2>5. ASSUME NEW v \in Provisioners, Provision(v)
        PROVE  UNCHANGED <<stored, late>>
    BY <2>5 DEF Provision, Start, Mint, LookUp, Shape, MakeTray, ReadInbox,
                Republish, Purge, Shelve, Abandon, server, stage
  <2>6. Expire => UNCHANGED <<stored, late>>
    BY DEF Expire, past
  <2>7. UNCHANGED vars => UNCHANGED <<stored, late>>
    BY DEF vars, server, past
  <2> QED BY <2>2, <2>3, <2>4, <2>5, <2>6, <2>7 DEF Next
<1> QED BY <1>1, <1>2, Invariant, PTL DEF Spec

(***************************************************************************)
(* Notifications: the invariant                                            *)
(***************************************************************************)

(* Older notes come first.                                                 *)
Rising(s) == \A i, j \in 1 .. Len(s) : i < j => s[i].id < s[j].id

(* What the inbox stream holds of p's, or held before it made room.        *)
InTray(p) == ToSet(tray.notes[p]) \union shed[p]

(* Ids are given out once, in order, and the duplicate window of the inbox *)
(* stream knows only what the stream has stored.                           *)
NotesKnown(p) ==
  /\ \A n \in accepted[p] : n.id <= sent
  /\ \A n, m \in accepted[p] : n.id = m.id => n = m
  /\ ToSet(residue[p]) \subseteq accepted[p] /\ InTray(p) \subseteq accepted[p]
  /\ Rising(residue[p])
  /\ \A n \in accepted[p] : <<p, n.id>> \in seen => n \in InTray(p)
  /\ \A i \in Nat : <<p, i>> \in seen => i <= sent

(* Every note is somewhere; what the old place holds is older than what    *)
(* the tray holds, but for the newest, which may be in both; and the tray  *)
(* is in order, above what it shed, unless a move came late.               *)
InboxSound(p) ==
  /\ accepted[p] \subseteq ToSet(residue[p]) \union InTray(p)
  /\ tray.there \/ InTray(p) = {}
  /\ shed[p] # {} => tray.notes[p] # <<>>
  /\ residue[p] # <<>> => \A m \in InTray(p) :
       \/ m \in ToSet(Newest(residue[p]))
       \/ \A n \in ToSet(residue[p]) : n.id < m.id
  /\ p \notin behind =>
       /\ Rising(tray.notes[p])
       /\ \A n \in shed[p], m \in ToSet(tray.notes[p]) : n.id < m.id

(* What provisioner v has in its hands of p's.                             *)
Carried(v, p) == IF p \in prov[v].to THEN ToSet(prov[v].batch) ELSE {}

(* While the notes of p wait in the old place, a move that has read them   *)
(* has put them in the tray, or carries them there.                        *)
MoveSound(v) ==
  /\ prov[v].pc = "moving" => tray.there
  /\ prov[v].pc # "moving" => prov[v].batch = <<>>
  /\ \A p, q \in prov[v].to : p = q
  /\ \A p \in Personas :
       /\ Carried(v, p) \subseteq accepted[p]
       /\ residue[p] # <<>> =>
            /\ Carried(v, p) \subseteq ToSet(Newest(residue[p]))
            /\ prov[v].pc = "moving" /\ p \notin prov[v].inboxes =>
                 ToSet(Newest(residue[p])) \subseteq InTray(p) \union Carried(v, p)

NotesKept == /\ \A p \in Personas : NotesKnown(p) /\ InboxSound(p)
             /\ \A v \in Provisioners : MoveSound(v)

(***************************************************************************)
(* Sequences of notes                                                      *)
(***************************************************************************)

LEMMA EmptySet == ToSet(<<>>) = {}
BY DEF ToSet

LEMMA Elements ==
  ASSUME NEW s \in Seq(Note)
  PROVE  /\ \A i \in 1 .. Len(s) : s[i] \in ToSet(s)
         /\ \A n \in ToSet(s) : \E i \in 1 .. Len(s) : s[i] = n
         /\ ToSet(s) \subseteq Note
         /\ s # <<>> <=> ToSet(s) # {}
         /\ Len(s) \in Nat
<1>1. DOMAIN s = 1 .. Len(s) /\ Len(s) \in Nat /\ \A i \in 1 .. Len(s) : s[i] \in Note
  OBVIOUS
<1>2. s # <<>> => 1 \in DOMAIN s
  OBVIOUS
<1>3. \A n \in ToSet(s) : \E i \in 1 .. Len(s) : s[i] = n
  BY <1>1 DEF ToSet
<1>4. \A i \in 1 .. Len(s) : s[i] \in ToSet(s)
  BY <1>1 DEF ToSet
<1> QED BY <1>1, <1>2, <1>3, <1>4, EmptySet

LEMMA Added ==
  ASSUME NEW s \in Seq(Note), NEW n \in Note
  PROVE  /\ Append(s, n) \in Seq(Note) /\ Append(s, n) # <<>>
         /\ Len(Append(s, n)) = Len(s) + 1
         /\ \A i \in 1 .. Len(s) : Append(s, n)[i] = s[i]
         /\ Append(s, n)[Len(s) + 1] = n
         /\ ToSet(Append(s, n)) = ToSet(s) \union {n}
<1>1. /\ Append(s, n) \in Seq(Note) /\ Append(s, n) # <<>>
      /\ Len(Append(s, n)) = Len(s) + 1
      /\ \A i \in 1 .. Len(s) : Append(s, n)[i] = s[i]
      /\ Append(s, n)[Len(s) + 1] = n
  OBVIOUS
<1>2. DOMAIN s = 1 .. Len(s) /\ DOMAIN Append(s, n) = 1 .. Len(s) + 1
      /\ Len(s) \in Nat
  OBVIOUS
<1> DEFINE t == Append(s, n)
<1> HIDE DEF t
<1>3. ToSet(t) = ToSet(s) \union {n}
  <2>1. ASSUME NEW m \in ToSet(t) PROVE m \in ToSet(s) \union {n}
    <3>1. PICK i \in 1 .. Len(s) + 1 : t[i] = m
      BY <1>2, <2>1 DEF ToSet, t
    <3>2. CASE i = Len(s) + 1
      BY <1>1, <3>1, <3>2 DEF t
    <3>3. CASE i # Len(s) + 1
      <4>1. i \in 1 .. Len(s)
        BY <1>2, <3>3
      <4> QED BY <1>1, <1>2, <3>1, <4>1 DEF ToSet, t
    <3> QED BY <3>2, <3>3
  <2>2. ASSUME NEW m \in ToSet(s) PROVE m \in ToSet(t)
    <3>1. PICK i \in 1 .. Len(s) : s[i] = m
      BY <1>2, <2>2 DEF ToSet
    <3>2. i \in 1 .. Len(s) + 1 /\ t[i] = m
      BY <1>1, <1>2, <3>1 DEF t
    <3> QED BY <1>2, <3>2 DEF ToSet, t
  <2>3. n \in ToSet(t)
    <3>1. Len(s) + 1 \in 1 .. Len(s) + 1
      BY <1>2
    <3> QED BY <1>1, <1>2, <3>1 DEF ToSet, t
  <2> QED BY <2>1, <2>2, <2>3
<1> QED BY <1>1, <1>3 DEF t

LEMMA Parts ==
  ASSUME NEW s \in Seq(Note), s # <<>>
  PROVE  /\ Head(s) = s[1] /\ Head(s) \in Note
         /\ Tail(s) \in Seq(Note) /\ Len(Tail(s)) = Len(s) - 1
         /\ \A i \in 1 .. Len(s) - 1 : Tail(s)[i] = s[i + 1]
         /\ ToSet(s) = {Head(s)} \union ToSet(Tail(s))
<1>1. /\ Head(s) = s[1] /\ Head(s) \in Note
      /\ Tail(s) \in Seq(Note) /\ Len(Tail(s)) = Len(s) - 1
      /\ \A i \in 1 .. Len(s) - 1 : Tail(s)[i] = s[i + 1]
  OBVIOUS
<1>2. /\ Len(s) \in Nat \ {0} /\ DOMAIN s = 1 .. Len(s)
      /\ DOMAIN Tail(s) = 1 .. Len(s) - 1
  OBVIOUS
<1> DEFINE t == Tail(s)
<1> HIDE DEF t
<1>3. ToSet(s) = {Head(s)} \union ToSet(t)
  <2>1. ASSUME NEW m \in ToSet(s) PROVE m \in {Head(s)} \union ToSet(t)
    <3>1. PICK i \in 1 .. Len(s) : s[i] = m
      BY <1>2, <2>1 DEF ToSet
    <3>2. CASE i = 1
      BY <1>1, <3>1, <3>2
    <3>3. CASE i # 1
      <4>1. i - 1 \in 1 .. Len(s) - 1 /\ (i - 1) + 1 = i
        BY <1>2, <3>3
      <4>2. t[i - 1] = m
        BY <1>1, <3>1, <4>1 DEF t
      <4> QED BY <1>2, <4>1, <4>2 DEF ToSet, t
    <3> QED BY <3>2, <3>3
  <2>2. ASSUME NEW m \in ToSet(t) PROVE m \in ToSet(s)
    <3>1. PICK i \in 1 .. Len(s) - 1 : t[i] = m
      BY <1>2, <2>2 DEF ToSet, t
    <3>2. i + 1 \in 1 .. Len(s) /\ s[i + 1] = m
      BY <1>1, <1>2, <3>1 DEF t
    <3> QED BY <1>2, <3>2 DEF ToSet
  <2>3. Head(s) \in ToSet(s)
    BY <1>1, <1>2 DEF ToSet
  <2> QED BY <2>1, <2>2, <2>3
<1> QED BY <1>1, <1>3 DEF t

(* What a stream keeps of s, and what it discards.                         *)
LEMMA KeptParts ==
  ASSUME NEW s \in Seq(Note), s # <<>>
  PROVE  /\ Kept(s) \in Seq(Note) /\ Kept(s) # <<>>
         /\ ToSet(s) = ToSet(Kept(s)) \union Dropped(s)
         /\ Rising(s) => /\ Rising(Kept(s))
                         /\ \A n \in Dropped(s), m \in ToSet(Kept(s)) : n.id < m.id
<1>1. CASE Len(s) <= Window
  BY <1>1, MailAssumption DEF Kept, Dropped
<1>2. CASE Len(s) > Window
  <2>1. Kept(s) = Tail(s) /\ Dropped(s) = {Head(s)}
    BY <1>2 DEF Kept, Dropped
  <2>2. Len(s) \in Nat /\ Len(s) > 1
    BY <1>2, MailAssumption
  <2>3. /\ Head(s) = s[1] /\ Head(s) \in Note
        /\ Tail(s) \in Seq(Note) /\ Len(Tail(s)) = Len(s) - 1
        /\ \A i \in 1 .. Len(s) - 1 : Tail(s)[i] = s[i + 1]
        /\ ToSet(s) = {Head(s)} \union ToSet(Tail(s))
    BY Parts
  <2>4. Tail(s) # <<>>
    <3>1. Len(Tail(s)) > 0
      BY <2>2, <2>3
    <3> QED BY <3>1
  <2>5. ASSUME Rising(s) PROVE Rising(Tail(s))
    <3>1. ASSUME NEW i \in 1 .. Len(s) - 1, NEW j \in 1 .. Len(s) - 1, i < j
          PROVE  Tail(s)[i].id < Tail(s)[j].id
      <4>1. i + 1 \in 1 .. Len(s) /\ j + 1 \in 1 .. Len(s) /\ i + 1 < j + 1
        BY <2>2, <3>1
      <4> QED BY <2>5, <2>3, <4>1 DEF Rising
    <3> QED BY <2>3, <3>1 DEF Rising
  <2>6. ASSUME Rising(s), NEW m \in ToSet(Tail(s)) PROVE Head(s).id < m.id
    <3>1. PICK i \in 1 .. Len(s) - 1 : Tail(s)[i] = m
      <4>1. Tail(s) \in Seq(Note) /\ Len(Tail(s)) = Len(s) - 1
        BY <2>3
      <4>2. \A n \in ToSet(Tail(s)) : \E i \in 1 .. Len(Tail(s)) : Tail(s)[i] = n
        BY <4>1, Elements
      <4> QED BY <2>6, <4>1, <4>2
    <3>2. i + 1 \in 1 .. Len(s) /\ 1 \in 1 .. Len(s) /\ 1 < i + 1
      BY <2>2, <3>1
    <3>3. s[i + 1] = m /\ Head(s) = s[1]
      BY <2>3, <3>1
    <3> QED BY <2>6, <3>2, <3>3 DEF Rising
  <2> QED BY <2>1, <2>3, <2>4, <2>5, <2>6
<1> QED BY <1>1, <1>2, MailAssumption

(* The newest notes of s, and those before them.                           *)
LEMMA NewestParts ==
  ASSUME NEW s \in Seq(Note)
  PROVE  /\ ToSet(Newest(s)) \subseteq ToSet(s)
         /\ s # <<>> => ToSet(Newest(s)) # {}
         /\ ToSet(s) = ToSet(Newest(s)) \union {s[i] : i \in 1 .. Len(s) - Window}
         /\ Rising(s) => \A i \in 1 .. Len(s) - Window, m \in ToSet(Newest(s)) :
                           s[i].id < m.id
<1> DEFINE a == IF Len(s) > Window THEN Len(s) - Window + 1 ELSE 1
           t == Newest(s)
           k == Len(s) - a + 1
<1>1. /\ a \in Nat \ {0} /\ Len(s) \in Nat /\ k \in Nat /\ k = Len(s) - a + 1
      /\ s # <<>> => k > 0
      /\ \A i \in Int : i \in 1 .. Len(s) - Window <=> i \in 1 .. a - 1
      /\ DOMAIN s = 1 .. Len(s)
  <2>1. Len(s) \in Nat /\ Window \in Nat \ {0} /\ DOMAIN s = 1 .. Len(s)
    BY MailAssumption
  <2>2. s # <<>> => Len(s) > 0
    OBVIOUS
  <2>3. a \in Nat \ {0} /\ k \in Nat /\ (Len(s) > 0 => k > 0)
    <3>1. /\ a \in Nat \ {0} /\ a <= Len(s) + 1
          /\ Len(s) > 0 => a <= Len(s)
      BY <2>1
    <3> HIDE DEF a
    <3> QED BY <2>1, <3>1
  <2>4. \A i \in Int : i \in 1 .. Len(s) - Window <=> i \in 1 .. a - 1
    <3>1. CASE Len(s) > Window
      BY <2>1, <3>1
    <3>2. CASE ~(Len(s) > Window)
      BY <2>1, <3>2
    <3> QED BY <3>1, <3>2
  <2> QED BY <2>1, <2>2, <2>3, <2>4
<1>2. t = [i \in 1 .. k |-> s[a + i - 1]]
  BY <1>1 DEF Newest
<1> HIDE DEF a, k, t
<1>3. DOMAIN t = 1 .. k /\ \A i \in 1 .. k : t[i] = s[a + i - 1]
  BY <1>2
<1>4. ASSUME NEW m \in ToSet(t)
      PROVE  \E j \in a .. Len(s) : s[j] = m
  <2>1. PICK i \in 1 .. k : t[i] = m
    BY <1>3, <1>4 DEF ToSet
  <2>2. a + i - 1 \in a .. Len(s)
    BY <1>1, <2>1
  <2> QED BY <1>3, <2>1, <2>2
<1>5. ASSUME NEW j \in a .. Len(s)
      PROVE  s[j] \in ToSet(t)
  <2>1. j - a + 1 \in 1 .. k /\ a + (j - a + 1) - 1 = j
    BY <1>1
  <2>2. t[j - a + 1] = s[j]
    BY <1>3, <2>1
  <2> QED BY <1>3, <2>1, <2>2 DEF ToSet
<1>6. ToSet(t) \subseteq ToSet(s)
  <2>1. a .. Len(s) \subseteq 1 .. Len(s)
    BY <1>1
  <2> QED BY <1>1, <1>4, <2>1 DEF ToSet
<1>7. s # <<>> => ToSet(t) # {}
  <2>1. s # <<>> => Len(s) \in a .. Len(s)
    BY <1>1
  <2> QED BY <1>5, <2>1
<1>8. ToSet(s) = ToSet(t) \union {s[i] : i \in 1 .. Len(s) - Window}
  <2>1. ASSUME NEW m \in ToSet(s)
        PROVE  m \in ToSet(t) \union {s[i] : i \in 1 .. Len(s) - Window}
    <3>1. PICK j \in 1 .. Len(s) : s[j] = m
      BY <1>1, <2>1 DEF ToSet
    <3>2. j \in a .. Len(s) \/ j \in 1 .. a - 1
      BY <1>1
    <3> QED BY <1>1, <1>5, <3>1, <3>2
  <2>2. ASSUME NEW i \in 1 .. Len(s) - Window
        PROVE  s[i] \in ToSet(s)
    <3>1. i \in 1 .. Len(s)
      BY <1>1, <2>2, MailAssumption
    <3> QED BY <1>1, <3>1 DEF ToSet
  <2> QED BY <1>6, <2>1, <2>2
<1>9. ASSUME Rising(s), NEW i \in 1 .. Len(s) - Window, NEW m \in ToSet(t)
      PROVE  s[i].id < m.id
  <2>1. PICK j \in a .. Len(s) : s[j] = m
    BY <1>4, <1>9
  <2>2. i \in 1 .. Len(s) /\ j \in 1 .. Len(s) /\ i < j
    BY <1>1, <1>9, <2>1, MailAssumption
  <2> QED BY <1>9, <2>1, <2>2 DEF Rising
<1> QED BY <1>6, <1>7, <1>8, <1>9 DEF t

(***************************************************************************)
(* The inbox stream                                                        *)
(***************************************************************************)

(* A publish to p's inbox: taken unless the window knows its id.           *)
LEMMA TrayTakes ==
  ASSUME TrayTypes, NEW p \in Personas, NEW n \in Note, PutInTray(p, n)
  PROVE  /\ tray'.there = tray.there
         /\ \A q \in Personas \ {p} : /\ tray'.notes[q] = tray.notes[q]
                                      /\ shed'[q] = shed[q]
         /\ \A q \in Personas, i \in Nat :
              <<q, i>> \in seen' <=> <<q, i>> \in seen \/ (q = p /\ i = n.id)
         /\ <<p, n.id>> \in seen => /\ tray'.notes[p] = tray.notes[p]
                                    /\ shed'[p] = shed[p]
         /\ <<p, n.id>> \notin seen =>
              /\ tray'.notes[p] = Kept(Append(tray.notes[p], n))
              /\ shed'[p] = shed[p] \union Dropped(Append(tray.notes[p], n))
<1>1. CASE <<p, n.id>> \in seen
  BY <1>1 DEF PutInTray
<1>2. CASE <<p, n.id>> \notin seen
  <2> DEFINE s == Append(tray.notes[p], n)
             k == Kept(s)
             d == Dropped(s)
  <2>1. /\ tray' = [tray EXCEPT !.notes[p] = k]
        /\ shed' = [shed EXCEPT ![p] = @ \union d]
        /\ seen' = seen \union {<<p, n.id>>}
    BY <1>2 DEF PutInTray
  <2> HIDE DEF s, k, d
  <2>2. /\ tray \in [there : BOOLEAN, notes : [Personas -> Seq(Note)]]
        /\ shed \in [Personas -> SUBSET Note]
    BY DEF TrayTypes
  <2> QED BY <1>2, <2>1, <2>2 DEF s, k, d
<1> QED BY <1>1, <1>2

InOrder(p) == /\ Rising(tray.notes[p])
              /\ \A n \in shed[p], m \in ToSet(tray.notes[p]) : n.id < m.id

(* What is taken stays in sight, and a younger note leaves the order be.   *)
LEMMA TrayKeeps ==
  ASSUME TrayTypes, NEW p \in Personas, NEW n \in Note, PutInTray(p, n),
         shed[p] # {} => tray.notes[p] # <<>>
  PROVE  /\ InTray(p)' = IF <<p, n.id>> \in seen THEN InTray(p)
                         ELSE InTray(p) \union {n}
         /\ shed'[p] # {} => tray'.notes[p] # <<>>
         /\ InOrder(p) /\ (\A m \in ToSet(tray.notes[p]) : m.id < n.id)
              => InOrder(p)'
<1>1. CASE <<p, n.id>> \in seen
  <2>1. tray'.notes[p] = tray.notes[p] /\ shed'[p] = shed[p]
    BY <1>1, TrayTakes
  <2> QED BY <1>1, <2>1 DEF InTray, InOrder
<1>2. CASE <<p, n.id>> \notin seen
  <2>1. PICK t \in Seq(Note) : t = tray.notes[p]
    BY DEF TrayTypes
  <2>2. PICK s \in Seq(Note) : s = Append(t, n)
    BY Added
  <2>3. tray'.notes[p] = Kept(s) /\ shed'[p] = shed[p] \union Dropped(s)
    BY <1>2, <2>1, <2>2, TrayTakes
  <2>4. /\ s # <<>> /\ Len(s) = Len(t) + 1 /\ Len(t) \in Nat
        /\ \A i \in 1 .. Len(t) : s[i] = t[i]
        /\ s[Len(t) + 1] = n
        /\ ToSet(s) = ToSet(t) \union {n}
    BY <2>2, Added, Elements
  <2>5. /\ Kept(s) # <<>> /\ ToSet(s) = ToSet(Kept(s)) \union Dropped(s)
        /\ Rising(s) => /\ Rising(Kept(s))
                        /\ \A x \in Dropped(s), m \in ToSet(Kept(s)) : x.id < m.id
    BY <2>4, KeptParts
  <2>6. InTray(p)' = InTray(p) \union {n}
    BY <2>1, <2>3, <2>4, <2>5 DEF InTray
  <2>7. ASSUME InOrder(p), \A m \in ToSet(t) : m.id < n.id
        PROVE  InOrder(p)'
    <3>1. Rising(s)
      <4>1. ASSUME NEW i \in 1 .. Len(s), NEW j \in 1 .. Len(s), i < j
            PROVE  s[i].id < s[j].id
        <5>1. i \in 1 .. Len(t) /\ s[i] = t[i] /\ t[i] \in ToSet(t)
          BY <2>4, <4>1, Elements
        <5>2. CASE j = Len(t) + 1
          BY <2>4, <2>7, <5>1, <5>2
        <5>3. CASE j # Len(t) + 1
          <6>1. j \in 1 .. Len(t) /\ s[j] = t[j]
            BY <2>4, <5>3
          <6> QED BY <2>1, <2>7, <4>1, <5>1, <6>1 DEF InOrder, Rising
        <5> QED BY <5>2, <5>3
      <4> QED BY <4>1 DEF Rising
    <3>2. ASSUME NEW x \in shed[p], NEW m \in ToSet(s)
          PROVE  x.id < m.id
      <4>1. CASE m \in ToSet(t)
        BY <2>1, <2>7, <4>1 DEF InOrder
      <4>2. CASE m = n
        <5>1. PICK y : y \in ToSet(t)
          <6>1. t # <<>>
            BY <2>1, <3>2
          <6>2. ToSet(t) # {}
            BY <6>1, Elements
          <6> QED BY <6>2
        <5>2. x.id < y.id /\ y.id < n.id
          BY <2>1, <2>7, <5>1 DEF InOrder
        <5>3. x.id \in Nat /\ y.id \in Nat /\ n.id \in Nat
          <6>1. x \in Note
            BY <3>2 DEF TrayTypes
          <6>2. y \in Note
            BY <5>1, Elements
          <6> QED BY <6>1, <6>2 DEF Note
        <5> QED BY <4>2, <5>2, <5>3
      <4> QED BY <2>4, <4>1, <4>2
    <3> QED BY <2>3, <2>5, <3>1, <3>2 DEF InOrder
  <2> QED BY <1>2, <2>1, <2>3, <2>5, <2>6, <2>7
<1> QED BY <1>1, <1>2

(***************************************************************************)
(* What a step does to the notes of one persona                            *)
(***************************************************************************)

Untouched(p) ==
  /\ residue'[p] = residue[p] /\ accepted'[p] = accepted[p]
  /\ tray'.notes[p] = tray.notes[p] /\ shed'[p] = shed[p]
  /\ tray.there => tray'.there
  /\ \A i \in Nat : <<p, i>> \in seen' => <<p, i>> \in seen
  /\ p \in behind <=> p \in behind'
  /\ sent \in Nat /\ sent' \in Nat /\ sent' >= sent

LEMMA UntouchedNotes ==
  ASSUME NEW p \in Personas, accepted[p] \subseteq Note, Untouched(p),
         NotesKnown(p), InboxSound(p)
  PROVE  NotesKnown(p)' /\ InboxSound(p)'
<1>1. \A n \in accepted[p] : n.id \in Nat
  BY DEF Note
<1>2. InTray(p)' = InTray(p)
  BY DEF InTray, Untouched
<1>3. NotesKnown(p)'
  BY <1>1, <1>2 DEF NotesKnown, Untouched
<1>4. InboxSound(p)'
  BY <1>2 DEF InboxSound, Untouched
<1> QED BY <1>3, <1>4

(* A note posted in a realm whose old place still takes it (notify.go).    *)
LEMMA DeliveredToResidue ==
  ASSUME TrayTypes, MoveTypes, TurnTypes, NEW p \in Personas,
         NEW n \in Note, n.id = sent + 1,
         ~tray.there, Deliver(p, n), sent' = sent + 1, behind' = behind,
         NotesKnown(p), InboxSound(p)
  PROVE  NotesKnown(p)' /\ InboxSound(p)'
<1>1. /\ residue'[p] = Append(residue[p], n) /\ UNCHANGED <<tray, seen, shed>>
      /\ accepted'[p] = accepted[p] \union {n}
  BY DEF Deliver, MoveTypes, TurnTypes
<1>2. PICK t \in Seq(Note) : t = residue[p]
  BY DEF MoveTypes
<1>3. PICK s \in Seq(Note) : s = Append(t, n)
  BY Added
<1>4. /\ residue'[p] = s /\ Len(s) = Len(t) + 1 /\ Len(t) \in Nat
      /\ \A i \in 1 .. Len(t) : s[i] = t[i]
      /\ s[Len(t) + 1] = n
      /\ ToSet(s) = ToSet(t) \union {n}
  BY <1>1, <1>2, <1>3, Added, Elements
<1>5. /\ InTray(p) = {} /\ InTray(p)' = {}
  BY <1>1 DEF InboxSound, InTray
<1>6. /\ sent \in Nat /\ \A m \in accepted[p] : m.id \in Nat /\ m.id <= sent
      /\ ToSet(t) \subseteq accepted[p]
  BY <1>2 DEF TurnTypes, NotesKnown, Note
<1>7. Rising(s)
  <2>1. ASSUME NEW i \in 1 .. Len(s), NEW j \in 1 .. Len(s), i < j
        PROVE  s[i].id < s[j].id
    <3>1. i \in 1 .. Len(t) /\ s[i] = t[i] /\ t[i] \in ToSet(t)
      BY <1>4, <2>1, Elements
    <3>2. CASE j = Len(t) + 1
      BY <1>4, <1>6, <3>1, <3>2
    <3>3. CASE j # Len(t) + 1
      <4>1. j \in 1 .. Len(t) /\ s[j] = t[j]
        BY <1>4, <3>3
      <4> QED BY <1>2, <2>1, <3>1, <4>1 DEF NotesKnown, Rising
    <3> QED BY <3>2, <3>3
  <2> QED BY <2>1 DEF Rising
<1>8. NotesKnown(p)'
  <2>1. ASSUME NEW m \in accepted'[p], NEW k \in accepted'[p]
        PROVE  m.id <= sent' /\ (m.id = k.id => m = k)
    BY <1>1, <1>6 DEF NotesKnown
  <2>2. \A i \in Nat : <<p, i>> \in seen' => i <= sent'
    BY <1>1, <1>6 DEF NotesKnown
  <2>3. ASSUME NEW m \in accepted'[p], <<p, m.id>> \in seen'
        PROVE  FALSE
    <3>1. CASE m \in accepted[p]
      BY <1>1, <1>5, <2>3, <3>1 DEF NotesKnown
    <3>2. CASE m = n
      BY <1>1, <1>6, <2>3, <3>2 DEF NotesKnown
    <3> QED BY <1>1, <3>1, <3>2
  <2> QED BY <1>1, <1>4, <1>5, <1>6, <1>7, <2>1, <2>2, <2>3 DEF NotesKnown
<1>9. InboxSound(p)'
  BY <1>1, <1>2, <1>4, <1>5 DEF InboxSound
<1> QED BY <1>8, <1>9

(* A note posted to the inbox stream.                                      *)
LEMMA DeliveredToTray ==
  ASSUME TrayTypes, MoveTypes, TurnTypes, NEW p \in Personas,
         NEW n \in Note, n.id = sent + 1,
         tray.there, Deliver(p, n), sent' = sent + 1, behind' = behind,
         NotesKnown(p), InboxSound(p)
  PROVE  /\ NotesKnown(p)' /\ InboxSound(p)'
         /\ InTray(p)' = InTray(p) \union {n}
<1>1. /\ PutInTray(p, n) /\ residue' = residue
      /\ accepted'[p] = accepted[p] \union {n}
  BY DEF Deliver, TurnTypes
<1>2. /\ sent \in Nat /\ \A m \in accepted[p] : m.id \in Nat /\ m.id <= sent
      /\ InTray(p) \subseteq accepted[p] /\ ToSet(residue[p]) \subseteq accepted[p]
  BY DEF TurnTypes, NotesKnown, Note
<1>3. <<p, n.id>> \notin seen
  BY <1>2 DEF NotesKnown
<1>4. /\ InTray(p)' = InTray(p) \union {n}
      /\ shed'[p] # {} => tray'.notes[p] # <<>>
      /\ InOrder(p) => InOrder(p)'
  <2>1. \A m \in ToSet(tray.notes[p]) : m.id < n.id
    BY <1>2 DEF InTray
  <2> QED BY <1>1, <1>3, <2>1, TrayKeeps DEF InboxSound
<1>5. /\ tray'.there
      /\ \A i \in Nat : <<p, i>> \in seen' <=> <<p, i>> \in seen \/ i = n.id
  BY <1>1, TrayTakes
<1>6. NotesKnown(p)'
  <2>1. ASSUME NEW m \in accepted'[p], NEW k \in accepted'[p]
        PROVE  m.id <= sent' /\ (m.id = k.id => m = k)
    BY <1>1, <1>2 DEF NotesKnown
  <2>2. \A i \in Nat : <<p, i>> \in seen' => i <= sent'
    BY <1>2, <1>5 DEF NotesKnown
  <2>3. ASSUME NEW m \in accepted'[p], <<p, m.id>> \in seen'
        PROVE  m \in InTray(p)'
    BY <1>1, <1>2, <1>4, <1>5, <2>3 DEF NotesKnown
  <2> QED BY <1>1, <1>2, <1>4, <2>1, <2>2, <2>3 DEF NotesKnown
<1>7. InboxSound(p)'
  <2>1. \A m \in ToSet(residue[p]) : m.id < n.id
    BY <1>2
  <2> QED BY <1>1, <1>4, <1>5, <2>1 DEF InboxSound, InOrder
<1> QED BY <1>4, <1>6, <1>7

(* A note republished by a move, as it was (provision.go).                 *)
LEMMA Republished ==
  ASSUME TrayTypes, MoveTypes, TurnTypes, NEW p \in Personas,
         NEW n \in accepted[p], tray.there, PutInTray(p, n),
         residue[p] # <<>> => n \in ToSet(Newest(residue[p])),
         UNCHANGED <<residue, accepted, sent>>,
         behind' = IF \E m \in ToSet(tray.notes[p]) : m.id >= n.id
                   THEN behind \union {p} ELSE behind,
         NotesKnown(p), InboxSound(p)
  PROVE  /\ NotesKnown(p)' /\ InboxSound(p)'
         /\ InTray(p)' = InTray(p) \union {n}
<1>1. /\ sent \in Nat /\ \A m \in accepted[p] : m.id \in Nat /\ m.id <= sent
      /\ InTray(p) \subseteq accepted[p] /\ n \in Note
  BY DEF TurnTypes, NotesKnown, Note
<1>2. /\ InTray(p)' = InTray(p) \union {n}
      /\ shed'[p] # {} => tray'.notes[p] # <<>>
      /\ InOrder(p) /\ (\A m \in ToSet(tray.notes[p]) : m.id < n.id)
           => InOrder(p)'
  <2>1. <<p, n.id>> \in seen => n \in InTray(p)
    BY DEF NotesKnown
  <2> QED BY <1>1, <2>1, TrayKeeps DEF InboxSound
<1>3. /\ tray'.there
      /\ \A i \in Nat : <<p, i>> \in seen' <=> <<p, i>> \in seen \/ i = n.id
  BY <1>1, TrayTakes
<1>4. NotesKnown(p)'
  <2>1. \A i \in Nat : <<p, i>> \in seen' => i <= sent'
    BY <1>1, <1>3 DEF NotesKnown
  <2>2. ASSUME NEW m \in accepted[p], <<p, m.id>> \in seen'
        PROVE  m \in InTray(p)'
    BY <1>1, <1>2, <1>3, <2>2 DEF NotesKnown
  <2> QED BY <1>2, <2>1, <2>2 DEF NotesKnown
<1>5. ASSUME p \notin behind'
      PROVE  p \notin behind /\ \A m \in ToSet(tray.notes[p]) : m.id < n.id
  <2>1. \A m \in ToSet(tray.notes[p]) : m \in accepted[p] /\ ~(m.id >= n.id)
    BY <1>1, <1>5 DEF InTray
  <2> QED BY <1>1, <1>5, <2>1
<1>6. InboxSound(p)'
  BY <1>2, <1>3, <1>5 DEF InboxSound, InOrder
<1> QED BY <1>2, <1>4, <1>6

(* The purge of the old place: what is newest there is in the tray, and    *)
(* what is older made room for it.                                         *)
LEMMA Purged ==
  ASSUME TrayTypes, MoveTypes, TurnTypes, NEW p \in Personas, tray.there,
         residue[p] # <<>> => ToSet(Newest(residue[p])) \subseteq InTray(p),
         residue'[p] = <<>>,
         shed'[p] = shed[p] \union
                      {residue[p][i] : i \in 1 .. Len(residue[p]) - Window},
         UNCHANGED <<accepted, sent, tray, seen, behind>>,
         NotesKnown(p), InboxSound(p)
  PROVE  NotesKnown(p)' /\ InboxSound(p)' /\ InTray(p) \subseteq InTray(p)'
<1>1. PICK s \in Seq(Note) : s = residue[p]
  BY DEF MoveTypes
<1> DEFINE older == {s[i] : i \in 1 .. Len(s) - Window}
<1>2. /\ ToSet(s) = ToSet(Newest(s)) \union older
      /\ s # <<>> => ToSet(Newest(s)) # {}
      /\ ToSet(s) \subseteq accepted[p] /\ (s = <<>> <=> ToSet(s) = {})
      /\ Rising(s) /\ (\A x \in older, m \in ToSet(Newest(s)) : x.id < m.id)
  <2>1. Rising(s) /\ ToSet(s) \subseteq accepted[p]
    BY <1>1 DEF NotesKnown
  <2>2. \A i \in 1 .. Len(s) - Window, m \in ToSet(Newest(s)) : s[i].id < m.id
    BY <2>1, NewestParts
  <2> QED BY <2>1, <2>2, NewestParts, Elements
<1>3. shed'[p] = shed[p] \union older
  BY <1>1
<1> HIDE DEF older
<1>4. InTray(p)' = InTray(p) \union older
  BY <1>3 DEF InTray
<1>5. NotesKnown(p)'
  <2>1. Rising(<<>>) /\ ToSet(<<>>) = {}
    BY EmptySet DEF Rising
  <2> QED BY <1>2, <1>4, <2>1 DEF NotesKnown
<1>6. accepted'[p] \subseteq InTray(p)'
  <2>1. accepted[p] \subseteq ToSet(s) \union InTray(p)
    BY <1>1 DEF InboxSound
  <2>2. ToSet(s) \subseteq InTray(p) \union older
    BY <1>1, <1>2
  <2> QED BY <1>4, <2>1, <2>2
<1>7. shed'[p] # {} => tray.notes[p] # <<>>
  <2>1. CASE shed[p] # {}
    BY <2>1 DEF InboxSound
  <2>2. CASE shed[p] = {} /\ older # {}
    <3>1. s # <<>> /\ ToSet(Newest(s)) \subseteq InTray(p)
      BY <1>1, <1>2, <2>2
    <3>2. ToSet(tray.notes[p]) # {}
      BY <1>2, <2>2, <3>1 DEF InTray
    <3> QED BY <3>2, EmptySet
  <2> QED BY <1>3, <2>1, <2>2
<1>8. ASSUME p \notin behind, NEW x \in shed'[p], NEW m \in ToSet(tray.notes[p])
      PROVE  x.id < m.id
  <2>1. CASE x \in shed[p]
    BY <1>8, <2>1 DEF InboxSound
  <2>2. CASE x \in older
    <3>1. \/ m \in ToSet(Newest(s))
          \/ \A y \in ToSet(s) : y.id < m.id
      BY <1>1, <1>2, <1>8, <2>2 DEF InboxSound, InTray
    <3> QED BY <1>2, <2>2, <3>1
  <2> QED BY <1>3, <1>8, <2>1, <2>2
<1>9. InboxSound(p)'
  BY <1>6, <1>7, <1>8 DEF InboxSound
<1> QED BY <1>4, <1>5, <1>9

(***************************************************************************)
(* Moves                                                                   *)
(***************************************************************************)

(* What other processes do to the notes a provisioner is moving.           *)
NotesGrow ==
  /\ tray.there => tray'.there
  /\ \A p \in Personas :
       /\ accepted[p] \subseteq accepted'[p] /\ InTray(p) \subseteq InTray(p)'
       /\ tray.there => residue'[p] \in {residue[p], <<>>}

LEMMA MoveStays ==
  ASSUME NEW w \in Provisioners, MoveSound(w), prov'[w] = prov[w], NotesGrow
  PROVE  MoveSound(w)'
<1>1. \A p \in Personas : Carried(w, p)' = Carried(w, p)
  BY DEF Carried
<1>2. CASE prov[w].pc = "moving"
  BY <1>1, <1>2 DEF MoveSound, NotesGrow
<1>3. CASE prov[w].pc # "moving"
  <2>1. \A p \in Personas : Carried(w, p) = {}
    BY <1>3, EmptySet DEF MoveSound, Carried
  <2> QED BY <1>1, <1>3, <2>1 DEF MoveSound
<1> QED BY <1>2, <1>3

(* A provisioner that carries nothing, and does not move.                  *)
LEMMA NotMoving ==
  ASSUME NEW v \in Provisioners, prov'[v].pc # "moving", prov'[v].batch = <<>>,
         \A p, q \in prov'[v].to : p = q
  PROVE  MoveSound(v)'
<1>1. \A p \in Personas : Carried(v, p)' = {}
  BY EmptySet DEF Carried
<1> QED BY <1>1 DEF MoveSound

LEMMA RestingFields ==
  Resting.pc = "idle" /\ Resting.batch = <<>> /\ Resting.to = {}
BY DEF Resting

Parties == TrayTypes /\ MoveTypes /\ TurnTypes /\ NotesKept

(* A step that touches nobody's notes.                                     *)
LEMMA NobodysNotes ==
  ASSUME Parties, \A p \in Personas : Untouched(p), tray.there => tray'.there,
         \A v \in Provisioners : prov'[v] = prov[v] \/ MoveSound(v)'
  PROVE  NotesKept'
<1>1. ASSUME NEW p \in Personas
      PROVE  NotesKnown(p)' /\ InboxSound(p)'
  <2>1. accepted[p] \subseteq Note /\ Untouched(p) /\ NotesKnown(p) /\ InboxSound(p)
    BY DEF Parties, TurnTypes, NotesKept
  <2> QED BY <2>1, UntouchedNotes
<1>2. ASSUME NEW p \in Personas
      PROVE  InTray(p)' = InTray(p)
  BY DEF InTray, Untouched
<1>3. ASSUME NEW v \in Provisioners
      PROVE  MoveSound(v)'
  <2>1. NotesGrow
    BY <1>2 DEF NotesGrow, Untouched
  <2> QED BY <2>1, MoveStays DEF Parties, NotesKept
<1> QED BY <1>1, <1>3 DEF NotesKept

LEMMA QuietNotes ==
  ASSUME TurnTypes, UNCHANGED <<residue, accepted, tray, shed, behind, sent>>,
         seen' \subseteq seen
  PROVE  /\ \A p \in Personas : Untouched(p)
         /\ tray.there => tray'.there
BY DEF TurnTypes, Untouched

(***************************************************************************)
(* The steps of a poster                                                   *)
(***************************************************************************)

LEMMA PostingKeepsNotes ==
  ASSUME Parties, NEW h \in Posters, Post(h) \/ Return(h)
  PROVE  NotesKept'
<1>1. /\ UNCHANGED <<residue, accepted, tray, shed, behind, sent, prov>>
      /\ seen' \subseteq seen
  BY DEF Post, Return, server, past
<1> QED BY <1>1, QuietNotes, NobodysNotes DEF Parties

LEMMA NotifyKeepsNotes ==
  ASSUME Parties, NEW h \in Posters, Notify(h)
  PROVE  NotesKept'
<1> DEFINE n == [id |-> sent + 1, op |-> h]
<1>1. PICK p \in poster[h].left :
        /\ \/ Deliver(p, n) /\ sent' = sent + 1
           \/ UNCHANGED <<residue, tray, seen, shed, accepted, sent>>
        /\ UNCHANGED <<prov, behind>>
  BY DEF Notify
<1>2. p \in Personas /\ n \in Note /\ n.id = sent + 1 /\ sent \in Nat
  BY DEF Parties, TurnTypes, Poster, Note
<1> HIDE DEF n
<1>3. CASE UNCHANGED <<residue, tray, seen, shed, accepted, sent>>
  BY <1>1, <1>3, QuietNotes, NobodysNotes DEF Parties
<1>4. CASE Deliver(p, n) /\ sent' = sent + 1
  <2>1. NotesKnown(p)' /\ InboxSound(p)' /\ (tray.there => InTray(p)' = InTray(p) \union {n})
    BY <1>1, <1>2, <1>4, DeliveredToResidue, DeliveredToTray DEF Parties, NotesKept
  <2>2. /\ accepted'[p] = accepted[p] \union {n}
        /\ \A q \in Personas \ {p} : accepted'[q] = accepted[q]
    BY <1>2, <1>4 DEF Deliver, Parties, TurnTypes
  <2>3. /\ \A q \in Personas \ {p} : Untouched(q)
        /\ tray.there => tray'.there /\ residue' = residue
        /\ ~tray.there => UNCHANGED tray /\ InTray(p)' = InTray(p)
    <3>1. CASE tray.there
      <4>1. PutInTray(p, n) /\ residue' = residue
        BY <1>4, <3>1 DEF Deliver
      <4>2. /\ tray'.there = tray.there
            /\ \A q \in Personas \ {p} : /\ tray'.notes[q] = tray.notes[q]
                                         /\ shed'[q] = shed[q]
            /\ \A q \in Personas \ {p}, i \in Nat : <<q, i>> \in seen' <=> <<q, i>> \in seen
        BY <1>2, <4>1, TrayTakes DEF Parties
      <4> QED BY <1>1, <1>2, <1>4, <2>2, <3>1, <4>1, <4>2 DEF Untouched
    <3>2. CASE ~tray.there
      <4>1. UNCHANGED <<tray, seen, shed>> /\ residue' = [residue EXCEPT ![p] = Append(@, n)]
        BY <1>4, <3>2 DEF Deliver
      <4> QED BY <1>1, <1>2, <1>4, <2>2, <3>2, <4>1
              DEF Parties, MoveTypes, Untouched, InTray
    <3> QED BY <3>1, <3>2
  <2>4. ASSUME NEW q \in Personas \ {p}
        PROVE  NotesKnown(q)' /\ InboxSound(q)'
    <3>1. accepted[q] \subseteq Note /\ Untouched(q) /\ NotesKnown(q) /\ InboxSound(q)
      BY <2>3 DEF Parties, TurnTypes, NotesKept
    <3> QED BY <3>1, UntouchedNotes
  <2>5. NotesGrow
    <3>1. ASSUME NEW q \in Personas \ {p}
          PROVE  accepted[q] \subseteq accepted'[q] /\ InTray(q)' = InTray(q)
      BY <2>2, <2>3 DEF Untouched, InTray
    <3>2. InTray(p) \subseteq InTray(p)'
      BY <2>1, <2>3
    <3> QED BY <2>2, <2>3, <3>1, <3>2 DEF NotesGrow
  <2>6. ASSUME NEW v \in Provisioners
        PROVE  MoveSound(v)'
    BY <1>1, <2>5, MoveStays DEF Parties, NotesKept
  <2> QED BY <2>1, <2>4, <2>6 DEF NotesKept
<1> QED BY <1>1, <1>3, <1>4

(***************************************************************************)
(* The steps of a provisioner                                              *)
(***************************************************************************)

(* Whatever v does but a move leaves everybody's notes alone.              *)
LEMMA ProvisioningKeepsNotes ==
  ASSUME Parties, NEW v \in Provisioners,
         \/ Start(v) \/ Mint(v) \/ LookUp(v) \/ Shape(v) \/ Shelve(v)
         \/ Abandon(v)
  PROVE  NotesKept'
<1>1. /\ UNCHANGED <<residue, accepted, tray, shed, behind, sent>>
      /\ seen' \subseteq seen
  BY DEF Start, Mint, LookUp, Shape, Shelve, Abandon, server, stage
<1>2. /\ prov \in [Provisioners -> Provisioner] /\ prov[v] \in Provisioner
      /\ \A p, q \in prov[v].to : p = q
      /\ prov[v].pc # "moving" => prov[v].batch = <<>>
  BY DEF Parties, MoveTypes, NotesKept, MoveSound
<1>3. PICK x :
        /\ prov' = [prov EXCEPT ![v] = x]
        /\ x.pc # "moving" /\ x.batch = <<>> /\ \A p, q \in x.to : p = q
  <2>1. CASE Start(v)
    <3>1. PICK only \in BOOLEAN :
            Goto(v, [Resting EXCEPT !.only = only,
                       !.pc = IF key = 0 THEN "mint" ELSE "oplog"])
      BY <2>1 DEF Start
    <3> DEFINE x == [Resting EXCEPT !.only = only,
                       !.pc = IF key = 0 THEN "mint" ELSE "oplog"]
    <3>2. x.pc # "moving" /\ x.batch = <<>> /\ x.to = {}
      BY DEF Resting
    <3> QED BY <3>1, <3>2 DEF Goto
  <2>2. CASE Mint(v)
    <3>1. Goto(v, Resting) \/ Goto(v, [prov[v] EXCEPT !.pc = "oplog"])
      BY <2>2 DEF Mint, To
    <3>2. prov[v].batch = <<>>
      BY <1>2, <2>2 DEF Mint, At
    <3> DEFINE x == [prov[v] EXCEPT !.pc = "oplog"]
    <3>3. x.pc # "moving" /\ x.batch = <<>> /\ x.to = prov[v].to
      BY <1>2, <3>2 DEF Provisioner
    <3>4. CASE Goto(v, Resting)
      BY <3>4, RestingFields DEF Goto
    <3>5. CASE Goto(v, x)
      <4>1. prov' = [prov EXCEPT ![v] = x]
        BY <3>5 DEF Goto
      <4> HIDE DEF x
      <4>2. \A p, q \in x.to : p = q
        BY <1>2, <3>3
      <4> QED BY <3>3, <4>1, <4>2
    <3> QED BY <3>1, <3>4, <3>5
  <2>3. CASE LookUp(v)
    <3> DEFINE x == [prov[v] EXCEPT !.pc = "shape", !.found = oplog]
    <3>1. Goto(v, x) /\ prov[v].batch = <<>>
      BY <1>2, <2>3 DEF LookUp, At
    <3>2. x.pc # "moving" /\ x.batch = <<>> /\ x.to = prov[v].to
      BY <1>2, <3>1 DEF Provisioner
    <3>3. prov' = [prov EXCEPT ![v] = x]
      BY <3>1 DEF Goto
    <3> HIDE DEF x
    <3>4. \A p, q \in x.to : p = q
      BY <1>2, <3>2
    <3> QED BY <3>2, <3>3, <3>4
  <2>4. CASE Shape(v)
    <3> DEFINE x == [prov[v] EXCEPT !.pc = "tray",
                       !.converged = prov[v].found = "legacy"]
    <3>1. Goto(v, x) /\ prov[v].batch = <<>>
      BY <1>2, <2>4 DEF Shape, At
    <3>2. x.pc # "moving" /\ x.batch = <<>> /\ x.to = prov[v].to
      BY <1>2, <3>1 DEF Provisioner
    <3>3. prov' = [prov EXCEPT ![v] = x]
      BY <3>1 DEF Goto
    <3> HIDE DEF x
    <3>4. \A p, q \in x.to : p = q
      BY <1>2, <3>2
    <3> QED BY <3>2, <3>3, <3>4
  <2>5. CASE Shelve(v)
    <3>1. CASE Goto(v, [Resting EXCEPT !.pc = "done"])
      <4> DEFINE x == [Resting EXCEPT !.pc = "done"]
      <4>1. x.pc # "moving" /\ x.batch = <<>> /\ x.to = {}
        BY DEF Resting
      <4> QED BY <3>1, <4>1 DEF Goto
    <3>2. CASE UNCHANGED prov
      <4>1. prov' = [prov EXCEPT ![v] = prov[v]] /\ prov[v].pc # "moving"
        BY <1>2, <2>5, <3>2 DEF Shelve, At
      <4> QED BY <1>2, <4>1
    <3> QED BY <2>5, <3>1, <3>2 DEF Shelve
  <2>6. CASE Abandon(v)
    BY <2>6, RestingFields DEF Abandon, Goto
  <2> QED BY <2>1, <2>2, <2>3, <2>4, <2>5, <2>6
<1>4. /\ prov'[v] = x
      /\ \A w \in Provisioners \ {v} : prov'[w] = prov[w]
  BY <1>2, <1>3
<1>5. MoveSound(v)'
  BY <1>3, <1>4, NotMoving
<1> QED BY <1>1, <1>4, <1>5, QuietNotes, NobodysNotes DEF Parties

(* An inbox stream made, and a move begun: nothing read yet.               *)
LEMMA MakeTrayKeepsNotes ==
  ASSUME Parties, NEW v \in Provisioners, MakeTray(v)
  PROVE  NotesKept'
<1>1. /\ tray' = [tray EXCEPT !.there = TRUE]
      /\ UNCHANGED <<residue, seen, shed, behind, sent, accepted>>
  BY DEF MakeTray, stage
<1>2. /\ tray'.there /\ tray'.notes = tray.notes
      /\ \A p \in Personas : Untouched(p)
  BY <1>1 DEF Parties, TrayTypes, TurnTypes, Untouched
<1>3. /\ prov \in [Provisioners -> Provisioner] /\ prov[v] \in Provisioner
      /\ prov[v].batch = <<>> /\ \A p, q \in prov[v].to : p = q
  BY DEF MakeTray, At, Parties, MoveTypes, NotesKept, MoveSound
<1> DEFINE moving == [prov[v] EXCEPT !.pc = "moving",
                        !.inboxes = {p \in Personas : residue[p] # <<>>}]
           shelves == [prov[v] EXCEPT !.pc = "shelves"]
<1>4. /\ moving.pc = "moving" /\ moving.batch = <<>> /\ moving.to = prov[v].to
      /\ moving.inboxes = {p \in Personas : residue[p] # <<>>}
      /\ shelves.pc = "shelves" /\ shelves.batch = <<>> /\ shelves.to = prov[v].to
  BY <1>3 DEF Provisioner
<1>5. Goto(v, moving) \/ Goto(v, shelves)
  BY DEF MakeTray
<1> HIDE DEF moving, shelves
<1>6. MoveSound(v)'
  <2>1. CASE Goto(v, moving)
    <3>1. prov'[v] = moving
      BY <1>3, <2>1 DEF Goto
    <3>2. \A p \in Personas : Carried(v, p)' = {}
      BY <1>4, <3>1, EmptySet DEF Carried
    <3> QED BY <1>1, <1>2, <1>3, <1>4, <3>1, <3>2 DEF MoveSound
  <2>2. CASE Goto(v, shelves)
    <3>1. prov'[v] = shelves
      BY <1>3, <2>2 DEF Goto
    <3>2. prov'[v].pc # "moving" /\ prov'[v].batch = <<>>
          /\ \A p, q \in prov'[v].to : p = q
      BY <1>3, <1>4, <3>1
    <3> QED BY <3>2, NotMoving
  <2> QED BY <1>5, <2>1, <2>2
<1>7. \A w \in Provisioners \ {v} : prov'[w] = prov[w]
  BY <1>3, <1>5 DEF Goto
<1> QED BY <1>2, <1>6, <1>7, NobodysNotes

(* An inbox of the old place read: the move carries its newest notes.      *)
LEMMA ReadInboxKeepsNotes ==
  ASSUME Parties, NEW v \in Provisioners, ReadInbox(v)
  PROVE  NotesKept'
<1>1. PICK p \in prov[v].inboxes :
        /\ prov[v].pc = "moving" /\ prov[v].batch = <<>>
        /\ Goto(v, [prov[v] EXCEPT !.inboxes = @ \ {p}, !.to = {p},
                                   !.batch = Newest(residue[p])])
  BY DEF ReadInbox, At
<1>2. UNCHANGED <<residue, accepted, tray, shed, behind, sent, seen>>
  BY DEF ReadInbox, server, stage
<1>3. /\ prov \in [Provisioners -> Provisioner] /\ prov[v] \in Provisioner
      /\ p \in Personas /\ residue[p] \in Seq(Note)
      /\ tray.there /\ MoveSound(v) /\ ToSet(residue[p]) \subseteq accepted[p]
  BY <1>1 DEF Parties, MoveTypes, Provisioner, NotesKept, MoveSound, NotesKnown
<1> DEFINE b == Newest(residue[p])
           x == [prov[v] EXCEPT !.inboxes = @ \ {p}, !.to = {p}, !.batch = b]
<1>4. ToSet(b) \subseteq accepted[p]
  BY <1>3, NewestParts
<1> HIDE DEF b
<1>5. /\ prov'[v] = x /\ x.pc = "moving" /\ x.to = {p} /\ x.batch = b
      /\ x.inboxes = prov[v].inboxes \ {p}
      /\ \A w \in Provisioners \ {v} : prov'[w] = prov[w]
  BY <1>1, <1>3 DEF Goto, Provisioner, b
<1> HIDE DEF x
<1>6. MoveSound(v)'
  <2>1. /\ Carried(v, p)' = ToSet(b)
        /\ \A q \in Personas \ {p} : Carried(v, q)' = {}
    BY <1>5 DEF Carried
  <2>2. \A q \in Personas : Carried(v, q) = {}
    BY <1>1, EmptySet DEF Carried
  <2>3. \A q \in Personas : InTray(q)' = InTray(q)
    BY <1>2 DEF InTray
  <2>4. ASSUME NEW q \in Personas
        PROVE  /\ Carried(v, q)' \subseteq accepted'[q]
               /\ residue'[q] # <<>> =>
                    /\ Carried(v, q)' \subseteq ToSet(Newest(residue'[q]))
                    /\ q \notin prov'[v].inboxes =>
                         ToSet(Newest(residue'[q])) \subseteq InTray(q)' \union Carried(v, q)'
    <3>1. CASE q = p
      BY <1>2, <1>4, <2>1, <3>1 DEF b
    <3>2. CASE q # p
      BY <1>1, <1>2, <1>3, <1>5, <2>1, <2>2, <2>3, <3>2 DEF MoveSound
    <3> QED BY <3>1, <3>2
  <2>5. /\ tray'.there /\ prov'[v].pc = "moving"
        /\ \A q, r \in prov'[v].to : q = r
    BY <1>2, <1>3, <1>5
  <2> QED BY <2>4, <2>5 DEF MoveSound
<1> QED BY <1>2, <1>5, <1>6, QuietNotes, NobodysNotes DEF Parties

(* One note moved.                                                         *)
LEMMA RepublishKeepsNotes ==
  ASSUME Parties, NEW v \in Provisioners, Republish(v)
  PROVE  NotesKept'
<1>1. PICK p \in prov[v].to :
        /\ prov[v].pc = "moving" /\ prov[v].batch # <<>>
        /\ PutInTray(p, Head(prov[v].batch))
        /\ behind' = IF \E m \in ToSet(tray.notes[p]) : m.id >= Head(prov[v].batch).id
                     THEN behind \union {p} ELSE behind
        /\ Goto(v, [prov[v] EXCEPT !.batch = Tail(@)])
        /\ UNCHANGED <<residue, accepted, sent>>
  BY DEF Republish, At, stage
<1>2. /\ prov \in [Provisioners -> Provisioner] /\ prov[v] \in Provisioner
      /\ p \in Personas /\ prov[v].batch \in Seq(Note)
      /\ tray.there /\ MoveSound(v) /\ prov[v].to = {p}
  BY <1>1 DEF Parties, MoveTypes, Provisioner, NotesKept, MoveSound
<1>3. PICK s \in Seq(Note) : s = prov[v].batch
  BY <1>2
<1>4. PICK n : n = Head(s)
  OBVIOUS
<1>5. PICK t \in Seq(Note) : t = Tail(s) /\ n \in Note /\ ToSet(s) = {n} \union ToSet(t)
  BY <1>1, <1>3, <1>4, Parts
<1>6. /\ Carried(v, p) = {n} \union ToSet(t)
      /\ \A q \in Personas \ {p} : Carried(v, q) = {}
  BY <1>2, <1>3, <1>5 DEF Carried
<1>7. /\ n \in accepted[p]
      /\ residue[p] # <<>> => n \in ToSet(Newest(residue[p]))
  BY <1>2, <1>6 DEF MoveSound
<1>8. /\ PutInTray(p, n)
      /\ behind' = IF \E m \in ToSet(tray.notes[p]) : m.id >= n.id
                   THEN behind \union {p} ELSE behind
  BY <1>1, <1>3, <1>4
<1>9. NotesKnown(p)' /\ InboxSound(p)' /\ InTray(p)' = InTray(p) \union {n}
  BY <1>1, <1>2, <1>7, <1>8, Republished DEF Parties, NotesKept
<1>10. /\ tray'.there /\ \A q \in Personas \ {p} : Untouched(q)
  <2>1. /\ tray'.there = tray.there
        /\ \A q \in Personas \ {p} : /\ tray'.notes[q] = tray.notes[q]
                                     /\ shed'[q] = shed[q]
        /\ \A q \in Personas \ {p}, i \in Nat : <<q, i>> \in seen' <=> <<q, i>> \in seen
    BY <1>2, <1>5, <1>8, TrayTakes DEF Parties
  <2> QED BY <1>1, <1>2, <1>8, <2>1 DEF Untouched, Parties, TurnTypes
<1>11. ASSUME NEW q \in Personas \ {p}
       PROVE  NotesKnown(q)' /\ InboxSound(q)'
  <2>1. accepted[q] \subseteq Note /\ Untouched(q) /\ NotesKnown(q) /\ InboxSound(q)
    BY <1>10 DEF Parties, TurnTypes, NotesKept
  <2> QED BY <2>1, UntouchedNotes
<1>12. \A q \in Personas \ {p} : InTray(q)' = InTray(q)
  BY <1>10 DEF Untouched, InTray
<1> DEFINE x == [prov[v] EXCEPT !.batch = t]
<1>13. /\ prov'[v] = x /\ x.pc = "moving" /\ x.to = {p} /\ x.batch = t
       /\ x.inboxes = prov[v].inboxes
       /\ \A w \in Provisioners \ {v} : prov'[w] = prov[w]
  BY <1>1, <1>2, <1>3, <1>5 DEF Goto, Provisioner
<1> HIDE DEF x
<1>14. MoveSound(v)'
  <2>1. /\ Carried(v, p)' = ToSet(t)
        /\ \A q \in Personas \ {p} : Carried(v, q)' = {}
    BY <1>13 DEF Carried
  <2>2. ASSUME NEW q \in Personas
        PROVE  /\ Carried(v, q)' \subseteq accepted'[q]
               /\ residue'[q] # <<>> =>
                    /\ Carried(v, q)' \subseteq ToSet(Newest(residue'[q]))
                    /\ q \notin prov'[v].inboxes =>
                         ToSet(Newest(residue'[q])) \subseteq InTray(q)' \union Carried(v, q)'
    <3>1. CASE q = p
      BY <1>1, <1>2, <1>6, <1>9, <1>13, <2>1, <3>1 DEF MoveSound
    <3>2. CASE q # p
      BY <1>1, <1>2, <1>6, <1>12, <1>13, <2>1, <3>2 DEF MoveSound
    <3> QED BY <3>1, <3>2
  <2>3. /\ tray'.there /\ prov'[v].pc = "moving"
        /\ \A q, r \in prov'[v].to : q = r
    BY <1>10, <1>13
  <2> QED BY <2>2, <2>3 DEF MoveSound
<1>15. NotesGrow
  BY <1>1, <1>9, <1>10, <1>12 DEF NotesGrow
<1>16. \A w \in Provisioners \ {v} : MoveSound(w)'
  BY <1>13, <1>15, MoveStays DEF Parties, NotesKept
<1> QED BY <1>9, <1>11, <1>14, <1>16 DEF NotesKept

(* The move ends: nothing stays in the old place.                          *)
LEMMA PurgeKeepsNotes ==
  ASSUME Parties, NEW v \in Provisioners, Purge(v)
  PROVE  NotesKept'
<1>1. /\ prov[v].pc = "moving" /\ prov[v].batch = <<>> /\ prov[v].inboxes = {}
      /\ shed' = [p \in Personas |-> shed[p] \union
                    {residue[p][i] : i \in 1 .. Len(residue[p]) - Window}]
      /\ residue' = NoTray
      /\ Goto(v, [prov[v] EXCEPT !.pc = "shelves"])
      /\ UNCHANGED <<accepted, sent, tray, seen, behind>>
  BY DEF Purge, At, To, stage
<1>2. /\ prov \in [Provisioners -> Provisioner] /\ prov[v] \in Provisioner
      /\ tray.there /\ MoveSound(v)
  BY <1>1 DEF Parties, MoveTypes, NotesKept, MoveSound
<1>3. ASSUME NEW p \in Personas
      PROVE  /\ NotesKnown(p)' /\ InboxSound(p)' /\ InTray(p) \subseteq InTray(p)'
             /\ residue'[p] = <<>>
  <2>1. Carried(v, p) = {}
    BY <1>1, EmptySet DEF Carried
  <2>2. residue[p] # <<>> => ToSet(Newest(residue[p])) \subseteq InTray(p)
    BY <1>1, <1>2, <2>1 DEF MoveSound
  <2>3. residue'[p] = <<>>
    BY <1>1 DEF NoTray
  <2>4. shed'[p] = shed[p] \union
                     {residue[p][i] : i \in 1 .. Len(residue[p]) - Window}
    BY <1>1
  <2> QED BY <1>1, <1>2, <2>2, <2>3, <2>4, Purged DEF Parties, NotesKept
<1>4. NotesGrow
  BY <1>1, <1>3 DEF NotesGrow
<1>5. /\ \A w \in Provisioners \ {v} : prov'[w] = prov[w]
      /\ prov'[v].pc = "shelves" /\ prov'[v].batch = <<>>
      /\ prov'[v].to = prov[v].to
  BY <1>1, <1>2 DEF Goto, Provisioner
<1>6. MoveSound(v)'
  <2>1. \A p, q \in prov'[v].to : p = q
    BY <1>2, <1>5 DEF MoveSound
  <2> QED BY <1>5, <2>1, NotMoving
<1>7. \A w \in Provisioners \ {v} : MoveSound(w)'
  BY <1>4, <1>5, MoveStays DEF Parties, NotesKept
<1> QED BY <1>3, <1>6, <1>7 DEF NotesKept

(***************************************************************************)
(* Notifications: the theorems                                             *)
(***************************************************************************)

LEMMA InitNotes == Init => NotesKept
<1> SUFFICES ASSUME Init PROVE NotesKept
  OBVIOUS
<1>1. OldNotes \in Seq(Note) /\ Len(OldNotes) = Residue
      /\ \A i \in 1 .. Residue : OldNotes[i] = [id |-> i, op |-> Old]
  BY MailAssumption DEF OldNotes, Note
<1>2. Rising(OldNotes) /\ Rising(<<>>)
  BY <1>1 DEF Rising
<1>3. /\ \A n \in ToSet(OldNotes) : n.id \in 1 .. Residue /\ n = [id |-> n.id, op |-> Old]
      /\ ToSet(<<>>) = {}
  <2>1. ASSUME NEW n \in ToSet(OldNotes)
        PROVE  n.id \in 1 .. Residue /\ n = [id |-> n.id, op |-> Old]
    <3>1. PICK i \in 1 .. Residue : OldNotes[i] = n
      BY <1>1, Elements
    <3> QED BY <1>1, <3>1
  <2> QED BY <2>1, EmptySet
<1>4. /\ tray.there = FALSE /\ tray.notes = NoTray /\ seen = {}
      /\ \A p \in Personas : InTray(p) = {} /\ tray.notes[p] = <<>>
  BY <1>3 DEF Init, NoTray, InTray
<1>5. ASSUME NEW p \in Personas
      PROVE  /\ accepted[p] = ToSet(residue[p])
             /\ residue[p] = <<>> \/ (residue[p] = OldNotes /\ sent = Residue)
  BY DEF Init
<1>6. ASSUME NEW p \in Personas
      PROVE  NotesKnown(p) /\ InboxSound(p)
  <2>1. NotesKnown(p)
    <3>1. CASE residue[p] = <<>>
      BY <1>2, <1>3, <1>4, <1>5, <3>1 DEF NotesKnown
    <3>2. CASE residue[p] = OldNotes /\ sent = Residue
      BY <1>2, <1>3, <1>4, <1>5, <3>2, MailAssumption DEF NotesKnown
    <3> QED BY <1>5, <3>1, <3>2
  <2>2. InboxSound(p)
    BY <1>2, <1>3, <1>4, <1>5 DEF InboxSound, InTray
  <2> QED BY <2>1, <2>2
<1>7. ASSUME NEW v \in Provisioners
      PROVE  MoveSound(v)
  <2>1. prov[v].pc = "idle" /\ prov[v].batch = <<>> /\ prov[v].to = {}
    BY RestingFields DEF Init
  <2>2. \A p \in Personas : Carried(v, p) = {}
    BY <2>1 DEF Carried
  <2> QED BY <2>1, <2>2 DEF MoveSound
<1> QED BY <1>6, <1>7 DEF NotesKept

LEMMA NextNotes == IInv /\ NotesKept /\ [Next]_vars => NotesKept'
<1> SUFFICES ASSUME IInv, NotesKept, [Next]_vars PROVE NotesKept'
  OBVIOUS
<1>1. Parties
  BY ByPart DEF Parties, Turns
<1>2. CASE Expire \/ UNCHANGED vars
  <2>1. /\ UNCHANGED <<residue, accepted, tray, shed, behind, sent, prov>>
        /\ seen' \subseteq seen
    BY <1>2 DEF Expire, vars, server, past
  <2> QED BY <1>1, <2>1, QuietNotes, NobodysNotes DEF Parties
<1>3. ASSUME NEW v \in Provisioners, Provision(v)
      PROVE  NotesKept'
  BY <1>1, <1>3, ProvisioningKeepsNotes, MakeTrayKeepsNotes, ReadInboxKeepsNotes,
     RepublishKeepsNotes, PurgeKeepsNotes DEF Provision
<1> QED BY <1>1, <1>2, <1>3, PostingKeepsNotes, NotifyKeepsNotes DEF Next

(* Ids are given out in order, every notification is in the old place, in  *)
(* the inbox stream or made room for others there, and a move has moved or *)
(* carries the newest of each inbox it has read (provision.go).            *)
THEOREM NotesAreKept == Spec => [](IInv /\ NotesKept)
BY InitInvariant, InitNotes, NextInvariant, NextNotes, PTL DEF Spec

(* Nothing a stream stored is lost but to make room: not when two          *)
(* provisioners move at once, not when one dies in a move, and not when a  *)
(* notification is posted in the middle of one (provision.go, notify.go).  *)
THEOREM NothingVanishes == Spec => []NoNoteVanishes
<1>1. IInv /\ NotesKept => NoNoteVanishes
  BY DEF NotesKept, InboxSound, InTray, NoNoteVanishes
<1> QED BY <1>1, NotesAreKept, PTL

(* The inbox reads newest first and sheds its oldest (notify.go            *)
(* FetchInbox), unless a move wrote a note twice or after a younger one.   *)
THEOREM InboxKeepsTheNewest == Spec => []NewestKept
<1>1. IInv /\ NotesKept => NewestKept
  <2> SUFFICES ASSUME IInv, NotesKept, NEW p \in Personas, p \notin behind
               PROVE  LET inbox == FetchInbox(p, Window)
                      IN  /\ \A i \in 2 .. Len(inbox) : inbox[i].id < inbox[i - 1].id
                          /\ \A i \in 1 .. Len(inbox), n \in shed[p] : n.id < inbox[i].id
    BY DEF NewestKept
  <2>1. PICK s \in Seq(Note) : s = tray.notes[p] /\ Len(s) <= Window
    BY ByPart DEF TrayTypes
  <2>2. Rising(s) /\ \A n \in shed[p], m \in ToSet(s) : n.id < m.id
    BY <2>1 DEF NotesKept, InboxSound
  <2> DEFINE r == Reverse(s)
             inbox == FetchInbox(p, Window)
  <2>3. /\ r \in Seq(Note) /\ Len(r) = Len(s) /\ Len(s) \in Nat
        /\ \A i \in 1 .. Len(s) : r[i] = s[Len(s) - i + 1]
    BY DEF Reverse
  <2>4. inbox = SubSeq(r, 1, Len(r))
    <3> HIDE DEF r
    <3>1. ~(Len(r) > Window)
      BY <2>1, <2>3, MailAssumption
    <3>2. inbox = SubSeq(r, 1, IF Len(r) > Window THEN Window ELSE Len(r))
      BY <2>1 DEF FetchInbox, r
    <3> QED BY <3>1, <3>2
  <2> HIDE DEF r, inbox
  <2>5. Len(inbox) = Len(s) /\ \A i \in 1 .. Len(s) : inbox[i] = s[Len(s) - i + 1]
    BY <2>3, <2>4
  <2>6. ASSUME NEW i \in 2 .. Len(inbox)
        PROVE  inbox[i].id < inbox[i - 1].id
    <3>1. /\ i \in 1 .. Len(s) /\ i - 1 \in 1 .. Len(s)
          /\ Len(s) - i + 1 \in 1 .. Len(s) /\ Len(s) - (i - 1) + 1 \in 1 .. Len(s)
          /\ Len(s) - i + 1 < Len(s) - (i - 1) + 1
      BY <2>3, <2>5
    <3> QED BY <2>2, <2>5, <3>1 DEF Rising
  <2>7. ASSUME NEW i \in 1 .. Len(inbox), NEW n \in shed[p]
        PROVE  n.id < inbox[i].id
    <3>1. i \in 1 .. Len(s) /\ Len(s) - i + 1 \in 1 .. Len(s)
      BY <2>3, <2>5
    <3>2. inbox[i] \in ToSet(s)
      BY <2>5, <3>1, Elements
    <3> QED BY <2>2, <3>2
  <2> QED BY <2>6, <2>7 DEF inbox
<1> QED BY <1>1, NotesAreKept, PTL
=============================================================================
