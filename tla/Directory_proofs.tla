-------------------------- MODULE Directory_proofs --------------------------
(***************************************************************************)
(* Proofs about Directory, for any personas, sessions, readers, scenarios  *)
(* and bounds: the invariant IInv, and with it that published chains only  *)
(* ever grow and that no reader ever distrusts them.                       *)
(***************************************************************************)
EXTENDS Directory, TLAPS, FiniteSetTheorems

(***************************************************************************)
(* Chains                                                                  *)
(***************************************************************************)

(* What registry.Chain makes of a document that has been rotated.          *)
LEMMA RotatedChain ==
  ASSUME NEW d \in Profile, d.key # 0, d.rotations # <<>>
  PROVE  /\ Chain(d) \in Seq(Key)
         /\ Len(Chain(d)) = Len(d.rotations) + 1
         /\ Chain(d)[1] = d.rotations[1].from
         /\ \A i \in 1 .. Len(d.rotations) : Chain(d)[i + 1] = d.rotations[i].to
<1> DEFINE n == Len(d.rotations)
           tos == [i \in 1 .. n |-> d.rotations[i].to]
<1>1. /\ n \in Nat \ {0}
      /\ \A i \in 1 .. n : d.rotations[i] \in Rotation
  BY DEF Profile
<1>2. tos \in Seq(Key) /\ Len(tos) = n
  BY <1>1 DEF Rotation
<1>3. <<d.rotations[1].from>> \in Seq(Key) /\ Len(<<d.rotations[1].from>>) = 1
  BY <1>1 DEF Rotation
<1>4. Chain(d) = <<d.rotations[1].from>> \o tos
  BY DEF Chain
<1> HIDE DEF n, tos
<1>5. /\ Chain(d) \in Seq(Key) /\ Len(Chain(d)) = n + 1
      /\ Chain(d)[1] = d.rotations[1].from
      /\ \A i \in 1 .. n : Chain(d)[i + 1] = tos[i]
  BY <1>1, <1>2, <1>3, <1>4
<1> QED BY <1>5 DEF n, tos

LEMMA ChainType ==
  ASSUME NEW d \in Profile
  PROVE  Chain(d) \in Seq(Key)
<1>1. CASE d.key = 0 \/ d.rotations = <<>>
  BY <1>1 DEF Chain, Profile
<1>2. CASE d.key # 0 /\ d.rotations # <<>>
  BY <1>2, RotatedChain
<1> QED BY <1>1, <1>2

LEMMA ExtendsItself ==
  ASSUME NEW S, NEW c \in Seq(S)
  PROVE  Extends(c, c)
BY DEF Extends

LEMMA ExtendsTransitive ==
  ASSUME NEW S, NEW a \in Seq(S), NEW b \in Seq(S), NEW c \in Seq(S),
         Extends(a, b), Extends(b, c)
  PROVE  Extends(a, c)
BY DEF Extends

(* A rotation from the current key extends the chain (kv.go Rotate).       *)
LEMMA RotationExtends ==
  ASSUME NEW d \in Profile, d.key # 0, ChainValid(d),
         NEW new \in Key, new # 0,
         NEW e \in Profile, e.key = new,
         e.rotations = Append(d.rotations, [from |-> d.key, to |-> new])
  PROVE  ChainValid(e) /\ Extends(Chain(d), Chain(e))
<1> DEFINE n == Len(d.rotations)
           old == d.rotations
           rot == e.rotations
<1>1. old \in Seq(Rotation) /\ n \in Nat
  BY DEF Profile
<1>2. [from |-> d.key, to |-> new] \in Rotation
  BY DEF Profile, Rotation
<1>3. /\ rot \in Seq(Rotation) /\ Len(rot) = n + 1 /\ rot # <<>>
      /\ \A i \in 1 .. n : rot[i] = old[i]
      /\ rot[n + 1] = [from |-> d.key, to |-> new]
  BY <1>1, <1>2
<1> HIDE DEF n, old, rot
<1>4. /\ Chain(e) \in Seq(Key) /\ Len(Chain(e)) = n + 2
      /\ Chain(e)[1] = rot[1].from
      /\ \A i \in 1 .. n + 1 : Chain(e)[i + 1] = rot[i].to
  <2>1. e.key # 0 /\ e.rotations # <<>> /\ Len(e.rotations) = n + 1
    BY <1>3 DEF rot
  <2>2. /\ Chain(e) \in Seq(Key) /\ Len(Chain(e)) = (n + 1) + 1
        /\ Chain(e)[1] = e.rotations[1].from
        /\ \A i \in 1 .. n + 1 : Chain(e)[i + 1] = e.rotations[i].to
    BY <2>1, RotatedChain, Zenon
  <2>3. (n + 1) + 1 = n + 2
    BY <1>1
  <2> QED BY <2>2, <2>3, Zenon DEF rot
<1>5. CASE old = <<>>
  <2>1. n = 0 /\ Chain(d) = <<d.key>>
    BY <1>5 DEF n, old, Chain
  <2> QED BY <2>1, <1>3, <1>4 DEF ChainValid, Extends, rot
<1>6. CASE old # <<>>
  <2>1. n \in Nat \ {0}
    BY <1>1, <1>6 DEF n, old
  <2>2. /\ Chain(d) \in Seq(Key) /\ Len(Chain(d)) = n + 1
        /\ Chain(d)[1] = old[1].from
        /\ \A i \in 1 .. n : Chain(d)[i + 1] = old[i].to
    BY <1>6, RotatedChain DEF old, n
  <2>3. /\ \A i \in 2 .. n : old[i].from = old[i - 1].to
        /\ old[n].to = d.key
    BY <1>6 DEF ChainValid, old, n
  <2>4. ChainValid(e)
    <3>1. ASSUME NEW i \in 2 .. n + 1
          PROVE  rot[i].from = rot[i - 1].to
      <4>1. CASE i = n + 1
        BY <4>1, <2>1, <2>3, <1>3
      <4>2. CASE i # n + 1
        <5>1. i \in 2 .. n /\ i - 1 \in 1 .. n /\ i \in 1 .. n
          BY <4>2, <2>1
        <5> QED BY <5>1, <2>3, <1>3
      <4> QED BY <4>1, <4>2
    <3>2. rot[n + 1].to = e.key
      BY <1>3
    <3> QED BY <3>1, <3>2, <1>3 DEF ChainValid, rot
  <2>5. ASSUME NEW i \in 1 .. n + 1
        PROVE  Chain(d)[i] = Chain(e)[i]
    <3>1. CASE i = 1
      BY <3>1, <2>1, <2>2, <1>3, <1>4
    <3>2. CASE i # 1
      <4>1. i - 1 \in 1 .. n /\ i - 1 \in 1 .. n + 1 /\ (i - 1) + 1 = i
        BY <3>2, <2>1
      <4> QED BY <4>1, <2>2, <1>3, <1>4
    <3> QED BY <3>1, <3>2
  <2> QED BY <2>1, <2>2, <2>4, <2>5, <1>4 DEF Extends
<1> QED BY <1>5, <1>6

(***************************************************************************)
(* Types                                                                   *)
(***************************************************************************)

Entry == [rev : Nat, doc : Profile]

LEMMA SmallTypes ==
  /\ MaxKeys \in Nat /\ 0 \in Key /\ Key \subseteq Nat
  /\ NoVouch \in Vouch /\ NoProfile \in Profile
  /\ Off \in Call /\ NotReading \in Reader
<1>1. MaxKeys \in Nat /\ 0 \in Key /\ Key \subseteq Nat
  BY DirectoryAssumption DEF Key
<1>2. NoVouch \in Vouch
  BY <1>1 DEF NoVouch, Vouch
<1>3. NoProfile \in Profile
  BY <1>1, <1>2 DEF NoProfile, Profile
<1>4. Off \in Call
  BY <1>1, <1>3 DEF Off, Call, Stages
<1>5. NotReading \in Reader
  BY <1>1, <1>3 DEF NotReading, Reader
<1> QED BY <1>1, <1>2, <1>3, <1>4, <1>5

(* What a session does to the realm: it moves on itself, and may replace   *)
(* the entry of its persona.                                               *)
Better(old, new) ==
  /\ new \in Profile
  /\ ChainValid(new) /\ Extends(Chain(old), Chain(new))
  /\ new.rotations # <<>> => new.key # 0

Improves(s) ==
  \/ entry' = entry
  \/ /\ Me(s) \in Personas
     /\ \E d \in Profile : Better(entry[Me(s)].doc, d) /\ Write(Me(s), d)

SessionTypes ==
  /\ seed \in [Personas -> Key] /\ prev \in [Personas -> Key]
  /\ minted \in Key
  /\ tokens \subseteq Token
  /\ hurt \subseteq Personas

Sound(s) ==
  /\ Improves(s)
  /\ SessionTypes'
  /\ call' = [call EXCEPT ![s] = call'[s]] /\ call'[s] \in Call
  /\ CallSound(s)'
  /\ UNCHANGED <<scene, pins, reader>>

(* Merge keeps the chain of what was read (kv.go Publish).                 *)
LEMMA MergeBetter ==
  ASSUME NEW c \in Call, c.draft.rotations = <<>>,
         ChainValid(c.snap.doc),
         c.snap.doc.rotations # <<>> => c.snap.doc.key # 0
  PROVE  Better(c.snap.doc, Merge(c))
<1>1. c.draft \in Profile /\ c.snap.doc \in Profile
  BY DEF Call
<1>2. CASE c.snap.doc.key = 0
  <2>1. Merge(c) = c.draft
    BY <1>2 DEF Merge
  <2>2. Chain(c.snap.doc) = <<>>
    BY <1>2 DEF Chain
  <2>3. Chain(c.draft) \in Seq(Key)
    BY <1>1, ChainType
  <2>4. Extends(<<>>, Chain(c.draft))
    BY <2>3 DEF Extends
  <2> QED BY <1>1, <2>1, <2>2, <2>4 DEF Better, ChainValid
<1>3. CASE c.snap.doc.key # 0
  <2>1. /\ Merge(c) \in Profile
        /\ Merge(c).key = c.snap.doc.key
        /\ Merge(c).rotations = c.snap.doc.rotations
    BY <1>1, <1>3 DEF Merge, Profile
  <2>2. Chain(Merge(c)) = Chain(c.snap.doc) /\ ChainValid(Merge(c))
    BY <2>1 DEF Chain, ChainValid
  <2>3. Extends(Chain(c.snap.doc), Chain(c.snap.doc))
    BY <1>1, ChainType, ExtendsItself
  <2> QED BY <2>1, <2>2, <2>3 DEF Better
<1> QED BY <1>2, <1>3

(* A rotation's document extends what was read (kv.go Rotate).             *)
LEMMA EndorsedBetter ==
  ASSUME NEW c \in Call, c.signer # 0, c.held # 0,
         c.snap.doc.key = c.signer, ChainValid(c.snap.doc)
  PROVE  Better(c.snap.doc, Endorsed(c))
<1>1. c.snap.doc \in Profile /\ c.held \in Key /\ c.signer \in Key
  BY DEF Call
<1>2. Append(c.snap.doc.rotations, [from |-> c.signer, to |-> c.held])
        \in Seq(Rotation)
  BY <1>1 DEF Profile, Rotation
<1>3. /\ Endorsed(c) \in Profile /\ Endorsed(c).key = c.held
      /\ Endorsed(c).rotations
           = Append(c.snap.doc.rotations, [from |-> c.signer, to |-> c.held])
  BY <1>1, <1>2 DEF Endorsed, Profile
<1>4. ChainValid(Endorsed(c)) /\ Extends(Chain(c.snap.doc), Chain(Endorsed(c)))
  BY <1>1, <1>3, RotationExtends
<1> QED BY <1>3, <1>4 DEF Better

(***************************************************************************)
(* The steps of a session                                                  *)
(***************************************************************************)

(* A session that moves to c and leaves the directory alone.               *)
LEMMA Moves ==
  ASSUME TypeOK, NEW s \in Sessions, NEW c \in Call,
         Goto(s, c), UNCHANGED <<entry, scene, pins, reader>>, SessionTypes',
         c.pc # "off" => c.who \in Personas,
         c.draft.rotations = <<>>,
         c.pc \in {"got", "rotating"} => c.snap = entry[c.who],
         c.pc = "rotating" =>
           c.signer # 0 /\ c.held # 0 /\ c.snap.doc.key = c.signer
  PROVE  Sound(s)
<1>1. call' = [call EXCEPT ![s] = c] /\ call'[s] = c
  BY DEF Goto, TypeOK
<1>2. \A p \in Personas : entry[p].rev \in Nat
  BY DEF TypeOK
<1>3. CallSound(s)'
  BY <1>1, <1>2 DEF CallSound
<1> QED BY <1>1, <1>3 DEF Sound, Improves

LEMMA Typed == TypeOK => SessionTypes
BY DEF TypeOK, SessionTypes

LEMMA ReadyCall ==
  ASSUME TypeOK, NEW s \in Sessions
  PROVE  /\ Ready(s) \in Call /\ Ready(s).pc = "ready"
         /\ Ready(s).who = call[s].who /\ Ready(s).draft.rotations = <<>>
<1>1. call[s] \in Call /\ Off \in Call /\ Off.draft = NoProfile
  BY SmallTypes DEF TypeOK, Off
<1>2. NoProfile.rotations = <<>>
  BY DEF NoProfile
<1> QED BY <1>1, <1>2 DEF Ready, Call, Stages

LEMMA OffCall == Off \in Call /\ Off.pc = "off" /\ Off.draft.rotations = <<>>
BY SmallTypes DEF Off, NoProfile

LEMMA SessionSound ==
  ASSUME IInv, NEW s \in Sessions, SessionStep(s)
  PROVE  Sound(s)
<1>1. TypeOK /\ CallSound(s) /\ SessionTypes /\ EntriesSound
  BY Typed DEF IInv
<1>2. /\ call[s] \in Call
      /\ call[s].draft \in Profile /\ call[s].draft.rotations = <<>>
      /\ call[s].signer \in Key /\ call[s].held \in Key
      /\ call[s].pc # "off" => Me(s) \in Personas /\ call[s].who \in Personas
      /\ \A p \in Personas : entry[p] \in Entry /\ entry[p].doc \in Profile
  BY <1>1 DEF TypeOK, CallSound, Call, Entry, Me
<1>3. CASE KeyInit(s)
  <2>1. PICK p \in Personas :
          /\ MayStart(s) /\ seed[p] = 0 /\ minted < MaxKeys
          /\ minted' = minted + 1
          /\ Goto(s, [Off EXCEPT !.pc = "init", !.who = p, !.held = minted + 1])
          /\ UNCHANGED <<entry, seed, prev, hurt, tokens, reading>>
    BY <1>3 DEF KeyInit
  <2>2. minted + 1 \in Key
    BY <2>1, <1>1, SmallTypes DEF SessionTypes, Key
  <2> DEFINE c == [Off EXCEPT !.pc = "init", !.who = p, !.held = minted + 1]
  <2>3. /\ c \in Call /\ c.pc = "init" /\ c.who = p
        /\ c.draft.rotations = <<>>
    BY <2>2, OffCall DEF Call, Stages
  <2>4. SessionTypes'
    BY <2>1, <2>2, <1>1 DEF SessionTypes, reading
  <2> HIDE DEF c
  <2>5. Goto(s, c)
    BY <2>1 DEF c
  <2> QED BY <2>1, <2>3, <2>4, <2>5, <1>1, Moves DEF reading
<1>4. CASE KeyInitWrites(s)
  <2>1. SessionTypes'
    BY <1>1, <1>2, <1>4 DEF KeyInitWrites, SessionTypes, reading
  <2>2. Goto(s, Off) /\ UNCHANGED <<entry, scene, pins, reader>>
    BY <1>4 DEF KeyInitWrites, reading
  <2> QED BY <2>1, <2>2, <1>1, OffCall, Moves
<1>5. CASE Connect(s)
  <2>1. PICK p \in Personas :
          /\ Goto(s, [Off EXCEPT !.pc = "ready", !.who = p, !.signer = seed[p]])
          /\ UNCHANGED <<entry, files, tokens, reading>>
    BY <1>5 DEF Connect
  <2> DEFINE c == [Off EXCEPT !.pc = "ready", !.who = p, !.signer = seed[p]]
  <2>2. /\ c \in Call /\ c.pc = "ready" /\ c.who = p
        /\ c.draft.rotations = <<>>
    BY <1>1, OffCall DEF Call, Stages, SessionTypes
  <2>3. SessionTypes'
    BY <2>1, <1>1 DEF SessionTypes, files
  <2> HIDE DEF c
  <2>4. Goto(s, c)
    BY <2>1 DEF c
  <2> QED BY <2>1, <2>2, <2>3, <2>4, <1>1, Moves DEF reading
<1>6. CASE Exit(s)
  <2>1. SessionTypes'
    BY <1>1, <1>2, <1>6 DEF Exit, SessionTypes, reading
  <2>2. Goto(s, Off) /\ UNCHANGED <<entry, scene, pins, reader>>
    BY <1>6 DEF Exit, reading
  <2> QED BY <2>1, <2>2, <1>1, OffCall, Moves
<1>7. CASE Attest(s)
  <2>1. PICK q \in Personas \ {Me(s)} :
          /\ Me(s) \in Operators /\ call[s].pc = "ready"
          /\ tokens' = tokens \union
               {[operator |-> Me(s), operated |-> q,
                 vouch |-> [operated_key |-> entry[q].doc.key,
                            sig |-> call[s].signer]]}
          /\ UNCHANGED <<entry, files, call, reading>>
    BY <1>7 DEF Attest, NewAttestationToken
  <2>2. [operated_key |-> entry[q].doc.key, sig |-> call[s].signer] \in Vouch
    BY <1>2 DEF Vouch, Profile
  <2>3. SessionTypes'
    BY <2>1, <2>2, <1>1, <1>2 DEF SessionTypes, files, Token
  <2>4. CallSound(s)' /\ call' = [call EXCEPT ![s] = call'[s]]
    BY <2>1, <1>1 DEF CallSound, TypeOK
  <2> QED BY <2>1, <2>3, <2>4, <1>2 DEF Sound, Improves, reading
<1>8. CASE Compose(s)
  <2>1. PICK by \in Operators \union {None}, v \in {NoVouch} \union {t.vouch : t \in tokens} :
          /\ call[s].pc = "ready"
          /\ Goto(s, [call[s] EXCEPT !.pc = "got", !.snap = entry[Me(s)],
               !.draft = Signed(s, [NoProfile EXCEPT !.by = by, !.vouch = v])])
          /\ UNCHANGED <<entry, files, tokens, reading>>
    BY <1>8 DEF Compose, Presented
  <2>2. v \in Vouch /\ by \in Personas \union {None}
    BY <2>1, <1>1, SmallTypes, DirectoryAssumption DEF SessionTypes, Token
  <2> DEFINE x == Signed(s, [NoProfile EXCEPT !.by = by, !.vouch = v])
             c == [call[s] EXCEPT !.pc = "got", !.snap = entry[Me(s)], !.draft = x]
  <2>3. x \in Profile /\ x.rotations = <<>>
    BY <2>2, <1>2, SmallTypes DEF Signed, Profile, NoProfile
  <2> HIDE DEF x
  <2>4. /\ c \in Call /\ c.pc = "got" /\ c.who = Me(s) /\ c.draft = x
        /\ c.snap = entry[Me(s)] /\ c.who \in Personas
    BY <2>1, <2>3, <1>2 DEF Call, Stages, Entry, Me
  <2>5. SessionTypes'
    BY <2>1, <1>1 DEF SessionTypes, files
  <2> HIDE DEF c
  <2>6. Goto(s, c)
    BY <2>1 DEF c, x
  <2> QED BY <2>1, <2>3, <2>4, <2>5, <2>6, <1>1, Moves DEF reading
<1>9. CASE Ensure(s)
  <2> DEFINE x == Signed(s, entry[Me(s)].doc)
             c == [call[s] EXCEPT !.pc = "draft", !.draft = x,
                                  !.since = entry[Me(s)].rev]
  <2>1. /\ call[s].pc = "ready" /\ entry[Me(s)].doc.key = 0
        /\ Goto(s, c) /\ UNCHANGED <<entry, files, tokens, reading>>
    BY <1>9 DEF Ensure
  <2>2. x \in Profile /\ x.rotations = <<>>
    BY <2>1, <1>1, <1>2 DEF Signed, Profile, EntriesSound
  <2> HIDE DEF x
  <2>3. Me(s) \in Personas /\ entry[Me(s)].rev \in Int
    BY <2>1, <1>2 DEF Entry
  <2>4. /\ c \in Call /\ c.pc = "draft" /\ c.who = Me(s) /\ c.draft = x
        /\ c.who \in Personas
    BY <2>2, <2>3, <1>2 DEF Call, Stages, Me
  <2>5. SessionTypes'
    BY <2>1, <1>1 DEF SessionTypes, files
  <2> HIDE DEF c
  <2> QED BY <2>1, <2>2, <2>4, <2>5, <1>1, Moves DEF reading
<1>10. CASE PublishGets(s)
  <2> DEFINE c == [call[s] EXCEPT !.pc = "got", !.snap = entry[Me(s)]]
  <2>1. /\ call[s].pc = "draft"
        /\ Goto(s, c) /\ UNCHANGED <<entry, files, tokens, reading>>
    BY <1>10 DEF PublishGets
  <2>2. /\ c \in Call /\ c.pc = "got" /\ c.who = Me(s)
        /\ c.draft.rotations = <<>>
        /\ c.snap = entry[Me(s)] /\ c.who \in Personas
    BY <2>1, <1>2 DEF Call, Stages, Entry, Me
  <2>3. SessionTypes'
    BY <2>1, <1>1 DEF SessionTypes, files
  <2> HIDE DEF c
  <2> QED BY <2>1, <2>2, <2>3, <1>1, Moves DEF reading
<1>11. CASE PublishWrites(s)
  <2>1. call[s].pc = "got" /\ Goto(s, Ready(s)) /\ UNCHANGED <<files, tokens, reading>>
    BY <1>11 DEF PublishWrites
  <2>2. Improves(s)
    <3>1. CASE Lands(s) /\ Write(Me(s), Merge(call[s]))
      <4>1. call[s].snap.doc = entry[Me(s)].doc
        BY <3>1, <2>1, <1>1 DEF Lands, CallSound, Me
      <4>2. Better(call[s].snap.doc, Merge(call[s]))
        BY <4>1, <2>1, <1>1, <1>2, MergeBetter DEF EntriesSound
      <4>3. Merge(call[s]) \in Profile
        BY <4>2 DEF Better
      <4> QED BY <3>1, <4>1, <4>2, <4>3, <2>1, <1>2 DEF Improves
    <3>2. CASE UNCHANGED entry
      BY <3>2 DEF Improves
    <3> QED BY <3>1, <3>2, <1>11 DEF PublishWrites
  <2>3. SessionTypes'
    BY <2>1, <1>1 DEF SessionTypes, files
  <2>4. call'[s] = Ready(s) /\ call' = [call EXCEPT ![s] = call'[s]]
    BY <2>1, <1>1 DEF Goto, TypeOK
  <2>5. CallSound(s)'
    BY <2>1, <2>4, <1>1, <1>2, ReadyCall DEF CallSound, Me
  <2> QED BY <2>1, <2>2, <2>3, <2>4, <2>5, <1>1, ReadyCall DEF Sound, reading
<1>12. CASE Rotate(s)
  <2> DEFINE c == [call[s] EXCEPT !.pc = "rotating", !.held = minted + 1,
                                  !.snap = entry[Me(s)]]
  <2>1. /\ call[s].pc = "ready" /\ call[s].signer # 0
        /\ entry[Me(s)].doc.key = call[s].signer
        /\ minted < MaxKeys /\ minted' = minted + 1
        /\ Goto(s, c)
        /\ UNCHANGED <<entry, seed, prev, hurt, tokens, reading>>
    BY <1>12 DEF Rotate
  <2>2. minted + 1 \in Key /\ minted + 1 # 0
    BY <2>1, <1>1, SmallTypes DEF SessionTypes, Key
  <2>3. /\ c \in Call /\ c.pc = "rotating" /\ c.who = Me(s)
        /\ c.draft.rotations = <<>> /\ c.held # 0
        /\ c.signer = call[s].signer
        /\ c.snap = entry[Me(s)] /\ c.who \in Personas
    BY <2>1, <2>2, <1>2 DEF Call, Stages, Entry, Me
  <2>4. SessionTypes'
    BY <2>1, <2>2, <1>1 DEF SessionTypes
  <2> HIDE DEF c
  <2> QED BY <2>1, <2>3, <2>4, <1>1, Moves DEF reading
<1>13. CASE RotateWrites(s)
  <2>1. /\ call[s].pc = "rotating"
        /\ UNCHANGED <<seed, prev, minted, tokens, reading>>
        /\ Me(s) \in Personas
    BY <1>13, <1>2 DEF RotateWrites
  <2>2. Improves(s)
    <3>1. CASE Lands(s) /\ Write(Me(s), Endorsed(call[s]))
      <4>1. call[s].snap.doc = entry[Me(s)].doc
        BY <3>1, <2>1, <1>1 DEF Lands, CallSound, Me
      <4>2. Better(call[s].snap.doc, Endorsed(call[s]))
        BY <4>1, <2>1, <1>1, <1>2, EndorsedBetter DEF EntriesSound, CallSound
      <4>3. Endorsed(call[s]) \in Profile
        BY <4>2 DEF Better
      <4> QED BY <3>1, <4>1, <4>2, <4>3, <2>1 DEF Improves
    <3>2. CASE UNCHANGED entry
      BY <3>2 DEF Improves
    <3> QED BY <3>1, <3>2, <1>13 DEF RotateWrites
  <2>3. SessionTypes'
    BY <2>1, <1>1, <1>13 DEF RotateWrites, SessionTypes, Me
  <2> DEFINE c == [call[s] EXCEPT !.pc = "swap"]
  <2>4. /\ c \in Call /\ c.pc = "swap" /\ c.who = call[s].who
        /\ c.draft.rotations = <<>>
    BY <1>2 DEF Call, Stages
  <2>5. Goto(s, c) \/ Goto(s, Ready(s))
    BY <1>13 DEF RotateWrites
  <2> HIDE DEF c
  <2>6. /\ call'[s] = c \/ call'[s] = Ready(s)
        /\ call' = [call EXCEPT ![s] = call'[s]]
    BY <2>5, <1>1 DEF Goto, TypeOK
  <2>7. CallSound(s)' /\ call'[s] \in Call
    BY <2>1, <2>4, <2>6, <1>1, <1>2, ReadyCall DEF CallSound, Me
  <2> QED BY <2>1, <2>2, <2>3, <2>6, <2>7 DEF Sound, reading
<1>14. CASE SetAside(s)
  <2>1. /\ call[s].pc = "swap"
        /\ UNCHANGED <<entry, minted, tokens, reading>>
        /\ Me(s) \in Personas /\ 0 \in Key
    BY <1>14, <1>2, SmallTypes DEF SetAside
  <2>2. SessionTypes'
    <3>1. CASE /\ prev' = [prev EXCEPT ![Me(s)] = seed[Me(s)]]
               /\ seed' = [seed EXCEPT ![Me(s)] = 0] /\ hurt' = hurt
      BY <3>1, <2>1, <1>1 DEF SessionTypes
    <3>2. CASE UNCHANGED <<seed, prev>> /\ hurt' = hurt \union {Me(s)}
      BY <3>2, <2>1, <1>1 DEF SessionTypes
    <3> QED BY <3>1, <3>2, <1>14 DEF SetAside
  <2> DEFINE c == [call[s] EXCEPT !.pc = "save"]
  <2>3. /\ c \in Call /\ c.pc = "save" /\ c.who = call[s].who
        /\ c.draft.rotations = <<>>
    BY <1>2 DEF Call, Stages
  <2>4. Goto(s, c) \/ Goto(s, Ready(s))
    BY <1>14 DEF SetAside
  <2> HIDE DEF c
  <2>5. CASE Goto(s, c)
    BY <2>1, <2>2, <2>3, <2>5, <1>1, <1>2, Moves DEF reading
  <2>6. CASE Goto(s, Ready(s))
    BY <2>1, <2>2, <2>6, <1>1, <1>2, ReadyCall, Moves DEF reading
  <2> QED BY <2>4, <2>5, <2>6
<1>15. CASE SaveNew(s)
  <2>1. /\ call[s].pc = "save" /\ Goto(s, Ready(s))
        /\ UNCHANGED <<entry, minted, tokens, reading>>
        /\ Me(s) \in Personas /\ 0 \in Key
    BY <1>15, <1>2, SmallTypes DEF SaveNew
  <2>2. SessionTypes'
    BY <2>1, <1>1, <1>2, <1>15 DEF SaveNew, SessionTypes
  <2> QED BY <2>1, <2>2, <1>1, <1>2, ReadyCall, Moves DEF reading
<1> QED BY <1>3, <1>4, <1>5, <1>6, <1>7, <1>8, <1>9, <1>10, <1>11, <1>12,
           <1>13, <1>14, <1>15 DEF SessionStep

LEMMA EntryTypes ==
  ASSUME TypeOK, NEW p \in Personas
  PROVE  /\ entry[p] \in Entry /\ entry[p].doc \in Profile
         /\ Published(p) \in Seq(Key) /\ pins[p] \in Seq(Key)
<1>1. entry[p] \in Entry /\ pins[p] \in Seq(Key)
  BY DEF TypeOK, Entry
<1>2. entry[p].doc \in Profile
  BY <1>1 DEF Entry
<1> QED BY <1>1, <1>2, ChainType DEF Published

(* A published chain is extended or left as it is.                         *)
LEMMA SessionExtends ==
  ASSUME TypeOK, NEW s \in Sessions, Improves(s), NEW p \in Personas
  PROVE  Extends(Published(p), Published(p)')
<1>1. Extends(Published(p), Published(p))
  BY EntryTypes, ExtendsItself
<1>2. CASE entry' = entry
  BY <1>1, <1>2 DEF Published
<1>3. CASE entry' # entry
  <2>1. PICK d \in Profile : Better(entry[Me(s)].doc, d) /\ Write(Me(s), d)
    BY <1>3 DEF Improves
  <2>2. Me(s) \in Personas
    BY <1>3 DEF Improves
  <2>3. CASE p = Me(s)
    <3>1. entry'[p].doc = d
      BY <2>1, <2>2, <2>3 DEF Write, TypeOK
    <3> QED BY <3>1, <2>1, <2>3 DEF Better, Published
  <2>4. CASE p # Me(s)
    <3>1. entry'[p] = entry[p]
      BY <2>1, <2>4 DEF Write, TypeOK
    <3> QED BY <3>1, <1>1 DEF Published
  <2> QED BY <2>3, <2>4
<1> QED BY <1>2, <1>3

LEMMA SessionPreserves ==
  ASSUME IInv, NEW s \in Sessions, SessionStep(s)
  PROVE  IInv'
<1>1. /\ TypeOK /\ EntriesSound /\ ReadersSound
      /\ \A t \in Sessions : CallSound(t)
      /\ Sound(s)
  BY SessionSound DEF IInv
<1>2. /\ Improves(s) /\ SessionTypes' /\ CallSound(s)'
      /\ call' = [call EXCEPT ![s] = call'[s]] /\ call'[s] \in Call
      /\ UNCHANGED <<scene, pins, reader>>
  BY <1>1 DEF Sound
<1>3. ASSUME NEW p \in Personas
      PROVE  /\ entry'[p] \in Entry /\ entry'[p].doc \in Profile
             /\ entry'[p].rev >= entry[p].rev
             /\ entry'[p].rev = entry[p].rev => entry'[p] = entry[p]
             /\ ChainValid(entry'[p].doc)
             /\ entry'[p].doc.rotations # <<>> => entry'[p].doc.key # 0
  <2>1. entry[p] \in Entry /\ entry[p].doc \in Profile /\ entry[p].rev \in Nat
    BY <1>1, EntryTypes DEF Entry
  <2>2. CASE entry'[p] = entry[p]
    BY <2>1, <2>2, <1>1 DEF EntriesSound
  <2>3. CASE entry'[p] # entry[p]
    <3>1. PICK d \in Profile : Better(entry[Me(s)].doc, d) /\ Write(Me(s), d)
      BY <2>3, <1>2 DEF Improves
    <3>2. p = Me(s) /\ entry'[p] = [rev |-> entry[p].rev + 1, doc |-> d]
      BY <2>3, <3>1, <1>1 DEF Write, TypeOK
    <3> QED BY <2>1, <3>1, <3>2 DEF Entry, Better
  <2> QED BY <2>2, <2>3
<1>4. entry' \in [Personas -> Entry]
  <2>1. entry' = [p \in Personas |-> entry'[p]]
    BY <1>1, <1>2 DEF Improves, Write, TypeOK
  <2> QED BY <2>1, <1>3
<1>5. call' \in [Sessions -> Call]
  BY <1>1, <1>2 DEF TypeOK
<1>6. TypeOK'
  BY <1>1, <1>2, <1>4, <1>5 DEF TypeOK, SessionTypes, Entry
<1>7. ASSUME NEW t \in Sessions
      PROVE  CallSound(t)'
  <2>1. CASE t = s
    BY <2>1, <1>2
  <2>2. CASE t # s
    <3>1. call'[t] = call[t] /\ call[t] \in Call
      BY <2>2, <1>1, <1>2 DEF TypeOK
    <3>2. CallSound(t)
      BY <1>1
    <3>3. CASE call[t].pc \in {"got", "rotating"}
      <4>1. call[t].who \in Personas
        BY <3>2, <3>3 DEF CallSound
      <4>2. /\ entry'[call[t].who].rev \in Nat /\ entry[call[t].who].rev \in Nat
            /\ call[t].snap.rev \in Nat
            /\ entry'[call[t].who].rev >= entry[call[t].who].rev
            /\ entry'[call[t].who].rev = entry[call[t].who].rev
                 => entry'[call[t].who] = entry[call[t].who]
        BY <4>1, <3>1, <1>1, <1>3, EntryTypes DEF Entry, Call
      <4> QED BY <3>1, <3>2, <3>3, <4>1, <4>2 DEF CallSound
    <3>4. CASE call[t].pc \notin {"got", "rotating"}
      BY <3>1, <3>2, <3>4 DEF CallSound
    <3> QED BY <3>3, <3>4
  <2> QED BY <2>1, <2>2
<1>8. ASSUME NEW p \in Personas, NEW pin \in Seq(Key), Extends(pin, Published(p))
      PROVE  Extends(pin, Published(p)')
  <2>1. Published(p) \in Seq(Key) /\ Published(p)' \in Seq(Key)
    BY <1>1, <1>3, EntryTypes, ChainType DEF Published
  <2>2. Extends(Published(p), Published(p)')
    BY <1>1, <1>2, SessionExtends
  <2> QED BY <1>8, <2>1, <2>2, ExtendsTransitive
<1>9. EntriesSound'
  BY <1>1, <1>2, <1>3, <1>8, EntryTypes DEF EntriesSound
<1>10. ReadersSound'
  <2>1. \A r \in Readers, p \in Personas : reader[r].pinned[p] \in Seq(Key)
    BY <1>1 DEF TypeOK, Reader
  <2> QED BY <1>1, <1>2, <1>8, <2>1 DEF ReadersSound
<1> QED BY <1>6, <1>7, <1>9, <1>10 DEF IInv

(***************************************************************************)
(* The steps of a reader                                                   *)
(***************************************************************************)

ReaderSound(x) ==
  /\ x \in Reader
  /\ x.bad = {} /\ ChainValid(x.profile)
  /\ \A p \in Personas : Extends(x.pinned[p], Published(p))

LEMMA NoPinsExtend ==
  ASSUME TypeOK
  PROVE  /\ NotReading \in Reader /\ NotReading.bad = {}
         /\ ChainValid(NotReading.profile)
         /\ \A p \in Personas : Extends(NotReading.pinned[p], Published(p))
<1>1. NotReading \in Reader /\ NotReading.bad = {} /\ ChainValid(NotReading.profile)
  BY SmallTypes DEF NotReading, NoProfile, ChainValid
<1>2. ASSUME NEW p \in Personas
      PROVE  Extends(NotReading.pinned[p], Published(p))
  <2>1. Published(p) \in Seq(Key)
    BY EntryTypes
  <2> QED BY <2>1 DEF NotReading, Extends
<1> QED BY <1>1, <1>2

LEMMA ReaderPreserves ==
  ASSUME IInv, NEW r \in Readers, ReaderStep(r)
  PROVE  IInv'
<1>1. /\ TypeOK /\ EntriesSound /\ ReadersSound
      /\ \A t \in Sessions : CallSound(t)
  BY DEF IInv
<1>2. ReaderSound(reader[r])
  BY <1>1 DEF ReadersSound, ReaderSound, TypeOK
<1>3. UNCHANGED <<entry, files, tokens, call>>
  BY DEF ReaderStep, Begin, LoadPins, ReadProfile, SavePins, NoKeyring, Close
<1>4. /\ \/ pins' = pins
         \/ pins' = reader[r].pinned
      /\ \E x : Turn(r, x) /\ ReaderSound(x)
  <2>1. CASE Begin(r)
    <3>1. PICK p \in Personas \union {None} :
            Turn(r, [NotReading EXCEPT
              !.stage = IF p = None \/ entry[p].doc.by # None
                        THEN "pins" ELSE "reading",
              !.shown = p,
              !.profile = IF p = None THEN NoProfile ELSE entry[p].doc])
      BY <2>1 DEF Begin
    <3> DEFINE doc == IF p = None THEN NoProfile ELSE entry[p].doc
               x == [NotReading EXCEPT
                       !.stage = IF p = None \/ entry[p].doc.by # None
                                 THEN "pins" ELSE "reading",
                       !.shown = p, !.profile = doc]
    <3>2. doc \in Profile /\ ChainValid(doc)
      <4>1. NoProfile \in Profile /\ ChainValid(NoProfile)
        BY SmallTypes DEF NoProfile, ChainValid
      <4>2. p # None => entry[p].doc \in Profile /\ ChainValid(entry[p].doc)
        BY <1>1, EntryTypes DEF EntriesSound
      <4> QED BY <4>1, <4>2
    <3> HIDE DEF doc
    <3>3. x \in Reader /\ x.bad = {} /\ x.profile = doc /\ x.pinned = NotReading.pinned
      <4>1. NotReading \in Reader /\ NotReading.bad = {}
        BY <1>1, NoPinsExtend
      <4> QED BY <3>2, <4>1 DEF Reader
    <3> HIDE DEF x
    <3>4. ReaderSound(x)
      BY <3>2, <3>3, <1>1, NoPinsExtend DEF ReaderSound
    <3>5. Turn(r, x)
      BY <3>1 DEF x, doc
    <3> QED BY <3>4, <3>5, <2>1 DEF Begin
  <2>2. CASE LoadPins(r)
    <3> DEFINE x == [reader[r] EXCEPT !.stage = "listing", !.left = Personas,
                                      !.pinned = pins]
    <3>1. /\ x \in Reader /\ x.bad = reader[r].bad
          /\ x.profile = reader[r].profile /\ x.pinned = pins
      BY <1>1, <1>2 DEF ReaderSound, Reader, TypeOK
    <3> HIDE DEF x
    <3>2. ReaderSound(x)
      BY <3>1, <1>1, <1>2 DEF ReaderSound, EntriesSound
    <3> QED BY <3>2, <2>2 DEF LoadPins, x
  <2>3. CASE ReadProfile(r)
    <3>1. PICK p \in reader[r].left :
            LET d == entry[p].doc
                pin == reader[r].pinned[p]
                skip == entry[p].rev = 0 \/ ~d.strict
                distrusted == ~Trusted(d, pin)
            IN  Turn(r, [reader[r] EXCEPT
                  !.left = @ \ {p},
                  !.pinned[p] = IF skip THEN pin ELSE Repinned(d, pin),
                  !.bad = IF ~skip /\ distrusted THEN @ \union {p} ELSE @])
      BY <2>3 DEF ReadProfile
    <3>2. /\ p \in Personas /\ entry[p].doc \in Profile
          /\ reader[r].pinned[p] \in Seq(Key)
      BY <1>1, <1>2, EntryTypes DEF ReaderSound, Reader
    <3>3. Trusted(entry[p].doc, reader[r].pinned[p])
      BY <1>1, <1>2, <3>2 DEF Trusted, EntriesSound, ReaderSound, Published
    <3> DEFINE pin == reader[r].pinned[p]
               new == IF entry[p].rev = 0 \/ ~entry[p].doc.strict THEN pin
                      ELSE Repinned(entry[p].doc, pin)
               x == [reader[r] EXCEPT !.left = @ \ {p}, !.pinned[p] = new]
    <3>4. new \in Seq(Key) /\ Extends(new, Published(p))
      <4>1. Published(p) \in Seq(Key) /\ Extends(Published(p), Published(p))
        BY <1>1, <3>2, EntryTypes, ExtendsItself
      <4> QED BY <4>1, <3>2, <1>2 DEF Repinned, Published, ReaderSound
    <3> HIDE DEF new
    <3>5. /\ x \in Reader /\ x.bad = {} /\ x.profile = reader[r].profile
          /\ x.pinned = [reader[r].pinned EXCEPT ![p] = new]
      BY <1>2, <3>2, <3>4 DEF ReaderSound, Reader
    <3>6. Turn(r, x)
      <4>1. reader[r].bad = reader[r].bad /\ x = [reader[r] EXCEPT
              !.left = @ \ {p}, !.pinned[p] = new, !.bad = @]
        BY <1>2 DEF ReaderSound, Reader
      <4> QED BY <4>1, <3>1, <3>3 DEF new
    <3> HIDE DEF x
    <3>7. ReaderSound(x)
      BY <3>4, <3>5, <3>2, <1>2 DEF ReaderSound, Reader
    <3> QED BY <3>6, <3>7, <2>3 DEF ReadProfile
  <2>4. CASE SavePins(r)
    <3> DEFINE x == [reader[r] EXCEPT !.stage = "reading"]
    <3>1. /\ x \in Reader /\ x.bad = reader[r].bad
          /\ x.profile = reader[r].profile /\ x.pinned = reader[r].pinned
      BY <1>2 DEF ReaderSound, Reader
    <3> HIDE DEF x
    <3>2. ReaderSound(x)
      BY <3>1, <1>2 DEF ReaderSound
    <3> QED BY <3>2, <2>4 DEF SavePins, x
  <2>5. CASE NoKeyring(r)
    <3> DEFINE x == [NotReading EXCEPT !.stage = "reading",
                       !.shown = reader[r].shown, !.profile = reader[r].profile]
    <3>1. /\ x \in Reader /\ x.bad = {}
          /\ x.profile = reader[r].profile /\ x.pinned = NotReading.pinned
      <4>1. NotReading \in Reader /\ NotReading.bad = {}
        BY <1>1, NoPinsExtend
      <4>2. reader[r] \in Reader
        BY <1>2 DEF ReaderSound
      <4> QED BY <4>1, <4>2 DEF Reader
    <3> HIDE DEF x
    <3>2. ReaderSound(x)
      BY <3>1, <1>1, <1>2, NoPinsExtend DEF ReaderSound
    <3> QED BY <3>2, <2>5 DEF NoKeyring, x
  <2>6. CASE Close(r)
    <3>1. ReaderSound(NotReading)
      BY <1>1, NoPinsExtend DEF ReaderSound
    <3> QED BY <3>1, <2>6 DEF Close
  <2> QED BY <2>1, <2>2, <2>3, <2>4, <2>5, <2>6 DEF ReaderStep
<1>5. PICK x : Turn(r, x) /\ ReaderSound(x)
  BY <1>4
<1>6. /\ reader' = [reader EXCEPT ![r] = x] /\ reader' \in [Readers -> Reader]
      /\ reader'[r] = x /\ \A q \in Readers \ {r} : reader'[q] = reader[q]
  BY <1>1, <1>5 DEF Turn, ReaderSound, TypeOK
<1>7. pins' \in [Personas -> Seq(Key)]
  BY <1>1, <1>2, <1>4 DEF TypeOK, ReaderSound, Reader
<1>8. TypeOK'
  BY <1>1, <1>3, <1>6, <1>7 DEF TypeOK, files
<1>9. ASSUME NEW t \in Sessions
      PROVE  CallSound(t)'
  BY <1>1, <1>3 DEF CallSound
<1>10. \A p \in Personas : Published(p)' = Published(p)
  BY <1>3 DEF Published
<1>11. EntriesSound'
  BY <1>1, <1>2, <1>3, <1>4, <1>10 DEF EntriesSound, ReaderSound
<1>12. ReadersSound'
  BY <1>1, <1>5, <1>6, <1>10 DEF ReadersSound, ReaderSound
<1> QED BY <1>8, <1>9, <1>11, <1>12 DEF IInv

(***************************************************************************)
(* The theorems                                                            *)
(***************************************************************************)

LEMMA InitInvariant == Init => IInv
<1> SUFFICES ASSUME Init PROVE IInv
  OBVIOUS
<1>1. PICK old \in SUBSET Legacy, known \in BOOLEAN :
        /\ scene \in Scenarios
        /\ Cardinality(old) <= 1 /\ Cardinality(old) <= MaxKeys
        /\ entry = [p \in Personas |->
             IF p \in old THEN [rev |-> 1, doc |-> OldProfile]
                          ELSE [rev |-> 0, doc |-> NoProfile]]
        /\ seed = [p \in Personas |-> IF p \in old THEN 1 ELSE 0]
        /\ pins = [p \in Personas |-> IF p \in old /\ known THEN <<1>> ELSE <<>>]
        /\ minted = Cardinality(old)
        /\ prev = [p \in Personas |-> 0]
        /\ tokens = {}
        /\ call = [s \in Sessions |-> Off]
        /\ reader = [r \in Readers |-> NotReading]
        /\ hurt = {}
  BY DEF Init
<1>2. /\ IsFiniteSet(old) /\ Cardinality(old) \in Nat
      /\ old # {} => Cardinality(old) # 0
  <2>1. IsFiniteSet(old)
    BY <1>1, DirectoryAssumption, FS_Subset
  <2> QED BY <2>1, FS_CardinalityType, FS_EmptySet
<1>3. /\ 0 \in Key /\ Cardinality(old) \in Key
      /\ old # {} => 1 \in Key
  BY <1>1, <1>2, SmallTypes DEF Key
<1>4. ASSUME NEW p \in Personas
      PROVE  /\ entry[p] \in Entry /\ pins[p] \in Seq(Key) /\ seed[p] \in Key
             /\ entry[p].doc.rotations = <<>> /\ ChainValid(entry[p].doc)
             /\ Extends(pins[p], Published(p))
  <2>1. CASE p \in old
    <3>1. /\ OldProfile \in Profile /\ OldProfile.rotations = <<>>
          /\ OldProfile.key = 1
      BY <2>1, <1>3, SmallTypes DEF OldProfile, Profile, NoProfile
    <3>2. Chain(OldProfile) = <<1>> /\ ChainValid(OldProfile)
      BY <3>1 DEF Chain, ChainValid
    <3>3. Extends(<<1>>, <<1>>) /\ Extends(<<>>, <<1>>)
      BY DEF Extends
    <3>4. entry[p] = [rev |-> 1, doc |-> OldProfile] /\ seed[p] = 1
          /\ (pins[p] = <<1>> \/ pins[p] = <<>>)
      BY <1>1, <2>1
    <3>5. pins[p] \in Seq(Key) /\ seed[p] \in Key
      <4>1. 1 \in Key
        BY <2>1, <1>3
      <4>2. <<1>> \in Seq(Key) /\ <<>> \in Seq(Key)
        BY <4>1
      <4> QED BY <3>4, <4>1, <4>2
    <3> QED BY <3>1, <3>2, <3>3, <3>4, <3>5 DEF Entry, Published
  <2>2. CASE p \notin old
    <3>1. Chain(NoProfile) = <<>> /\ ChainValid(NoProfile)
          /\ NoProfile.rotations = <<>> /\ NoProfile \in Profile
      BY SmallTypes DEF NoProfile, Chain, ChainValid
    <3>2. entry[p] = [rev |-> 0, doc |-> NoProfile] /\ seed[p] = 0
          /\ pins[p] = <<>>
      BY <1>1, <2>2
    <3> QED BY <3>1, <3>2, <1>3 DEF Entry, Published, Extends
  <2> QED BY <2>1, <2>2
<1>5. TypeOK
  <2>1. /\ entry \in [Personas -> Entry] /\ seed \in [Personas -> Key]
        /\ pins \in [Personas -> Seq(Key)]
    BY <1>1, <1>4
  <2> QED BY <1>1, <1>3, <2>1, SmallTypes DEF TypeOK, Entry
<1>6. ASSUME NEW s \in Sessions
      PROVE  CallSound(s)
  <2>1. call[s] = Off
    BY <1>1
  <2> QED BY <2>1, OffCall DEF CallSound
<1>7. EntriesSound
  BY <1>4 DEF EntriesSound
<1>8. ReadersSound
  BY <1>1, <1>5, NoPinsExtend DEF ReadersSound
<1> QED BY <1>5, <1>6, <1>7, <1>8 DEF IInv

LEMMA StutterPreserves == IInv /\ UNCHANGED vars => IInv'
<1> SUFFICES ASSUME IInv, UNCHANGED vars PROVE IInv'
  OBVIOUS
<1>1. /\ UNCHANGED <<scene, entry, seed, prev, minted, tokens, call>>
      /\ UNCHANGED <<pins, reader, hurt>>
  BY DEF vars
<1>2. \A p \in Personas : Published(p)' = Published(p)
  BY <1>1 DEF Published
<1>3. TypeOK' /\ \A s \in Sessions : CallSound(s)'
  BY <1>1 DEF IInv, TypeOK, CallSound
<1>4. ReadersSound' /\ EntriesSound'
  BY <1>1, <1>2 DEF IInv, ReadersSound, EntriesSound
<1> QED BY <1>3, <1>4 DEF IInv

LEMMA NextInvariant == IInv /\ [Next]_vars => IInv'
BY SessionPreserves, ReaderPreserves, StutterPreserves DEF Next

(* The invariant of the directory holds whatever publishers, rotators,     *)
(* attesters and readers do, in any order and with any faults.             *)
THEOREM Invariant == Spec => []IInv
BY InitInvariant, NextInvariant, PTL DEF Spec

(* Nobody is ever distrusted for rotating: what BuildKeyring has pinned,   *)
(* and what is in the pins file, is always a prefix of the chain in the    *)
(* directory, however publishes, rotations and reads interleave.           *)
THEOREM NobodyIsDistrusted == Spec => []NobodyDistrusted
<1>1. IInv => NobodyDistrusted
  <2> SUFFICES ASSUME IInv PROVE NobodyDistrusted
    OBVIOUS
  <2>1. TypeOK /\ EntriesSound /\ ReadersSound
    BY DEF IInv
  <2>2. ASSUME NEW r \in Readers, Alarm(r)
        PROVE  Chain(reader[r].profile) # Published(reader[r].shown)
    <3>1. reader[r].shown \in Personas
      BY <2>1, <2>2 DEF Alarm, TypeOK, Reader
    <3>2. ChainValid(reader[r].profile)
      BY <2>1 DEF ReadersSound
    <3>3. Extends(pins[reader[r].shown], Published(reader[r].shown))
      BY <2>1, <3>1 DEF EntriesSound
    <3> QED BY <2>2, <3>2, <3>3 DEF Alarm
  <2> QED BY <2>1, <2>2 DEF NobodyDistrusted, EntriesSound, ReadersSound
<1> QED BY <1>1, Invariant, PTL

(* A published chain is only ever extended: the compare-and-set of         *)
(* registry.Publish and Rotate loses no rotation, whoever races whom.      *)
THEOREM ChainsOnlyGrow == Spec => ChainsGrow
<1>1. IInv /\ [Next]_vars =>
        [\A p \in Personas : Extends(Published(p), Published(p)')]_vars
  <2> SUFFICES ASSUME IInv, Next, NEW p \in Personas
               PROVE  Extends(Published(p), Published(p)')
    OBVIOUS
  <2>1. TypeOK
    BY DEF IInv
  <2>2. CASE \E s \in Sessions : SessionStep(s)
    <3>1. PICK s \in Sessions : SessionStep(s)
      BY <2>2
    <3>2. Improves(s)
      BY <3>1, SessionSound DEF Sound
    <3> QED BY <2>1, <3>2, SessionExtends
  <2>3. CASE \E r \in Readers : ReaderStep(r)
    <3>1. entry' = entry
      BY <2>3 DEF ReaderStep, Begin, LoadPins, ReadProfile, SavePins,
                  NoKeyring, Close
    <3>2. Published(p)' = Published(p)
      BY <3>1 DEF Published
    <3> QED BY <2>1, <3>2, EntryTypes, ExtendsItself
  <2> QED BY <2>2, <2>3 DEF Next
<1> QED BY <1>1, Invariant, PTL DEF Spec, ChainsGrow
=============================================================================
