------------------------- MODULE Directory_promises --------------------------
(***************************************************************************)
(* Proofs about Directory, on top of its invariant IInv: that a published  *)
(* key is never without its seed, that adding a key to a profile leaves    *)
(* the rest of it alone, and that an honest vouch never reads as failed.   *)
(***************************************************************************)
EXTENDS Directory_proofs

(***************************************************************************)
(* The invariant: keys                                                     *)
(***************************************************************************)

(* The calls between the making of a key and its landing in a file.        *)
Holding == {"init", "rotating", "swap", "save"}
Swapping(s, p) == call[s].who = p /\ call[s].pc \in {"swap", "save"}

(* No file holds k, no process signs with it, nothing was signed with it.  *)
Unused(k) ==
  /\ \A p \in Personas : seed[p] # k /\ prev[p] # k
  /\ \A s \in Sessions : call[s].signer # k
  /\ \A t \in tokens : t.vouch.sig # k

(* A key still in the hands of the call that made it is new to the realm.  *)
KeysFresh ==
  /\ \A k \in Key : minted < k => Unused(k)
  /\ \A s \in Sessions :
       /\ call[s].pc \in Holding => call[s].held # 0
       /\ call[s].held <= minted
       /\ call[s].held # 0 =>
            /\ Unused(call[s].held)
            /\ \A t \in Sessions \ {s} : call[t].held # call[s].held

(* Where the seed of p's published key is, and before there is one, which  *)
(* key p's processes would publish.                                        *)
Custody(p) ==
  LET key == entry[p].doc.key
  IN  /\ \A s \in Sessions :
           /\ key = 0 /\ call[s].who = p => call[s].signer \in {0, seed[p]}
           /\ Swapping(s, p) => call[s].held = key
           /\ Swapping(s, p) /\ call[s].pc = "save" => seed[p] = 0
      /\ key # 0 => seed[p] = key \/ \E s \in Sessions : Swapping(s, p)

(***************************************************************************)
(* The invariant: documents and vouches                                    *)
(***************************************************************************)

SaysTheSame(d, e) == d.by = e.by /\ d.vouch = e.vouch

(* A document of p that carries a vouch carries a token over p.            *)
Given(p, d) ==
  d.vouch # NoVouch =>
    [operator |-> d.by, operated |-> p, vouch |-> d.vouch] \in tokens

(* A draft is strict, has the signer's key and an honest vouch; and what   *)
(* EnsureSigningKey publishes says what the entry it looked up says.       *)
DraftSound(s) ==
  LET c == call[s]
      e == entry[c.who]
  IN  /\ c.pc = "ready" => c.since = -1
      /\ c.pc = "rotating" => c.snap.doc.strict
      /\ c.pc \in {"draft", "got"} =>
           /\ c.draft.key = c.signer /\ c.draft.strict
           /\ Given(c.who, c.draft)
      /\ c.pc = "draft" =>
           /\ c.since <= e.rev
           /\ c.since = e.rev => SaysTheSame(c.draft, e.doc)
      /\ c.pc = "got" /\ c.since = c.snap.rev =>
           SaysTheSame(c.draft, c.snap.doc)

TokensSound ==
  \A t \in tokens :
    t.vouch.operated_key # 0 =>
      Holds(Published(t.operated), t.vouch.operated_key)

DocumentSound(p) ==
  LET e == entry[p]
  IN  /\ e.rev = 0 => e.doc.key = 0
      /\ ~e.doc.strict => e.doc.rotations = <<>>
      /\ Given(p, e.doc)

(* What a read has made of the claim of the profile it shows: once it has  *)
(* taken the operator's profile, it knows the key of the vouch if the      *)
(* directory does; once it has taken the persona's own, it knows the key   *)
(* that was vouched for - unless it reads without a keyring.               *)
ClaimSound(r) ==
  LET x == reader[r]
      d == x.profile
  IN  /\ x.stage = "reading" => x.left = {}
      /\ x.stage # "off" /\ x.shown # None =>
           /\ entry[x.shown].rev > 0 /\ entry[x.shown].doc.strict
           /\ Given(x.shown, d)
      /\ x.stage \in {"listing", "reading"} /\ x.shown # None /\ d.by # None =>
           /\ /\ d.by \notin x.left /\ x.pinned[d.by] # <<>>
              /\ Holds(Published(d.by), d.vouch.sig)
              => Holds(x.pinned[d.by], d.vouch.sig)
           /\ x.shown \notin x.left /\ d.vouch.operated_key # 0 =>
                \/ Holds(x.pinned[x.shown], d.vouch.operated_key)
                \/ x.stage = "reading" /\ x.pinned[d.by] = <<>>

Honest == /\ KeysFresh
          /\ \A p \in Personas \ hurt : Custody(p)
          /\ \A s \in Sessions : DraftSound(s)
          /\ TokensSound
          /\ \A p \in Personas : DocumentSound(p)
          /\ \A r \in Readers : ClaimSound(r)

(***************************************************************************)
(* What a session does                                                     *)
(***************************************************************************)

LEMMA Frame ==
  ASSUME IInv, NEW s \in Sessions, SessionStep(s)
  PROVE  /\ TypeOK /\ TypeOK' /\ CallSound(s) /\ EntriesSound
         /\ call[s] \in Call /\ call'[s] \in Call
         /\ call' = [call EXCEPT ![s] = call'[s]]
         /\ \A t \in Sessions \ {s} : call'[t] = call[t]
         /\ UNCHANGED <<scene, pins, reader>>
         /\ Improves(s)
<1>1. Sound(s) /\ IInv'
  BY SessionSound, SessionPreserves
<1>2. TypeOK /\ TypeOK' /\ CallSound(s) /\ EntriesSound
  BY <1>1 DEF IInv
<1> QED BY <1>1, <1>2 DEF Sound, TypeOK

LEMMA OffFields ==
  /\ Off.pc = "off" /\ Off.who = None /\ Off.signer = 0 /\ Off.held = 0
  /\ Off.since = -1
BY DEF Off

LEMMA ReadyFields ==
  ASSUME NEW s \in Sessions
  PROVE  /\ Ready(s).pc = "ready" /\ Ready(s).who = call[s].who
         /\ Ready(s).signer = call[s].signer /\ Ready(s).held = 0
         /\ Ready(s).since = -1
BY DEF Ready, Off

(* Where keys go: into the files from the hands of the call that made      *)
(* them, from the files to a process that connects, from the process into  *)
(* what it signs.                                                          *)
KeyMoves(s) ==
  /\ \A p \in Personas :
       /\ \/ seed'[p] \in {seed[p], prev[p], 0}
          \/ seed'[p] = call[s].held /\ call'[s].held = 0
       /\ prev'[p] \in {prev[p], seed[p], 0}
  /\ \/ call'[s].signer \in {0, call[s].signer}
     \/ \E p \in Personas : call'[s].signer = seed[p]
  /\ \A t \in tokens' : t \in tokens \/ t.vouch.sig = call[s].signer
  /\ \/ /\ minted' = minted
        /\ call'[s].held \in {0, call[s].held}
        /\ call'[s].pc \in Holding =>
             call[s].pc \in Holding /\ call'[s].held = call[s].held
     \/ minted' = minted + 1 /\ call'[s].held = minted + 1

LEMMA SessionKeys ==
  ASSUME IInv, NEW s \in Sessions, SessionStep(s)
  PROVE  KeyMoves(s)
<1>1. /\ seed \in [Personas -> Key] /\ prev \in [Personas -> Key]
      /\ call \in [Sessions -> Call] /\ call[s] \in Call
      /\ call[s].pc # "off" => Me(s) \in Personas
  BY Frame DEF TypeOK, CallSound, Me
<1>2. CASE KeyInit(s)
  BY <1>1, <1>2, OffFields DEF KeyInit, KeyMoves, Goto, Off
<1>3. CASE KeyInitWrites(s)
  BY <1>1, <1>3, OffFields DEF KeyInitWrites, KeyMoves, Goto, Holding
<1>4. CASE Connect(s)
  BY <1>1, <1>4, OffFields DEF Connect, KeyMoves, Goto, Holding, files, Off
<1>5. CASE Exit(s)
  BY <1>1, <1>5, OffFields DEF Exit, KeyMoves, Goto, Holding
<1>6. CASE Attest(s)
  <2>1. \A t \in tokens' : t \in tokens \/ t.vouch.sig = call[s].signer
    BY <1>6 DEF Attest, NewAttestationToken
  <2>2. UNCHANGED <<files, call>>
    BY <1>6 DEF Attest
  <2> QED BY <1>1, <2>1, <2>2 DEF KeyMoves, files
<1>7. CASE Compose(s)
  BY <1>1, <1>7 DEF Compose, KeyMoves, Goto, Holding, files
<1>8. CASE Ensure(s)
  BY <1>1, <1>8 DEF Ensure, KeyMoves, Goto, Holding, files
<1>9. CASE PublishGets(s)
  BY <1>1, <1>9 DEF PublishGets, KeyMoves, Goto, Holding, files
<1>10. CASE PublishWrites(s)
  BY <1>1, <1>10, ReadyFields DEF PublishWrites, KeyMoves, Goto, Holding, files
<1>11. CASE Rotate(s)
  BY <1>1, <1>11 DEF Rotate, KeyMoves, Goto
<1>12. CASE RotateWrites(s)
  <2>1. UNCHANGED <<seed, prev, minted, tokens>> /\ call[s].pc = "rotating"
    BY <1>12 DEF RotateWrites
  <2>2. call'[s] \in {[call[s] EXCEPT !.pc = "swap"], Ready(s)}
    BY <1>1, <1>12 DEF RotateWrites, Goto
  <2>3. /\ call'[s].signer = call[s].signer /\ call'[s].held \in {0, call[s].held}
        /\ call'[s].pc \in Holding => call'[s].held = call[s].held
    BY <1>1, <2>2, ReadyFields DEF Holding, Call
  <2> QED BY <2>1, <2>3 DEF KeyMoves, Holding
<1>13. CASE SetAside(s)
  <2>1. UNCHANGED <<minted, tokens>> /\ call[s].pc = "swap"
    BY <1>13 DEF SetAside
  <2>2. call'[s] \in {[call[s] EXCEPT !.pc = "save"], Ready(s)}
    BY <1>1, <1>13 DEF SetAside, Goto
  <2>3. \/ UNCHANGED <<seed, prev>>
        \/ /\ prev' = [prev EXCEPT ![Me(s)] = seed[Me(s)]]
           /\ seed' = [seed EXCEPT ![Me(s)] = 0]
    BY <1>13 DEF SetAside
  <2>4. \A p \in Personas : /\ seed'[p] \in {seed[p], prev[p], 0}
                            /\ prev'[p] \in {prev[p], seed[p], 0}
    BY <1>1, <2>3
  <2>5. /\ call'[s].signer = call[s].signer /\ call'[s].held \in {0, call[s].held}
        /\ call'[s].pc \in Holding => call'[s].held = call[s].held
    BY <1>1, <2>2, ReadyFields DEF Holding, Call
  <2> QED BY <2>1, <2>4, <2>5 DEF KeyMoves, Holding
<1>14. CASE SaveNew(s)
  BY <1>1, <1>14, ReadyFields DEF SaveNew, KeyMoves, Goto, Holding
<1> QED BY <1>2, <1>3, <1>4, <1>5, <1>6, <1>7, <1>8, <1>9, <1>10, <1>11,
           <1>12, <1>13, <1>14 DEF SessionStep

(* A key nobody has used stays so, unless it is the one in the call.       *)
LEMMA UnusedStays ==
  ASSUME IInv, NEW s \in Sessions, SessionStep(s), NEW k \in Key, k # 0,
         Unused(k), k # call[s].held \/ call'[s].held # 0
  PROVE  Unused(k)'
<1>1. KeyMoves(s) /\ \A t \in Sessions \ {s} : call'[t] = call[t]
  BY SessionKeys, Frame
<1> QED BY <1>1 DEF Unused, KeyMoves

LEMMA KeysStayFresh ==
  ASSUME IInv, NEW s \in Sessions, SessionStep(s), KeysFresh
  PROVE  KeysFresh'
<1>1. /\ KeyMoves(s)
      /\ \A t \in Sessions \ {s} : call'[t] = call[t]
      /\ \A t \in Sessions : call[t] \in Call /\ call[t].held \in Key
      /\ minted \in Key /\ minted' \in Key /\ call'[s].held \in Key
  BY SessionKeys, Frame DEF TypeOK, Call
<1>2. Key \subseteq Nat /\ 0 \in Key
  BY SmallTypes
<1>3. minted \in Nat /\ minted' \in {minted, minted + 1}
  BY <1>1, <1>2 DEF KeyMoves
<1>4. ASSUME NEW k \in Key, minted' < k
      PROVE  Unused(k)'
  <2>1. minted < k /\ k # 0 /\ k # call[s].held
    BY <1>1, <1>2, <1>3, <1>4 DEF KeysFresh
  <2> QED BY <2>1, UnusedStays DEF KeysFresh
<1>5. ASSUME NEW t \in Sessions
      PROVE  /\ call'[t].held <= minted'
             /\ call'[t].pc \in Holding => call'[t].held # 0
             /\ call'[t].held # 0 =>
                  \A u \in Sessions \ {t} : call'[u].held # call'[t].held
  <2>1. call[t].held <= minted /\ call[t].held \in Nat /\ call[s].held \in Nat
    BY <1>1, <1>2 DEF KeysFresh
  <2>2. CASE t = s
    <3>1. ASSUME NEW u \in Sessions \ {s}, call'[s].held # 0
          PROVE  call[u].held # call'[s].held
      <4>1. call[u].held <= minted /\ call[u].held \in Nat
        BY <1>1, <1>2 DEF KeysFresh
      <4> QED BY <1>1, <1>3, <3>1, <4>1 DEF KeysFresh, KeyMoves
    <3>2. call'[s].held <= minted' /\ (call'[s].pc \in Holding => call'[s].held # 0)
      BY <1>1, <1>3, <2>1 DEF KeysFresh, KeyMoves
    <3> QED BY <1>1, <2>2, <3>1, <3>2
  <2>3. CASE t # s
    <3>1. /\ call'[t] = call[t]
          /\ call[t].pc \in Holding => call[t].held # 0
          /\ call[t].held # 0 =>
               \A u \in Sessions \ {t} : call[u].held # call[t].held
      BY <1>1, <2>3 DEF KeysFresh
    <3>2. call[t].held # 0 => call'[s].held # call[t].held
      BY <1>3, <1>1, <2>1, <2>3, <3>1 DEF KeyMoves
    <3> QED BY <1>1, <1>3, <2>1, <2>3, <3>1, <3>2
  <2> QED BY <2>2, <2>3
<1>6. ASSUME NEW t \in Sessions, call'[t].held # 0
      PROVE  Unused(call[t].held)'
  <2>1. CASE t # s
    <3>1. PICK k \in Key : k = call[t].held
      BY <1>1
    <3>2. call'[t] = call[t]
      BY <1>1, <2>1
    <3>3. Unused(k) /\ k # call[s].held /\ k # 0
      BY <1>6, <2>1, <3>1, <3>2 DEF KeysFresh
    <3>4. Unused(k)'
      BY <3>3, UnusedStays
    <3> QED BY <3>1, <3>2, <3>4
  <2>2. CASE t = s
    <3>1. PICK k \in Key : k = call'[s].held
      BY <1>1
    <3>2. Unused(k)
      BY <3>1, <2>2, <1>1, <1>2, <1>3, <1>6 DEF KeysFresh, KeyMoves
    <3>3. Unused(k)'
      BY <3>1, <3>2, <2>2, <1>6, UnusedStays
    <3> QED BY <3>1, <3>3, <2>2
  <2> QED BY <2>1, <2>2
<1> QED BY <1>4, <1>5, <1>6 DEF KeysFresh

(***************************************************************************)
(* What a session writes to the directory                                  *)
(***************************************************************************)

(* It publishes, or it rotates, on the document it read.                   *)
Landed(s, d) ==
  /\ Me(s) \in Personas /\ Write(Me(s), d)
  /\ call[s].snap.doc = entry[Me(s)].doc
  /\ UNCHANGED <<seed, tokens>>
Publishes(s) == /\ call[s].pc = "got" /\ Landed(s, Merge(call[s]))
                /\ call'[s] = Ready(s)
Rotates(s)   == call[s].pc = "rotating" /\ Landed(s, Endorsed(call[s]))

LEMMA SessionWrites ==
  ASSUME IInv, NEW s \in Sessions, SessionStep(s)
  PROVE  entry' = entry \/ Publishes(s) \/ Rotates(s)
<1>1. TypeOK /\ CallSound(s)
  BY Frame
<1>2. CASE PublishWrites(s)
  <2>1. call[s].pc = "got" /\ Me(s) \in Personas /\ call'[s] = Ready(s)
    BY <1>1, <1>2 DEF PublishWrites, CallSound, Me, Goto, TypeOK
  <2>2. UNCHANGED <<seed, tokens>>
    BY <1>2 DEF PublishWrites, files
  <2>3. CASE Lands(s) /\ Write(Me(s), Merge(call[s]))
    BY <1>1, <2>1, <2>2, <2>3 DEF Lands, CallSound, Me, Publishes, Landed
  <2> QED BY <1>2, <2>3 DEF PublishWrites
<1>3. CASE RotateWrites(s)
  <2>1. call[s].pc = "rotating" /\ Me(s) \in Personas
    BY <1>1, <1>3 DEF RotateWrites, CallSound, Me
  <2>2. UNCHANGED <<seed, tokens>>
    BY <1>3 DEF RotateWrites
  <2>3. CASE Lands(s) /\ Write(Me(s), Endorsed(call[s]))
    BY <1>1, <2>1, <2>2, <2>3 DEF Lands, CallSound, Me, Rotates, Landed
  <2> QED BY <1>3, <2>3 DEF RotateWrites
<1>4. CASE ~PublishWrites(s) /\ ~RotateWrites(s)
  BY <1>4 DEF SessionStep, KeyInit, KeyInitWrites, Connect, Exit, Attest,
              Compose, Ensure, PublishGets, Rotate, SetAside, SaveNew
<1> QED BY <1>2, <1>3, <1>4

(* A document published over another keeps its key, and the chain of keys  *)
(* with it, unless there was none.                                         *)
LEMMA MergeKeeps ==
  ASSUME NEW c \in Call, c.draft.rotations = <<>>
  PROVE  /\ Merge(c) \in Profile
         /\ SaysTheSame(Merge(c), c.draft) /\ Merge(c).strict = c.draft.strict
         /\ c.snap.doc.key = 0 => Merge(c).key = c.draft.key
         /\ c.snap.doc.key # 0 => /\ Merge(c).key = c.snap.doc.key
                                  /\ Chain(Merge(c)) = Chain(c.snap.doc)
<1>1. c.draft \in Profile /\ c.snap.doc \in Profile
  BY DEF Call
<1>2. CASE c.snap.doc.key = 0
  BY <1>1, <1>2 DEF Merge, SaysTheSame
<1>3. CASE c.snap.doc.key # 0
  <2>1. /\ Merge(c) \in Profile /\ Merge(c).key = c.snap.doc.key
        /\ Merge(c).rotations = c.snap.doc.rotations
        /\ Merge(c).by = c.draft.by /\ Merge(c).vouch = c.draft.vouch
        /\ Merge(c).strict = c.draft.strict
    BY <1>1, <1>3 DEF Merge, Profile
  <2> QED BY <2>1, <1>3 DEF Chain, SaysTheSame
<1> QED BY <1>2, <1>3

LEMMA Appended ==
  ASSUME NEW S, NEW q \in Seq(S), NEW x \in S
  PROVE  /\ Len(Append(q, x)) = Len(q) + 1 /\ Append(q, x) # <<>>
         /\ \A i \in 1 .. Len(q) : Append(q, x)[i] = q[i]
         /\ Append(q, x)[Len(q) + 1] = x
OBVIOUS

(* A rotation adds its new key to the chain, and no other.                 *)
LEMMA EndorsedKeeps ==
  ASSUME NEW c \in Call, c.signer # 0, c.held # 0, c.snap.doc.key = c.signer
  PROVE  /\ Endorsed(c) \in Profile
         /\ SaysTheSame(Endorsed(c), c.snap.doc)
         /\ Endorsed(c).strict = c.snap.doc.strict
         /\ Endorsed(c).key = c.held
         /\ \A k \in Key : Holds(Chain(Endorsed(c)), k)
              => k = c.held \/ Holds(Chain(c.snap.doc), k)
<1> DEFINE old == c.snap.doc.rotations
           new == [from |-> c.signer, to |-> c.held]
           e == Endorsed(c)
           n == Len(old)
<1>1. c.snap.doc \in Profile /\ c.held \in Key /\ c.signer \in Key
      /\ old \in Seq(Rotation) /\ n \in Nat
  BY DEF Call, Profile
<1>2. /\ new \in Rotation
      /\ Append(old, new) \in Seq(Rotation)
  BY <1>1 DEF Rotation
<1>3. /\ e \in Profile /\ e.key = c.held
      /\ e.by = c.snap.doc.by /\ e.vouch = c.snap.doc.vouch
      /\ e.strict = c.snap.doc.strict
      /\ e.rotations = Append(old, new)
  BY <1>1, <1>2 DEF Endorsed, Profile
<1>4. /\ Len(e.rotations) = n + 1 /\ e.rotations # <<>>
      /\ \A i \in 1 .. n : e.rotations[i] = old[i]
      /\ e.rotations[n + 1] = new
  <2>1. /\ Len(Append(old, new)) = Len(old) + 1 /\ Append(old, new) # <<>>
        /\ \A i \in 1 .. Len(old) : Append(old, new)[i] = old[i]
        /\ Append(old, new)[Len(old) + 1] = new
    <3> HIDE DEF old, new
    <3> QED BY <1>1, <1>2, Appended
  <2> QED BY <1>3, <2>1
<1> HIDE DEF e
<1>5. /\ Len(Chain(e)) = n + 2 /\ Chain(e)[1] = e.rotations[1].from
      /\ \A i \in 1 .. n + 1 : Chain(e)[i + 1] = e.rotations[i].to
  <2>1. e.key # 0 /\ e.rotations # <<>> /\ Len(e.rotations) = n + 1
    BY <1>3, <1>4
  <2>2. /\ Len(Chain(e)) = (n + 1) + 1 /\ Chain(e)[1] = e.rotations[1].from
        /\ \A i \in 1 .. n + 1 : Chain(e)[i + 1] = e.rotations[i].to
    BY <1>3, <2>1, RotatedChain, Zenon
  <2>3. (n + 1) + 1 = n + 2
    BY <1>1
  <2> QED BY <2>2, <2>3, Zenon
<1>6. ASSUME NEW k \in Key, Holds(Chain(e), k)
      PROVE  k = c.held \/ Holds(Chain(c.snap.doc), k)
  <2>1. PICK i \in 1 .. n + 2 : Chain(e)[i] = k
    BY <1>5, <1>6 DEF Holds
  <2>2. CASE i = n + 2
    <3>1. n + 1 \in 1 .. n + 1 /\ (n + 1) + 1 = n + 2
      BY <1>1
    <3>2. Chain(e)[n + 2] = e.rotations[n + 1].to
      BY <3>1, <1>5
    <3>3. e.rotations[n + 1].to = c.held
      BY <1>4
    <3> QED BY <2>1, <2>2, <3>2, <3>3
  <2>3. CASE i # n + 2 /\ n = 0
    <3>1. old = <<>> /\ i = 1
      BY <1>1, <2>1, <2>3
    <3>2. Chain(c.snap.doc) = <<c.signer>>
      BY <3>1 DEF Chain
    <3>3. k = c.signer
      BY <2>1, <2>3, <3>1, <1>4, <1>5
    <3> QED BY <3>2, <3>3 DEF Holds
  <2>4. CASE i # n + 2 /\ n # 0
    <3>1. old # <<>> /\ i \in 1 .. n + 1
      BY <1>1, <2>1, <2>4
    <3>2. /\ Len(Chain(c.snap.doc)) = n + 1
          /\ Chain(c.snap.doc)[1] = old[1].from
          /\ \A j \in 1 .. n : Chain(c.snap.doc)[j + 1] = old[j].to
      BY <3>1, <1>1, RotatedChain
    <3>3. Chain(c.snap.doc)[i] = Chain(e)[i]
      <4>1. CASE i = 1
        BY <4>1, <3>2, <1>1, <1>4, <1>5, <2>4
      <4>2. CASE i # 1
        <5>1. i - 1 \in 1 .. n /\ i - 1 \in 1 .. n + 1 /\ (i - 1) + 1 = i
          BY <4>2, <3>1, <1>1
        <5> QED BY <5>1, <3>2, <1>4, <1>5
      <4> QED BY <4>1, <4>2
    <3> QED BY <2>1, <3>1, <3>2, <3>3 DEF Holds
  <2> QED BY <2>2, <2>3, <2>4
<1> QED BY <1>3, <1>6 DEF e, SaysTheSame

(***************************************************************************)
(* The published key and its seed                                          *)
(***************************************************************************)

LEMMA CustodyStays ==
  ASSUME IInv, NEW s \in Sessions, SessionStep(s), KeysFresh, DraftSound(s),
         NEW p \in Personas, p \notin hurt', Custody(p)
  PROVE  Custody(p)'
<1>1. /\ TypeOK /\ CallSound(s) /\ call[s] \in Call /\ call'[s] \in Call
      /\ \A t \in Sessions \ {s} : call'[t] = call[t]
      /\ call[s].pc # "off" => Me(s) \in Personas
      /\ Me(s) = call[s].who
      /\ None \notin Personas
  BY Frame, DirectoryAssumption DEF CallSound, Me
<1>2. /\ call \in [Sessions -> Call] /\ seed \in [Personas -> Key]
      /\ entry \in [Personas -> Entry] /\ entry[p].doc \in Profile
  BY <1>1, EntryTypes DEF TypeOK, Entry
<1> DEFINE key == entry[p].doc.key
(* A step that leaves p's entry and seed alone, and in which s neither     *)
(* begins nor ends a swap of p's key.                                      *)
<1>3. ASSUME entry'[p] = entry[p], seed'[p] = seed[p],
             ~Swapping(s, p), call'[s].pc \notin {"swap", "save"},
             call'[s].who = p =>
               \/ call'[s].signer \in {0, seed[p]}
               \/ call[s].who = p /\ call'[s].signer = call[s].signer
      PROVE  Custody(p)'
  BY <1>1, <1>3 DEF Custody, Swapping
<1>4. CASE KeyInit(s)
  <2>1. /\ call[s].pc = "off" /\ entry' = entry /\ seed' = seed
        /\ call'[s].pc = "init" /\ call'[s].signer = 0
    BY <1>2, <1>4 DEF KeyInit, MayStart, Goto, Off
  <2> QED BY <1>3, <2>1 DEF Swapping
<1>5. CASE Connect(s)
  <2>1. /\ call[s].pc = "off" /\ entry' = entry /\ seed' = seed
        /\ call'[s].pc = "ready" /\ call'[s].signer = seed[call'[s].who]
    BY <1>2, <1>5 DEF Connect, MayStart, Goto, Off, files
  <2> QED BY <1>3, <2>1 DEF Swapping
<1>6. CASE Exit(s)
  <2>1. ~Swapping(s, p)
    BY <1>1, <1>6 DEF Exit, Swapping
  <2> QED BY <1>1, <1>2, <1>3, <1>6, <2>1, OffFields DEF Exit, Goto
<1>7. CASE Attest(s)
  BY <1>1, <1>2, <1>3, <1>7 DEF Attest, Swapping, files
<1>8. CASE Compose(s)
  BY <1>1, <1>2, <1>3, <1>8 DEF Compose, Goto, Swapping, files
<1>9. CASE Ensure(s)
  BY <1>1, <1>2, <1>3, <1>9 DEF Ensure, Goto, Swapping, files
<1>10. CASE PublishGets(s)
  BY <1>1, <1>2, <1>3, <1>10 DEF PublishGets, Goto, Swapping, files
<1>11. CASE Rotate(s)
  BY <1>1, <1>2, <1>3, <1>11 DEF Rotate, Goto, Swapping
(* No swap of p's key is on while it has none.                             *)
<1>12. ASSUME key = 0, NEW t \in Sessions
       PROVE  ~Swapping(t, p)
  BY <1>12 DEF Custody, Swapping, KeysFresh, Holding
<1>13. CASE KeyInitWrites(s)
  <2>1. /\ call[s].pc = "init" /\ entry' = entry /\ call'[s] = Off
        /\ seed' = [seed EXCEPT ![Me(s)] = call[s].held]
        /\ Me(s) = p => seed[p] = 0 /\ key = 0
    BY <1>1, <1>2, <1>13 DEF KeyInitWrites, Goto
  <2>2. CASE Me(s) # p
    BY <1>1, <1>2, <1>3, <2>1, <2>2, OffFields DEF Swapping
  <2>3. CASE Me(s) = p
    BY <1>1, <1>2, <1>12, <2>1, <2>3, OffFields DEF Custody, Swapping
  <2> QED BY <2>2, <2>3
<1>14. CASE PublishWrites(s)
  <2>1. /\ call[s].pc = "got" /\ call'[s] = Ready(s) /\ seed' = seed
        /\ ~Swapping(s, p)
    BY <1>1, <1>2, <1>14 DEF PublishWrites, Goto, files, Swapping
  <2>2. CASE entry'[p] = entry[p]
    BY <1>1, <1>3, <2>1, <2>2, ReadyFields
  <2>3. CASE entry'[p] # entry[p]
    <3>1. Publishes(s)
      BY <2>1, <2>3, SessionWrites DEF Rotates
    <3>2. /\ p = Me(s) /\ entry'[p].doc = Merge(call[s])
          /\ call[s].snap.doc = entry[p].doc
      BY <1>2, <2>3, <3>1 DEF Publishes, Landed, Write
    <3>3. call[s].draft.key = call[s].signer /\ call[s].draft.rotations = <<>>
      BY <1>1, <2>1 DEF DraftSound, CallSound
    <3>4. /\ key = 0 => entry'[p].doc.key = call[s].signer
          /\ key # 0 => entry'[p].doc.key = key
      BY <1>1, <3>2, <3>3, MergeKeeps
    <3>5. CASE key # 0
      BY <1>1, <2>1, <3>4, <3>5, ReadyFields DEF Custody, Swapping
    <3>6. CASE key = 0
      BY <1>1, <1>12, <2>1, <3>2, <3>4, <3>6, ReadyFields DEF Custody, Swapping
    <3> QED BY <3>5, <3>6
  <2> QED BY <2>2, <2>3
<1>15. CASE RotateWrites(s)
  <2>1. /\ call[s].pc = "rotating" /\ seed' = seed /\ ~Swapping(s, p)
        /\ call'[s] \in {[call[s] EXCEPT !.pc = "swap"], Ready(s)}
    BY <1>1, <1>2, <1>15 DEF RotateWrites, Goto, Swapping
  <2>2. CASE Me(s) # p
    <3>1. entry'[p] = entry[p]
      BY <1>2, <1>15, <2>2 DEF RotateWrites, Write
    <3>2. call'[s].who # p
      BY <1>1, <2>1, <2>2, ReadyFields DEF Call
    <3> QED BY <1>1, <1>2, <2>1, <3>1, <3>2 DEF Custody, Swapping
  <2>3. CASE Me(s) = p /\ call'[s] = Ready(s)
    <3>1. entry'[p] = entry[p]
      <4>1. ~Goto(s, [call[s] EXCEPT !.pc = "swap"])
        BY <1>1, <1>2, <2>3, ReadyFields DEF Goto, Call
      <4> QED BY <1>15, <2>3, <4>1 DEF RotateWrites
    <3> QED BY <1>1, <1>3, <2>1, <2>3, <3>1, ReadyFields
  <2>4. CASE Me(s) = p /\ call'[s] # Ready(s)
    <3>1. /\ Lands(s) /\ Write(p, Endorsed(call[s]))
          /\ call'[s] = [call[s] EXCEPT !.pc = "swap"]
      BY <1>1, <1>2, <1>15, <2>1, <2>4 DEF RotateWrites, Goto
    <3>2. /\ call[s].signer # 0 /\ call[s].held # 0
          /\ call[s].snap.doc.key = call[s].signer
          /\ call[s].snap.doc = entry[p].doc
      BY <1>1, <2>1, <2>4, <3>1 DEF CallSound, Lands
    <3>3. entry'[p].doc.key = call[s].held
      BY <1>1, <1>2, <3>1, <3>2, EndorsedKeeps DEF Write
    <3>4. ASSUME NEW t \in Sessions
          PROVE  ~Swapping(t, p)
      BY <3>2 DEF Custody, KeysFresh, Unused
    <3>5. /\ call'[s].who = p /\ call'[s].pc = "swap"
          /\ call'[s].held = call[s].held
      BY <1>1, <2>4, <3>1 DEF Call
    <3> QED BY <1>1, <3>2, <3>3, <3>4, <3>5 DEF Custody, Swapping
  <2> QED BY <2>2, <2>3, <2>4
(* A process that swaps p's key is the only one.                           *)
<1>16. ASSUME Swapping(s, p)
       PROVE  /\ key = call[s].held /\ key # 0
              /\ \A t \in Sessions \ {s} : ~Swapping(t, p)
  BY <1>16 DEF Custody, KeysFresh, Swapping, Holding
<1>17. CASE SetAside(s)
  <2>1. call[s].pc = "swap" /\ entry' = entry
    BY <1>17 DEF SetAside
  <2>2. CASE Me(s) # p
    <3>1. call'[s] \in {[call[s] EXCEPT !.pc = "save"], Ready(s)}
      BY <1>2, <1>17 DEF SetAside, Goto
    <3>2. seed'[p] = seed[p] /\ call'[s].who # p
      BY <1>1, <1>2, <1>17, <2>2, <3>1, ReadyFields DEF SetAside, Call
    <3> QED BY <1>1, <2>1, <2>2, <3>2 DEF Custody, Swapping
  <2>3. CASE Me(s) = p
    <3>1. /\ seed' = [seed EXCEPT ![p] = 0]
          /\ call'[s] = [call[s] EXCEPT !.pc = "save"]
      BY <1>1, <1>2, <1>17, <2>3 DEF SetAside, Goto
    <3>2. /\ call'[s].who = p /\ call'[s].pc = "save"
          /\ call'[s].held = call[s].held /\ seed'[p] = 0
      BY <1>1, <1>2, <2>3, <3>1 DEF Call
    <3>3. Swapping(s, p)
      BY <1>1, <2>1, <2>3 DEF Swapping
    <3> QED BY <1>1, <1>16, <2>1, <3>2, <3>3 DEF Custody, Swapping
  <2> QED BY <2>2, <2>3
<1>18. CASE SaveNew(s)
  <2>1. call[s].pc = "save" /\ entry' = entry /\ call'[s] = Ready(s)
    BY <1>1, <1>2, <1>18 DEF SaveNew, Goto
  <2>2. CASE Me(s) # p
    <3>1. seed'[p] = seed[p] /\ call'[s].who # p
      BY <1>1, <1>2, <1>18, <2>1, <2>2, ReadyFields DEF SaveNew
    <3> QED BY <1>1, <2>1, <2>2, <3>1 DEF Custody, Swapping
  <2>3. CASE Me(s) = p
    <3>1. Swapping(s, p)
      BY <1>1, <2>1, <2>3 DEF Swapping
    <3>2. seed[p] = 0
      BY <2>1, <3>1 DEF Custody
    <3>3. seed'[p] = call[s].held
      BY <1>1, <1>2, <1>18, <2>3, <3>2 DEF SaveNew
    <3> QED BY <1>1, <1>16, <2>1, <3>1, <3>3, ReadyFields DEF Custody, Swapping
  <2> QED BY <2>2, <2>3
<1> QED BY <1>4, <1>5, <1>6, <1>7, <1>8, <1>9, <1>10, <1>11, <1>13, <1>14,
           <1>15, <1>17, <1>18 DEF SessionStep

(***************************************************************************)
(* Drafts, tokens and documents                                            *)
(***************************************************************************)

LEMMA TokensGrow ==
  ASSUME NEW s \in Sessions, SessionStep(s)
  PROVE  tokens \subseteq tokens'
BY DEF SessionStep, KeyInit, KeyInitWrites, Connect, Exit, Attest, Compose,
       Ensure, PublishGets, PublishWrites, Rotate, RotateWrites, SetAside,
       SaveNew

LEMMA EntryMoves ==
  ASSUME IInv, NEW s \in Sessions, SessionStep(s), NEW p \in Personas
  PROVE  /\ entry[p].rev \in Nat /\ entry'[p].rev \in Nat
         /\ entry'[p].rev >= entry[p].rev
         /\ entry'[p].rev = entry[p].rev => entry'[p] = entry[p]
<1>1. TypeOK /\ Improves(s)
  BY Frame
<1>2. entry \in [Personas -> Entry] /\ entry[p].rev \in Nat
  BY <1>1 DEF TypeOK, Entry
<1> QED BY <1>1, <1>2 DEF Improves, Write

LEMMA DraftsStaySound ==
  ASSUME IInv, NEW s \in Sessions, SessionStep(s),
         \A t \in Sessions : DraftSound(t),
         \A p \in Personas : DocumentSound(p),
         NEW t \in Sessions
  PROVE  DraftSound(t)'
<1>1. /\ TypeOK /\ call \in [Sessions -> Call]
      /\ call[s] \in Call /\ call'[s] \in Call /\ call[t] \in Call
      /\ \A u \in Sessions \ {s} : call'[u] = call[u]
      /\ CallSound(s) /\ CallSound(t) /\ DraftSound(s) /\ DraftSound(t)
      /\ tokens \subseteq tokens'
  BY Frame, TokensGrow DEF IInv, TypeOK
<1>2. /\ Me(s) = call[s].who
      /\ call[s].pc # "off" => Me(s) \in Personas
      /\ \A p \in Personas : entry[p].rev \in Nat /\ entry[p] \in Entry
  BY <1>1, EntryMoves DEF Me, CallSound, TypeOK, Entry
<1>3. CASE t # s
  <2>1. call'[t] = call[t]
    BY <1>1, <1>3
  <2>2. CASE call[t].pc = "draft"
    <3>1. call[t].who \in Personas
      BY <1>1, <2>2 DEF CallSound
    <3>2. /\ entry[call[t].who].rev \in Nat /\ entry'[call[t].who].rev \in Nat
          /\ entry'[call[t].who].rev >= entry[call[t].who].rev
          /\ entry'[call[t].who].rev = entry[call[t].who].rev
               => entry'[call[t].who] = entry[call[t].who]
      BY <3>1, EntryMoves
    <3>3. call[t].since \in Int /\ call[t].since <= entry[call[t].who].rev
      BY <1>1, <2>2 DEF DraftSound, Call
    <3> QED BY <1>1, <2>1, <2>2, <3>2, <3>3 DEF DraftSound, Given, SaysTheSame
  <2>3. CASE call[t].pc # "draft"
    BY <1>1, <2>1, <2>3 DEF DraftSound, Given, SaysTheSame
  <2> QED BY <2>2, <2>3
<1>4. CASE t = s /\ call'[s].pc \in {"off", "init", "swap", "save"}
  BY <1>4 DEF DraftSound
<1>5. CASE t = s /\ call'[s].pc = "ready" /\ call'[s].since = -1
  BY <1>5 DEF DraftSound
<1>6. CASE t = s /\ KeyInit(s)
  <2>1. call'[s].pc = "init"
    BY <1>1, <1>6 DEF KeyInit, Goto, Off
  <2> QED BY <1>4, <1>6, <2>1
<1>7. CASE t = s /\ KeyInitWrites(s)
  <2>1. call'[s].pc = "off"
    BY <1>1, <1>7, OffFields DEF KeyInitWrites, Goto
  <2> QED BY <1>4, <1>7, <2>1
<1>8. CASE t = s /\ Connect(s)
  <2>1. call'[s].pc = "ready" /\ call'[s].since = -1
    BY <1>1, <1>8 DEF Connect, Goto, Off
  <2> QED BY <1>5, <1>8, <2>1
<1>9. CASE t = s /\ Exit(s)
  <2>1. call'[s].pc = "off"
    BY <1>1, <1>9, OffFields DEF Exit, Goto
  <2> QED BY <1>4, <1>9, <2>1
<1>10. CASE t = s /\ Attest(s)
  <2>1. call' = call /\ entry' = entry
    BY <1>10 DEF Attest
  <2> QED BY <1>1, <1>10, <2>1 DEF DraftSound, Given, SaysTheSame
<1>11. CASE t = s /\ Compose(s)
  <2>1. PICK by \in Operators \union {None},
             v \in {NoVouch} \union {u.vouch : u \in tokens} :
          /\ call[s].pc = "ready" /\ (v # NoVouch => Presented(s, by, v))
          /\ Goto(s, [call[s] EXCEPT !.pc = "got", !.snap = entry[Me(s)],
               !.draft = Signed(s, [NoProfile EXCEPT !.by = by, !.vouch = v])])
    BY <1>11 DEF Compose
  <2> DEFINE x == Signed(s, [NoProfile EXCEPT !.by = by, !.vouch = v])
  <2>2. /\ x.key = call[s].signer /\ x.strict
        /\ x.by = by /\ x.vouch = v
    BY DEF Signed, NoProfile
  <2> HIDE DEF x
  <2>3. call'[s] = [call[s] EXCEPT !.pc = "got", !.snap = entry[Me(s)],
                                   !.draft = x]
    BY <1>1, <2>1 DEF Goto, x
  <2>4. /\ call'[s].pc = "got" /\ call'[s].who = Me(s) /\ call'[s].draft = x
        /\ call'[s].signer = call[s].signer /\ call'[s].since = -1
        /\ call'[s].snap = entry[Me(s)]
    BY <1>1, <1>2, <2>1, <2>3 DEF DraftSound, Call
  <2>5. call'[s].snap.rev # -1
    BY <1>2, <2>1, <2>4
  <2>6. x.vouch # NoVouch =>
          [operator |-> x.by, operated |-> Me(s), vouch |-> x.vouch] \in tokens'
    BY <1>1, <2>1, <2>2 DEF Presented
  <2> QED BY <1>11, <2>2, <2>4, <2>5, <2>6 DEF DraftSound, Given
<1>12. CASE t = s /\ Ensure(s)
  <2> DEFINE e == entry[Me(s)]
             x == Signed(s, e.doc)
  <2>1. /\ call[s].pc = "ready" /\ e.doc.strict
        /\ Goto(s, [call[s] EXCEPT !.pc = "draft", !.draft = x, !.since = e.rev])
        /\ UNCHANGED <<entry, tokens>>
    BY <1>12 DEF Ensure
  <2>2. e.doc \in Profile /\ e.rev \in Nat /\ DocumentSound(Me(s))
    BY <1>2, <2>1 DEF Entry
  <2>3. /\ x.key = call[s].signer /\ x.strict
        /\ x.by = e.doc.by /\ x.vouch = e.doc.vouch
    BY <2>1, <2>2 DEF Signed, Profile
  <2> HIDE DEF x
  <2>4. /\ call'[s].pc = "draft" /\ call'[s].who = Me(s) /\ call'[s].draft = x
        /\ call'[s].signer = call[s].signer /\ call'[s].since = e.rev
    BY <1>1, <1>2, <2>1 DEF Goto, Call
  <2>5. x.vouch # NoVouch =>
          [operator |-> x.by, operated |-> Me(s), vouch |-> x.vouch] \in tokens
    BY <2>2, <2>3 DEF DocumentSound, Given
  <2> QED BY <1>12, <2>1, <2>2, <2>3, <2>4, <2>5
          DEF DraftSound, Given, SaysTheSame
<1>13. CASE t = s /\ PublishGets(s)
  <2>1. /\ call[s].pc = "draft" /\ UNCHANGED <<entry, tokens>>
        /\ Goto(s, [call[s] EXCEPT !.pc = "got", !.snap = entry[Me(s)]])
    BY <1>13 DEF PublishGets
  <2>2. /\ call'[s].pc = "got" /\ call'[s].snap = entry[call[s].who]
        /\ call'[s].who = call[s].who /\ call'[s].draft = call[s].draft
        /\ call'[s].signer = call[s].signer /\ call'[s].since = call[s].since
    BY <1>1, <1>2, <2>1 DEF Goto, Call
  <2> QED BY <1>1, <1>13, <2>1, <2>2 DEF DraftSound, Given, SaysTheSame
<1>14. CASE t = s /\ PublishWrites(s)
  <2>1. call'[s].pc = "ready" /\ call'[s].since = -1
    BY <1>1, <1>14, ReadyFields DEF PublishWrites, Goto
  <2> QED BY <1>5, <1>14, <2>1
<1>15. CASE t = s /\ Rotate(s)
  <2>1. call'[s].pc = "rotating" /\ call'[s].snap.doc.strict
    BY <1>1, <1>15 DEF Rotate, Goto, Call
  <2> QED BY <1>15, <2>1 DEF DraftSound
<1>16. CASE t = s /\ (RotateWrites(s) \/ SetAside(s) \/ SaveNew(s))
  <2>1. call'[s] \in {[call[s] EXCEPT !.pc = "swap"],
                      [call[s] EXCEPT !.pc = "save"], Ready(s)}
    BY <1>1, <1>16 DEF RotateWrites, SetAside, SaveNew, Goto
  <2>2. \/ call'[s].pc \in {"swap", "save"}
        \/ call'[s].pc = "ready" /\ call'[s].since = -1
    BY <1>1, <2>1, ReadyFields DEF Call
  <2> QED BY <1>4, <1>5, <1>16, <2>2
<1> QED BY <1>3, <1>6, <1>7, <1>8, <1>9, <1>10, <1>11, <1>12, <1>13, <1>14,
           <1>15, <1>16 DEF SessionStep

LEMMA ExtensionHolds ==
  ASSUME NEW a \in Seq(Key), NEW b \in Seq(Key), Extends(a, b), NEW k,
         Holds(a, k)
  PROVE  Holds(b, k)
BY DEF Extends, Holds

(* The current key of a profile is in its chain.                           *)
LEMMA ChainHoldsKey ==
  ASSUME NEW d \in Profile, ChainValid(d), d.key # 0
  PROVE  Holds(Chain(d), d.key)
<1>1. CASE d.rotations = <<>>
  <2>1. Chain(d) = <<d.key>>
    BY <1>1 DEF Chain
  <2> QED BY <2>1 DEF Holds
<1>2. CASE d.rotations # <<>>
  <2>1. Len(d.rotations) \in Nat \ {0}
    BY <1>2 DEF Profile
  <2>2. /\ Len(Chain(d)) = Len(d.rotations) + 1
        /\ Chain(d)[Len(d.rotations) + 1] = d.rotations[Len(d.rotations)].to
    BY <1>2, <2>1, RotatedChain
  <2>3. d.rotations[Len(d.rotations)].to = d.key
    BY <1>2 DEF ChainValid
  <2> QED BY <2>1, <2>2, <2>3 DEF Holds
<1> QED BY <1>1, <1>2

LEMMA StillPublished ==
  ASSUME IInv, NEW s \in Sessions, SessionStep(s), NEW p \in Personas, NEW k,
         Holds(Published(p), k)
  PROVE  Holds(Published(p)', k)
<1>1. Extends(Published(p), Published(p)')
  BY Frame, SessionExtends
<1>2. Published(p) \in Seq(Key) /\ Published(p)' \in Seq(Key)
  <2>1. TypeOK /\ TypeOK'
    BY Frame
  <2>2. entry[p].doc \in Profile /\ entry'[p].doc \in Profile
    BY <2>1 DEF TypeOK
  <2> QED BY <2>2, ChainType DEF Published
<1> QED BY <1>1, <1>2, ExtensionHolds

LEMMA TokensStaySound ==
  ASSUME IInv, NEW s \in Sessions, SessionStep(s), TokensSound
  PROVE  TokensSound'
<1>1. TypeOK /\ EntriesSound
  BY Frame
<1>2. ASSUME NEW t \in tokens, t.vouch.operated_key # 0
      PROVE  Holds(Published(t.operated)', t.vouch.operated_key)
  <2>1. t.operated \in Personas
    BY <1>1 DEF TypeOK, Token
  <2> QED BY <1>2, <2>1, StillPublished DEF TokensSound
<1>3. CASE tokens' = tokens
  BY <1>2, <1>3 DEF TokensSound
<1>4. CASE Attest(s)
  <2>1. PICK q \in Personas :
          /\ tokens' = tokens \union {NewAttestationToken(s, q)}
          /\ entry' = entry
    BY <1>4 DEF Attest
  <2> DEFINE new == NewAttestationToken(s, q)
  <2>2. new.operated = q /\ new.vouch.operated_key = entry[q].doc.key
    BY DEF NewAttestationToken
  <2> HIDE DEF new
  <2>3. entry[q].doc \in Profile /\ ChainValid(entry[q].doc)
    BY <1>1, EntryTypes DEF EntriesSound
  <2>4. entry[q].doc.key # 0 => Holds(Published(q), entry[q].doc.key)
    BY <2>3, ChainHoldsKey DEF Published
  <2>5. Published(q)' = Published(q)
    BY <2>1 DEF Published
  <2>6. tokens' = tokens \union {new}
    BY <2>1 DEF new
  <2> QED BY <1>2, <2>2, <2>4, <2>5, <2>6 DEF TokensSound
<1>5. tokens' = tokens \/ Attest(s)
  BY DEF SessionStep, KeyInit, KeyInitWrites, Connect, Exit, Compose, Ensure,
         PublishGets, PublishWrites, Rotate, RotateWrites, SetAside, SaveNew
<1> QED BY <1>3, <1>4, <1>5

(* What lands is strict, and its revision is not 0.                        *)
LEMMA DocumentsStaySound ==
  ASSUME IInv, NEW s \in Sessions, SessionStep(s), DraftSound(s),
         NEW p \in Personas, DocumentSound(p)
  PROVE  /\ DocumentSound(p)'
         /\ entry'[p] # entry[p] => entry'[p].rev > 0 /\ entry'[p].doc.strict
<1>1. /\ TypeOK /\ CallSound(s) /\ call[s] \in Call /\ tokens \subseteq tokens'
      /\ entry \in [Personas -> Entry] /\ entry[p].rev \in Nat
      /\ Me(s) = call[s].who
  BY Frame, TokensGrow, EntryMoves DEF TypeOK, Entry, Me
<1>2. CASE entry'[p] = entry[p]
  BY <1>1, <1>2 DEF DocumentSound, Given
<1>3. CASE entry'[p] # entry[p] /\ Publishes(s)
  <2>1. /\ p = Me(s) /\ call[s].pc = "got"
        /\ entry'[p].doc = Merge(call[s]) /\ entry'[p].rev = entry[p].rev + 1
    BY <1>1, <1>3 DEF Publishes, Landed, Write
  <2>2. /\ SaysTheSame(Merge(call[s]), call[s].draft)
        /\ Merge(call[s]).strict = call[s].draft.strict
    BY <1>1, MergeKeeps DEF CallSound
  <2>3. call[s].draft.strict /\ Given(p, call[s].draft)
    BY <1>1, <2>1 DEF DraftSound
  <2> QED BY <1>1, <2>1, <2>2, <2>3 DEF DocumentSound, Given, SaysTheSame
<1>4. CASE entry'[p] # entry[p] /\ Rotates(s)
  <2>1. /\ p = Me(s) /\ call[s].pc = "rotating"
        /\ call[s].snap.doc = entry[p].doc
        /\ entry'[p].doc = Endorsed(call[s]) /\ entry'[p].rev = entry[p].rev + 1
    BY <1>1, <1>4 DEF Rotates, Landed, Write
  <2>2. /\ SaysTheSame(Endorsed(call[s]), entry[p].doc)
        /\ Endorsed(call[s]).strict = call[s].snap.doc.strict
    BY <1>1, <2>1, EndorsedKeeps DEF CallSound
  <2>3. call[s].snap.doc.strict
    BY <2>1 DEF DraftSound
  <2> QED BY <1>1, <2>1, <2>2, <2>3 DEF DocumentSound, Given, SaysTheSame
<1> QED BY <1>2, <1>3, <1>4, SessionWrites

(***************************************************************************)
(* Claims                                                                  *)
(***************************************************************************)

(* A key enters a chain that is there already only from a rotation.        *)
LEMMA NewlyPublished ==
  ASSUME IInv, NEW s \in Sessions, SessionStep(s), NEW p \in Personas,
         NEW k \in Key, Holds(Published(p)', k), Published(p) # <<>>
  PROVE  Holds(Published(p), k) \/ (k = call[s].held /\ k # 0)
<1>1. /\ CallSound(s) /\ call[s] \in Call /\ Me(s) = call[s].who
      /\ entry \in [Personas -> Entry]
  BY Frame DEF TypeOK, Entry, Me
<1>2. CASE entry'[p] = entry[p]
  BY <1>2 DEF Published
<1>3. CASE entry'[p] # entry[p] /\ Publishes(s)
  <2>1. entry'[p].doc = Merge(call[s]) /\ call[s].snap.doc = entry[p].doc
    BY <1>1, <1>3 DEF Publishes, Landed, Write
  <2>2. entry[p].doc.key # 0
    BY DEF Published, Chain
  <2>3. Published(p)' = Published(p)
    BY <1>1, <2>1, <2>2, MergeKeeps DEF CallSound, Published
  <2> QED BY <2>3
<1>4. CASE entry'[p] # entry[p] /\ Rotates(s)
  <2>1. /\ entry'[p].doc = Endorsed(call[s]) /\ call[s].snap.doc = entry[p].doc
        /\ call[s].pc = "rotating"
    BY <1>1, <1>4 DEF Rotates, Landed, Write
  <2>2. call[s].held # 0
    BY <1>1, <2>1 DEF CallSound
  <2>3. k = call[s].held \/ Holds(Chain(call[s].snap.doc), k)
    BY <1>1, <2>1, EndorsedKeeps DEF CallSound, Published
  <2> QED BY <2>1, <2>2, <2>3 DEF Published
<1> QED BY <1>2, <1>3, <1>4, SessionWrites

LEMMA ClaimTypes ==
  ASSUME TypeOK, NEW r \in Readers
  PROVE  /\ reader[r] \in Reader
         /\ reader[r].profile \in Profile /\ reader[r].profile.vouch \in Vouch
         /\ reader[r].profile.vouch.sig \in Key
         /\ reader[r].shown # None => reader[r].shown \in Personas
         /\ reader[r].profile.by # None => reader[r].profile.by \in Personas
         /\ \A p \in Personas : reader[r].pinned[p] \in Seq(Key)
<1>1. reader[r] \in Reader
  BY DEF TypeOK
<1>2. reader[r].profile \in Profile
  BY <1>1 DEF Reader
<1>3. reader[r].profile.vouch \in Vouch
  BY <1>2 DEF Profile
<1> QED BY <1>1, <1>2, <1>3 DEF Reader, Profile, Vouch

LEMMA ClaimsStaySound ==
  ASSUME IInv, Honest, NEW s \in Sessions, SessionStep(s), NEW r \in Readers
  PROVE  ClaimSound(r)'
<1> DEFINE x == reader[r]
           d == x.profile
<1>1. /\ TypeOK /\ reader' = reader /\ tokens \subseteq tokens'
      /\ ClaimSound(r) /\ KeysFresh /\ ReadersSound
  BY Frame, TokensGrow DEF Honest, IInv
<1>2. /\ d.vouch.sig \in Key
      /\ x.shown # None => x.shown \in Personas
      /\ d.by # None => d.by \in Personas
      /\ \A p \in Personas : x.pinned[p] \in Seq(Key)
  BY <1>1, ClaimTypes
<1>3. ASSUME x.stage # "off", x.shown # None
      PROVE  /\ entry'[x.shown].rev > 0 /\ entry'[x.shown].doc.strict
             /\ Given(x.shown, d)'
  <2>1. PICK p \in Personas : p = x.shown
    BY <1>2, <1>3
  <2>2. entry[p].rev > 0 /\ entry[p].doc.strict
    BY <1>1, <1>3, <2>1 DEF ClaimSound
  <2>3. DraftSound(s) /\ DocumentSound(p)
    BY DEF Honest
  <2>4. entry'[p] # entry[p] => entry'[p].rev > 0 /\ entry'[p].doc.strict
    BY <2>3, DocumentsStaySound
  <2>5. entry'[p].rev > 0 /\ entry'[p].doc.strict
    BY <2>2, <2>4
  <2> QED BY <1>1, <1>3, <2>1, <2>5 DEF ClaimSound, Given
<1>4. ASSUME x.stage \in {"listing", "reading"}, x.shown # None, d.by # None,
             x.pinned[d.by] # <<>>, Holds(Published(d.by)', d.vouch.sig)
      PROVE  Holds(Published(d.by), d.vouch.sig)
  <2>1. PICK p \in Personas : p = d.by
    BY <1>2, <1>4
  <2>2. PICK k \in Key : k = d.vouch.sig
    BY <1>2
  <2>3. Published(p) # <<>>
    <3>1. Extends(x.pinned[p], Published(p)) /\ x.pinned[p] \in Seq(Key)
      BY <1>1, <1>2 DEF ReadersSound
    <3>2. Published(p) \in Seq(Key)
      BY <1>1, EntryTypes
    <3> QED BY <1>4, <2>1, <3>1, <3>2 DEF Extends
  <2>4. k # call[s].held \/ k = 0
    <3>1. CASE d.vouch = NoVouch
      BY <2>2, <3>1 DEF NoVouch
    <3>2. CASE d.vouch # NoVouch
      <4>1. \E t \in tokens : t.vouch = d.vouch
        BY <1>1, <1>4, <3>2 DEF ClaimSound, Given
      <4>2. call[s].held # 0 => \A t \in tokens : t.vouch.sig # call[s].held
        BY <1>1 DEF KeysFresh, Unused
      <4> QED BY <2>2, <4>1, <4>2
    <3> QED BY <3>1, <3>2
  <2>5. Holds(Published(p)', k)
    BY <1>1, <1>4, <2>1, <2>2 DEF Published
  <2>6. Holds(Published(p), k)
    BY <2>3, <2>4, <2>5, NewlyPublished
  <2> QED BY <2>1, <2>2, <2>6
<1> QED BY <1>1, <1>3, <1>4 DEF ClaimSound, Published

(* What a reader makes of a profile it takes: no chain, or the published   *)
(* one - which a strict document's always is.                              *)
LEMMA TakenChain ==
  ASSUME IInv, NEW r \in Readers, NEW p \in Personas, DocumentSound(p),
         NEW pin \in Seq(Key), Extends(pin, Published(p)),
         NEW new, new = IF entry[p].rev = 0 \/ ~entry[p].doc.strict THEN pin
                        ELSE Repinned(entry[p].doc, pin)
  PROVE  /\ new = <<>> \/ new = Published(p)
         /\ entry[p].rev > 0 /\ entry[p].doc.strict => new = Published(p)
<1>1. /\ entry[p] \in Entry /\ entry[p].doc \in Profile
      /\ Published(p) \in Seq(Key) /\ ChainValid(entry[p].doc)
  BY EntryTypes DEF IInv, EntriesSound
<1>2. CASE entry[p].doc.key = 0
  <2>1. Published(p) = <<>>
    BY <1>2 DEF Published, Chain
  <2>2. pin = <<>>
    BY <2>1 DEF Extends
  <2>3. new = pin
    BY <1>2 DEF Repinned
  <2> QED BY <2>1, <2>2, <2>3
<1>3. CASE entry[p].doc.key # 0 /\ entry[p].rev # 0 /\ entry[p].doc.strict
  BY <1>1, <1>3 DEF Repinned, Trusted, Published
<1>4. CASE entry[p].doc.key # 0 /\ ~entry[p].doc.strict
  <2>1. new = pin /\ Published(p) = <<entry[p].doc.key>>
    BY <1>4 DEF DocumentSound, Published, Chain
  <2>2. pin = <<>> \/ pin = <<entry[p].doc.key>>
    BY <2>1 DEF Extends
  <2> QED BY <1>4, <2>1, <2>2
<1> QED BY <1>1, <1>2, <1>3, <1>4 DEF DocumentSound, Entry

LEMMA ReadsStaySound ==
  ASSUME IInv, Honest, NEW r \in Readers, ReaderStep(r)
  PROVE  ClaimSound(r)'
<1> DEFINE x == reader[r]
           d == x.profile
           y == reader'[r]
<1>1. /\ TypeOK /\ ClaimSound(r) /\ ReadersSound /\ TokensSound
      /\ \A p \in Personas : DocumentSound(p)
      /\ reader \in [Readers -> Reader] /\ x \in Reader
  BY DEF Honest, IInv, TypeOK
<1>2. UNCHANGED <<entry, tokens>>
  BY DEF ReaderStep, Begin, LoadPins, ReadProfile, SavePins, NoKeyring, Close
<1>3. \A p \in Personas : Published(p)' = Published(p)
  BY <1>2 DEF Published
<1>4. /\ x.shown # None => x.shown \in Personas
      /\ d.by # None => d.by \in Personas
      /\ \A p \in Personas : x.pinned[p] \in Seq(Key)
      /\ x.left \subseteq Personas /\ x.pinned \in [Personas -> Seq(Key)]
  BY <1>1, ClaimTypes DEF Reader
<1>5. CASE Begin(r)
  <2>1. PICK p \in Personas \union {None} :
          /\ p # None => entry[p].rev > 0 /\ entry[p].doc.strict
          /\ y = [NotReading EXCEPT
               !.stage = IF p = None \/ entry[p].doc.by # None
                         THEN "pins" ELSE "reading",
               !.shown = p,
               !.profile = IF p = None THEN NoProfile ELSE entry[p].doc]
    BY <1>1, <1>5 DEF Begin, Turn
  <2>2. /\ y.shown = p /\ y.left = {} /\ y.stage \in {"pins", "reading"}
        /\ y.profile = IF p = None THEN NoProfile ELSE entry[p].doc
        /\ y.stage = "reading" /\ p # None => entry[p].doc.by = None
    BY <2>1 DEF NotReading
  <2>3. p # None => Given(p, entry[p].doc)
    BY <1>1 DEF DocumentSound
  <2> HIDE DEF y
  <2>4. p # None => Given(y.shown, y.profile)
    BY <2>2, <2>3
  <2> QED BY <1>2, <2>1, <2>2, <2>4 DEF ClaimSound, Given, y
<1>6. CASE LoadPins(r)
  <2>1. x.stage = "pins" /\ y = [x EXCEPT !.stage = "listing", !.left = Personas,
                                          !.pinned = pins]
    BY <1>1, <1>6 DEF LoadPins, Turn
  <2>2. /\ y.stage = "listing" /\ y.left = Personas
        /\ y.shown = x.shown /\ y.profile = d
    BY <1>1, <2>1 DEF Reader
  <2> QED BY <1>1, <1>2, <1>4, <2>1, <2>2 DEF ClaimSound, Given
<1>7. CASE ReadProfile(r)
  <2>1. PICK p \in x.left :
          /\ x.stage = "listing"
          /\ y = [x EXCEPT
               !.left = @ \ {p},
               !.pinned[p] = IF entry[p].rev = 0 \/ ~entry[p].doc.strict
                             THEN x.pinned[p]
                             ELSE Repinned(entry[p].doc, x.pinned[p]),
               !.bad = IF /\ ~(entry[p].rev = 0 \/ ~entry[p].doc.strict)
                          /\ ~Trusted(entry[p].doc, x.pinned[p])
                       THEN @ \union {p} ELSE @]
    BY <1>1, <1>7 DEF ReadProfile, Turn
  <2>2. PICK new : new = IF entry[p].rev = 0 \/ ~entry[p].doc.strict
                         THEN x.pinned[p]
                         ELSE Repinned(entry[p].doc, x.pinned[p])
    OBVIOUS
  <2>3. p \in Personas /\ Extends(x.pinned[p], Published(p))
    BY <1>1, <1>4 DEF ReadersSound
  <2>4. /\ new = <<>> \/ new = Published(p)
        /\ entry[p].rev > 0 /\ entry[p].doc.strict => new = Published(p)
    <3>1. PICK pin \in Seq(Key) : pin = x.pinned[p]
      BY <1>4, <2>3
    <3> QED BY <1>1, <2>2, <2>3, <3>1, TakenChain
  <2>5. /\ y.stage = "listing" /\ y.shown = x.shown /\ y.profile = d
        /\ y.left = x.left \ {p} /\ y.pinned[p] = new
        /\ \A q \in Personas \ {p} : y.pinned[q] = x.pinned[q]
    BY <1>1, <1>4, <2>1, <2>2, <2>3 DEF Reader
  <2>6. ASSUME x.shown # None
        PROVE  /\ entry[x.shown].rev > 0 /\ entry[x.shown].doc.strict
               /\ Given(x.shown, d)
    BY <1>1, <2>1, <2>6 DEF ClaimSound
  <2>7. ASSUME x.shown # None, d.vouch.operated_key # 0
        PROVE  Holds(Published(x.shown), d.vouch.operated_key)
    <3>1. PICK t \in tokens : t.operated = x.shown /\ t.vouch = d.vouch
      BY <2>6, <2>7 DEF Given, NoVouch
    <3> QED BY <1>1, <2>7, <3>1 DEF TokensSound
  <2>8. ASSUME x.shown # None, d.by # None, d.by \notin y.left,
               y.pinned[d.by] # <<>>, Holds(Published(d.by), d.vouch.sig)
        PROVE  Holds(y.pinned[d.by], d.vouch.sig)
    BY <1>1, <1>4, <2>1, <2>4, <2>5, <2>8 DEF ClaimSound
  <2>9. ASSUME x.shown # None, d.by # None, x.shown \notin y.left,
               d.vouch.operated_key # 0
        PROVE  Holds(y.pinned[x.shown], d.vouch.operated_key)
    BY <1>1, <1>4, <2>1, <2>4, <2>5, <2>6, <2>7, <2>9 DEF ClaimSound
  <2> HIDE DEF y
  <2> QED BY <1>2, <1>3, <1>4, <2>5, <2>6, <2>8, <2>9 DEF ClaimSound, Given, y
<1>8. CASE SavePins(r)
  <2>1. /\ x.stage = "listing" /\ x.left = {} /\ y = [x EXCEPT !.stage = "reading"]
    BY <1>1, <1>8 DEF SavePins, Turn
  <2>2. /\ y.stage = "reading" /\ y.left = {} /\ y.pinned = x.pinned
        /\ y.shown = x.shown /\ y.profile = d
    BY <1>1, <2>1 DEF Reader
  <2> QED BY <1>1, <1>2, <1>3, <1>4, <2>1, <2>2 DEF ClaimSound, Given
<1>9. CASE NoKeyring(r)
  <2>1. /\ x.stage = "listing"
        /\ y = [NotReading EXCEPT !.stage = "reading", !.shown = x.shown,
                                  !.profile = d]
    BY <1>1, <1>9 DEF NoKeyring, Turn
  <2>2. /\ y.stage = "reading" /\ y.left = {}
        /\ \A p \in Personas : y.pinned[p] = <<>>
        /\ y.shown = x.shown /\ y.profile = d
    BY <2>1 DEF NotReading
  <2> QED BY <1>1, <1>2, <1>4, <2>1, <2>2 DEF ClaimSound, Given
<1>10. CASE Close(r)
  <2>1. y = NotReading
    BY <1>1, <1>10 DEF Close, Turn
  <2> QED BY <2>1 DEF ClaimSound, NotReading
<1> QED BY <1>5, <1>6, <1>7, <1>8, <1>9, <1>10 DEF ReaderStep

(***************************************************************************)
(* The theorems                                                            *)
(***************************************************************************)

LEMMA InitHonest == Init => Honest
<1> SUFFICES ASSUME Init PROVE Honest
  OBVIOUS
<1>1. PICK old \in SUBSET Legacy, known \in BOOLEAN :
        /\ Cardinality(old) <= 1
        /\ entry = [p \in Personas |->
             IF p \in old THEN [rev |-> 1, doc |-> OldProfile]
                          ELSE [rev |-> 0, doc |-> NoProfile]]
        /\ seed = [p \in Personas |-> IF p \in old THEN 1 ELSE 0]
        /\ minted = Cardinality(old)
        /\ prev = [p \in Personas |-> 0]
        /\ tokens = {}
        /\ call = [s \in Sessions |-> Off]
        /\ reader = [r \in Readers |-> NotReading]
  BY DEF Init
<1>2. /\ IsFiniteSet(old) /\ Cardinality(old) \in Nat
      /\ old # {} => Cardinality(old) = 1
  <2>1. IsFiniteSet(old)
    BY DirectoryAssumption, FS_Subset
  <2>2. Cardinality(old) \in Nat /\ (old # {} => Cardinality(old) # 0)
    BY <2>1, FS_CardinalityType, FS_EmptySet
  <2> QED BY <1>1, <2>1, <2>2
<1>3. KeysFresh
  <2>1. ASSUME NEW k \in Key, minted < k
        PROVE  Unused(k)
    <3>1. k # 0 /\ (old # {} => k # 1)
      BY <1>1, <1>2, <2>1, SmallTypes
    <3> QED BY <1>1, <3>1, OffFields DEF Unused
  <2>2. \A s \in Sessions : call[s].held = 0 /\ call[s].pc = "off"
    BY <1>1, OffFields
  <2> QED BY <1>1, <1>2, <2>1, <2>2 DEF KeysFresh, Holding
<1>4. ASSUME NEW p \in Personas
      PROVE  Custody(p) /\ DocumentSound(p)
  <2>1. /\ entry[p].doc \in {OldProfile, NoProfile}
        /\ entry[p].doc.key = seed[p] /\ (entry[p].rev = 0 => seed[p] = 0)
    BY <1>1 DEF OldProfile, NoProfile
  <2>2. entry[p].doc.rotations = <<>> /\ entry[p].doc.vouch = NoVouch
    <3>1. /\ OldProfile.rotations = <<>> /\ OldProfile.vouch = NoVouch
          /\ NoProfile.rotations = <<>> /\ NoProfile.vouch = NoVouch
      BY DEF OldProfile, NoProfile
    <3> QED BY <2>1, <3>1
  <2>3. \A s \in Sessions : call[s].signer = 0 /\ ~Swapping(s, p)
    BY <1>1, OffFields DEF Swapping
  <2> QED BY <2>1, <2>2, <2>3 DEF Custody, DocumentSound, Given
<1>5. \A s \in Sessions : DraftSound(s)
  BY <1>1, OffFields DEF DraftSound
<1>6. TokensSound
  BY <1>1 DEF TokensSound
<1>7. \A r \in Readers : ClaimSound(r)
  BY <1>1 DEF ClaimSound, NotReading
<1> QED BY <1>3, <1>4, <1>5, <1>6, <1>7 DEF Honest

LEMMA SessionHonest ==
  ASSUME IInv, Honest, NEW s \in Sessions, SessionStep(s)
  PROVE  Honest'
<1>1. KeysFresh'
  BY KeysStayFresh DEF Honest
<1>2. ASSUME NEW p \in Personas \ hurt'
      PROVE  Custody(p)'
  <2>1. hurt \subseteq hurt'
    BY DEF SessionStep, KeyInit, KeyInitWrites, Connect, Exit, Attest, Compose,
           Ensure, PublishGets, PublishWrites, Rotate, RotateWrites, SetAside,
           SaveNew, files
  <2>2. p \in Personas /\ p \notin hurt' /\ Custody(p)
    BY <2>1 DEF Honest
  <2> QED BY <2>2, CustodyStays DEF Honest
<1>3. \A t \in Sessions : DraftSound(t)'
  BY DraftsStaySound DEF Honest
<1>4. TokensSound'
  BY TokensStaySound DEF Honest
<1>5. \A p \in Personas : DocumentSound(p)'
  BY DocumentsStaySound DEF Honest
<1>6. \A r \in Readers : ClaimSound(r)'
  BY ClaimsStaySound
<1> QED BY <1>1, <1>2, <1>3, <1>4, <1>5, <1>6 DEF Honest

LEMMA StutterHonest ==
  ASSUME Honest, UNCHANGED <<entry, seed, prev, minted, tokens, call, hurt>>,
         \A r \in Readers : ClaimSound(r)'
  PROVE  Honest'
<1>1. \A k : Unused(k) => Unused(k)'
  BY DEF Unused
<1>2. KeysFresh'
  BY <1>1 DEF Honest, KeysFresh, Unused
<1>3. \A p \in Personas \ hurt' : Custody(p)'
  BY DEF Honest, Custody, Swapping
<1>4. /\ \A s \in Sessions : DraftSound(s)'
      /\ \A p \in Personas : DocumentSound(p)'
  BY DEF Honest, DraftSound, DocumentSound, Given, SaysTheSame
<1>5. TokensSound'
  BY DEF Honest, TokensSound, Published
<1> QED BY <1>2, <1>3, <1>4, <1>5 DEF Honest

LEMMA ReaderHonest ==
  ASSUME IInv, Honest, NEW r \in Readers, ReaderStep(r)
  PROVE  Honest'
<1>1. /\ UNCHANGED <<entry, seed, prev, minted, tokens, call, hurt>>
      /\ \A q \in Readers \ {r} : reader'[q] = reader[q]
  BY DEF ReaderStep, Begin, LoadPins, ReadProfile, SavePins, NoKeyring, Close,
         files, Turn, IInv, TypeOK
<1>2. ASSUME NEW q \in Readers \ {r}
      PROVE  ClaimSound(q)'
  <2>1. ClaimSound(q) /\ reader'[q] = reader[q]
    BY <1>1 DEF Honest
  <2> QED BY <1>1, <2>1 DEF ClaimSound, Given, Published
<1> QED BY <1>1, <1>2, ReadsStaySound, StutterHonest

LEMMA NextHonest == IInv /\ Honest /\ [Next]_vars => Honest'
<1> SUFFICES ASSUME IInv, Honest, [Next]_vars PROVE Honest'
  OBVIOUS
<1>1. CASE UNCHANGED vars
  <2>1. \A r \in Readers : ClaimSound(r)'
    BY <1>1 DEF vars, Honest, ClaimSound, Given, Published
  <2> QED BY <1>1, <2>1, StutterHonest DEF vars
<1>2. CASE Next
  BY <1>2, SessionHonest, ReaderHonest DEF Next
<1> QED BY <1>1, <1>2

(* Keys, drafts, documents, tokens and the readers' claims stay in order   *)
(* whatever processes do, in any order and with any faults.                *)
THEOREM RealmIsHonest == Spec => [](IInv /\ Honest)
<1>1. Init => IInv /\ Honest
  BY InitInvariant, InitHonest
<1>2. IInv /\ Honest /\ [Next]_vars => (IInv /\ Honest)'
  BY NextInvariant, NextHonest
<1> QED BY <1>1, <1>2, PTL DEF Spec

(* A published key is never without its seed: keyRotate and ReplaceKey     *)
(* leave it in the file, or in the hands of the one rotation that swaps    *)
(* it in, whichever processes of the persona run beside it.                *)
THEOREM SeedIsHeld == Spec => []SeedHeld
<1>1. IInv /\ Honest => SeedHeld
  <2> SUFFICES ASSUME Honest, NEW p \in Personas \ hurt, entry[p].doc.key # 0
               PROVE  \/ entry[p].doc.key \in {seed[p], prev[p]}
                      \/ \E s \in Sessions : /\ Me(s) = p
                                             /\ call[s].pc \in {"swap", "save"}
                                             /\ call[s].held = entry[p].doc.key
    BY DEF SeedHeld
  <2> QED BY DEF Honest, Custody, Swapping, Me
<1> QED BY <1>1, RealmIsHonest, PTL

(* An honest vouch never reads as failed: the operator's key it was made   *)
(* with and the operated persona's key it names are both in the chains     *)
(* AttestationStatus judges it with, or there is no chain to judge by.     *)
THEOREM VouchesAreUpheld == Spec => []VouchesStand
<1>1. IInv /\ Honest => VouchesStand
  <2> SUFFICES ASSUME IInv, Honest, NEW r \in Readers,
                      reader[r].stage = "reading", reader[r].shown # None,
                      reader[r].profile.by # None,
                      Holds(Published(reader[r].profile.by),
                            reader[r].profile.vouch.sig)
               PROVE  ClaimStatus(r) # "failed"
    BY DEF VouchesStand
  <2> DEFINE x == reader[r]
             d == x.profile
  <2>1. ClaimSound(r) /\ x.bad = {}
    BY DEF Honest, IInv, ReadersSound
  <2>2. \A p \in Personas \union {None} : ChainFor(r, p) = x.pinned[p]
    BY <2>1 DEF ChainFor
  <2>3. /\ d.by \in Personas /\ x.shown \in Personas
    BY ClaimTypes DEF IInv
  <2>4. x.left = {}
    BY <2>1 DEF ClaimSound
  <2>5. x.pinned[d.by] # <<>> =>
          /\ Holds(x.pinned[d.by], d.vouch.sig)
          /\ d.vouch.operated_key # 0 =>
               Holds(x.pinned[x.shown], d.vouch.operated_key)
    BY <2>1, <2>4 DEF ClaimSound
  <2> QED BY <2>1, <2>2, <2>3, <2>5 DEF ClaimStatus
<1> QED BY <1>1, RealmIsHonest, PTL

(* EnsureSigningKey changes nothing of what a profile says but the key,    *)
(* whatever others publish, unless one comes between its own two reads.    *)
THEOREM EnsureAddsOnlyTheKey == Spec => EnsureOnlyAddsTheKey
<1>1. IInv /\ Honest /\ [Next]_vars =>
        [\A s \in Sessions :
           /\ call[s].pc = "got" /\ entry'[Me(s)] # entry[Me(s)]
           /\ call[s].since = call[s].snap.rev /\ call'[s] # call[s]
           => LET old == entry[Me(s)].doc
                  new == entry'[Me(s)].doc
              IN  new.by = old.by /\ new.vouch = old.vouch]_vars
  <2> SUFFICES ASSUME IInv, Honest, Next, NEW s \in Sessions,
                      call[s].pc = "got", entry'[Me(s)] # entry[Me(s)],
                      call[s].since = call[s].snap.rev, call'[s] # call[s]
               PROVE  SaysTheSame(entry'[Me(s)].doc, entry[Me(s)].doc)
    BY DEF SaysTheSame
  <2>1. SessionStep(s)
    <3>1. CASE \E r \in Readers : ReaderStep(r)
      BY <3>1 DEF ReaderStep, Begin, LoadPins, ReadProfile, SavePins,
                  NoKeyring, Close
    <3>2. ASSUME NEW t \in Sessions, SessionStep(t), t # s
          PROVE  FALSE
      BY <3>2, Frame
    <3> QED BY <3>1, <3>2 DEF Next
  <2>2. Publishes(s)
    BY <2>1, SessionWrites DEF Rotates
  <2>3. /\ CallSound(s) /\ call[s] \in Call /\ entry \in [Personas -> Entry]
        /\ DraftSound(s)
    BY <2>1, Frame DEF Honest, TypeOK, Entry
  <2>4. /\ entry'[Me(s)].doc = Merge(call[s])
        /\ call[s].snap.doc = entry[Me(s)].doc
    BY <2>2, <2>3 DEF Publishes, Landed, Write
  <2>5. SaysTheSame(call[s].draft, call[s].snap.doc)
    BY <2>3 DEF DraftSound
  <2>6. SaysTheSame(Merge(call[s]), call[s].draft)
    BY <2>3, MergeKeeps DEF CallSound
  <2> QED BY <2>4, <2>5, <2>6 DEF SaysTheSame
<1> QED BY <1>1, RealmIsHonest, PTL DEF Spec, EnsureOnlyAddsTheKey
=============================================================================
