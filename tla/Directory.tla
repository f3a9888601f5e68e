------------------------------ MODULE Directory ------------------------------
(***************************************************************************)
(* The persona directory and the key files around it: how a persona's      *)
(* signing key is made, published, rotated and vouched for (registry/,     *)
(* internal/cli/key.go, profile.go, mcpserver/tools.go), where the seed    *)
(* and the pins are kept (internal/keystore), and how a reader turns       *)
(* profiles and pins into the keyring it verifies with.                    *)
(*                                                                         *)
(* Keys are numbers, 0 for none.  A signature is the key that made it, so  *)
(* a rotation's proof always verifies: only Rotate writes one.             *)
(***************************************************************************)
EXTENDS Integers, Sequences, FiniteSets

CONSTANTS
  Personas,   (* The personas, each with one machine: a seed file.          *)
  None,       (* No persona: of no operator, or nobody shown.               *)
  Operators,  (* The personas that operate others.                          *)
  Sessions,   (* Processes of personas: a CLI command, an adapter. Each     *)
              (* runs for one persona at a time.                            *)
  Readers,    (* The processes that read on one machine: they share a       *)
              (* pins file.                                                 *)
  Legacy,     (* The personas whose stored document may be out of date.     *)
  Scenarios,  (* What may happen in a realm: that personas "operate" others *)
              (* and vouch for them; that readers "read"; that processes    *)
              (* "fail": they die, lose answers and cannot write files.     *)
              (* "alone" bounds a realm to one process beside the readers.  *)
  MaxKeys,    (* Bound: keys ever generated.                                *)
  MaxWrites   (* Bound: writes of one directory entry.                      *)

ASSUME DirectoryAssumption ==
  /\ None \notin Personas /\ IsFiniteSet(Personas)
  /\ Operators \subseteq Personas
  /\ Legacy \subseteq Personas
  /\ Scenarios \subseteq SUBSET {"operate", "read", "fail", "alone"}
  /\ MaxKeys \in Nat
  /\ MaxWrites \in Nat

VARIABLES
  scene,   (* The scenario of this realm.                                  *)
  entry,   (* The directory: a revision, 0 for no entry, and a document.   *)
  seed,    (* Each persona's seed file, 0 when there is none.              *)
  prev,    (* The seed kept beside it at .prev.                            *)
  minted,  (* How many keys were generated.                                *)
  tokens,  (* The attestation tokens signed so far.                        *)
  call,    (* Each session: the call it is in and what it holds.           *)
  pins,    (* The readers' pins file.                                      *)
  reader,  (* Each reader: the profile it shows and its keyring so far.    *)
  hurt     (* History: the personas whose key files met a fault, or a      *)
           (* `key init` beside a key already in use.                      *)

vars == <<scene, entry, seed, prev, minted, tokens, call, pins, reader, hurt>>

Key == 0 .. MaxKeys

(* A vouch: the key the operator saw, and the key it signed with.          *)
Vouch  == [operated_key : Key, sig : Key]
NoVouch == [operated_key |-> 0, sig |-> 0]

Rotation == [from : Key, to : Key]
Token    == [operator : Personas, operated : Personas, vouch : Vouch]

Profile == [key : Key, rotations : Seq(Rotation),
            by : Personas \union {None}, vouch : Vouch, strict : BOOLEAN]
NoProfile == [key |-> 0, rotations |-> <<>>, by |-> None, vouch |-> NoVouch,
              strict |-> TRUE]

(***************************************************************************)
(* Chains and keyrings                                                     *)
(***************************************************************************)

(* registry.Chain: oldest key first, current key last.                     *)
Chain(d) ==
  IF d.key = 0 THEN <<>>
  ELSE IF d.rotations = <<>> THEN <<d.key>>
  ELSE <<d.rotations[1].from>>
       \o [i \in 1 .. Len(d.rotations) |-> d.rotations[i].to]

(* The errors of registry.Chain: a gap, or an end other than the key.      *)
ChainValid(d) ==
  d.key # 0 /\ d.rotations # <<>> =>
    /\ \A i \in 2 .. Len(d.rotations) :
         d.rotations[i].from = d.rotations[i - 1].to
    /\ d.rotations[Len(d.rotations)].to = d.key

(* isPrefix: the pin is a prefix of the chain.                             *)
Extends(pin, chain) ==
  Len(pin) <= Len(chain) /\ \A i \in 1 .. Len(pin) : pin[i] = chain[i]

Holds(chain, k) == \E i \in 1 .. Len(chain) : chain[i] = k

(* WRONG: a chain that grew since it was pinned is taken for another one.  *)
Trusted_Wrong(d, pin) == ChainValid(d) /\ (pin = <<>> \/ pin = Chain(d))
(* BuildKeyring for one profile: whether it is trusted on top of the pin.  *)
Trusted(d, pin) == ChainValid(d) /\ Extends(pin, Chain(d))
Repinned(d, pin) == IF Trusted(d, pin) /\ d.key # 0 THEN Chain(d) ELSE pin

(* Keyring.ChainFor: the chain of p in reader r's keyring.                 *)
ChainFor(r, p) == IF p \in reader[r].bad THEN <<>> ELSE reader[r].pinned[p]

(* VerifyRecord: the status of a message of p signed with k.               *)
SigStatus(r, p, k) ==
  IF p \in reader[r].bad THEN "failed"
  ELSE IF ChainFor(r, p) = <<>> THEN "unknown-key"
  ELSE IF Holds(ChainFor(r, p), k) THEN "verified" ELSE "failed"

(* WRONG: only the operator's current key vouches.                         *)
ClaimStatus_Wrong(r) ==
  LET d  == reader[r].profile
      of == ChainFor(r, d.by)
  IN  IF d.vouch = NoVouch \/ of = <<>> THEN "unverified"
      ELSE IF d.vouch.sig = of[Len(of)] THEN "attested" ELSE "failed"

(* AttestationStatus of the profile reader r shows.                        *)
ClaimStatus(r) ==
  LET d  == reader[r].profile
      of == ChainFor(r, d.by)
  IN  IF d.vouch = NoVouch THEN "unverified"
      ELSE IF d.by \in reader[r].bad THEN "failed"
      ELSE IF of = <<>> THEN "unverified"
      ELSE IF \/ /\ d.vouch.operated_key # 0
                 /\ ~Holds(ChainFor(r, reader[r].shown), d.vouch.operated_key)
              \/ ~Holds(of, d.vouch.sig) THEN "failed"
      ELSE "attested"

(* pinState: whether `profile show` cries substitution.                    *)
Alarm(r) ==
  /\ reader[r].shown # None
  /\ reader[r].stage = "reading"
  /\ ~( ChainValid(reader[r].profile)
        /\ Extends(pins[reader[r].shown], Chain(reader[r].profile)) )

(***************************************************************************)
(* Processes and the initial state                                         *)
(***************************************************************************)

Stages == {"off", "init", "ready", "draft", "got", "rotating", "swap", "save"}

(* held: a key generated and not yet in a file; snap: the entry as read;   *)
(* since: the revision EnsureSigningKey looked at, -1 in any other call.   *)
Call == [pc : Stages, who : Personas \union {None}, signer : Key, held : Key,
         draft : Profile, snap : [rev : Nat, doc : Profile], since : Int]
Off  == [pc |-> "off", who |-> None, signer |-> 0, held |-> 0,
         draft |-> NoProfile, snap |-> [rev |-> 0, doc |-> NoProfile],
         since |-> -1]
(* Back at the prompt, with the signer the process connected with.         *)
Ready(s) == [Off EXCEPT !.pc = "ready", !.who = call[s].who,
                        !.signer = call[s].signer]
Me(s) == call[s].who

Reader == [stage : {"off", "pins", "listing", "reading"},
           shown : Personas \union {None}, profile : Profile,
           left : SUBSET Personas, pinned : [Personas -> Seq(Key)],
           bad : SUBSET Personas]
NotReading == [stage |-> "off", shown |-> None, profile |-> NoProfile,
               left |-> {}, pinned |-> [p \in Personas |-> <<>>], bad |-> {}]

(* A realm of fresh personas, and of personas published by an earlier      *)
(* version: their key 1 is in the directory, and readers may have it.      *)
OldProfile == [NoProfile EXCEPT !.key = 1, !.strict = FALSE]

Init ==
  \E old \in SUBSET Legacy, known \in BOOLEAN :
    /\ scene \in Scenarios
    /\ Cardinality(old) <= 1 /\ Cardinality(old) <= MaxKeys
    /\ entry = [p \in Personas |->
         IF p \in old THEN [rev |-> 1, doc |-> OldProfile]
                      ELSE [rev |-> 0, doc |-> NoProfile]]
    /\ seed = [p \in Personas |-> IF p \in old THEN 1 ELSE 0]
    /\ pins = [p \in Personas |-> IF p \in old /\ known THEN <<1>> ELSE <<>>]
    /\ minted = Cardinality(old)
    /\ prev = [p \in Personas |-> 0]
    /\ tokens = {}
    /\ call = [s \in Sessions |-> Off]
    /\ reader = [r \in Readers |-> NotReading]
    /\ hurt = {}

MayStart(s) ==
  /\ call[s].pc = "off"
  /\ "alone" \in scene => \A t \in Sessions : call[t].pc = "off"
Goto(s, c) == call' = [call EXCEPT ![s] = c]

Faulty   == "fail" \in scene
files    == <<scene, seed, prev, minted, hurt>>
reading  == <<scene, pins, reader>>

(***************************************************************************)
(* Keys on a machine (cli/key.go, keystore.go)                             *)
(***************************************************************************)

(* `key init`: SaveKey looks whether the file is there ...                 *)
KeyInit(s) == \E p \in Personas :
  /\ MayStart(s) /\ seed[p] = 0
  /\ minted < MaxKeys
  /\ minted' = minted + 1
  /\ Goto(s, [Off EXCEPT !.pc = "init", !.who = p, !.held = minted + 1])
  /\ UNCHANGED <<entry, seed, prev, hurt, tokens, reading>>

(* ... and writes it, over whatever appeared meanwhile.                    *)
KeyInitWrites(s) ==
  LET p == Me(s)
  IN  /\ call[s].pc = "init"
      /\ seed' = [seed EXCEPT ![p] = call[s].held]
      /\ hurt' = IF seed[p] # 0 \/ entry[p].doc.key # 0
                 THEN hurt \union {p} ELSE hurt
      /\ Goto(s, Off)
      /\ UNCHANGED <<entry, prev, minted, tokens, reading>>

(* realmConnect: the process signs with the key its machine holds now.     *)
Connect(s) == \E p \in Personas :
  /\ MayStart(s)
  /\ Goto(s, [Off EXCEPT !.pc = "ready", !.who = p, !.signer = seed[p]])
  /\ UNCHANGED <<entry, files, tokens, reading>>

(***************************************************************************)
(* Publishing (registry/kv.go Publish, ensure.go, profilePublish)          *)
(***************************************************************************)

Signed(s, d) == [d EXCEPT !.key = call[s].signer]

(* A token presented with a publish must be the operator's, over the       *)
(* publisher.                                                              *)
Presented(s, by, v) ==
  [operator |-> by, operated |-> Me(s), vouch |-> v] \in tokens

(* `profile publish` and publish_profile: a fresh document, with an        *)
(* operator and a token of that operator's for this persona if given; then *)
(* Publish reads the entry.                                                *)
Compose(s) ==
  \E by \in (IF "operate" \in scene THEN Operators \ {Me(s)} ELSE {})
           \union {None},
     v \in {NoVouch} \union {t.vouch : t \in tokens} :
    /\ call[s].pc = "ready" /\ entry[Me(s)].rev < MaxWrites
    /\ v # NoVouch => Presented(s, by, v)
    /\ Goto(s, [call[s] EXCEPT !.pc = "got", !.snap = entry[Me(s)],
         !.draft = Signed(s, [NoProfile EXCEPT !.by = by, !.vouch = v])])
    /\ UNCHANGED <<entry, files, tokens, reading>>

(* WRONG: it publishes a minimal profile whatever it found.                *)
Ensure_Wrong(s) ==
  LET e == entry[Me(s)]
  IN  /\ call[s].pc = "ready" /\ call[s].signer # 0
      /\ e.doc.strict /\ e.doc.key = 0
      /\ Goto(s, [call[s] EXCEPT !.pc = "draft", !.since = e.rev,
                                 !.draft = Signed(s, NoProfile)])
      /\ UNCHANGED <<entry, files, tokens, reading>>

(* EnsureSigningKey: looks the entry up, and publishes what it found with  *)
(* the key added; an entry with a key, or out of date, ends the call.      *)
Ensure(s) ==
  LET e == entry[Me(s)]
  IN  /\ call[s].pc = "ready" /\ call[s].signer # 0
      /\ e.doc.strict /\ e.doc.key = 0
      /\ Goto(s, [call[s] EXCEPT !.pc = "draft", !.draft = Signed(s, e.doc),
                                 !.since = e.rev])
      /\ UNCHANGED <<entry, files, tokens, reading>>

(* Publish, called by it, reads the entry again.                           *)
PublishGets(s) ==
  /\ call[s].pc = "draft"
  /\ Goto(s, [call[s] EXCEPT !.pc = "got", !.snap = entry[Me(s)]])
  /\ UNCHANGED <<entry, files, tokens, reading>>

(* Publish keeps the stored key and its rotations, also those of a         *)
(* document only a lenient decode can read, and refuses another key ...    *)
Conflict(c) ==
  c.draft.key # 0 /\ c.snap.doc.key # 0 /\ c.draft.key # c.snap.doc.key
(* WRONG: the rotations of the incoming document, which has none, win.     *)
Merge_Wrong(c) ==
  IF c.snap.doc.key = 0 THEN c.draft
  ELSE [c.draft EXCEPT !.key = c.snap.doc.key]
Merge(c) ==
  IF c.snap.doc.key = 0 THEN c.draft
  ELSE [c.draft EXCEPT !.key = c.snap.doc.key,
                       !.rotations = c.snap.doc.rotations]

(* kv.Create and kv.Update: a write on the revision that was read.         *)
Lands(s) == call[s].snap.rev = entry[Me(s)].rev
Write(p, d) == entry' = [entry EXCEPT ![p] = [rev |-> @.rev + 1, doc |-> d]]

(* ... and writes: the entry changes, or the call ends with an error.      *)
PublishWrites(s) ==
  /\ call[s].pc = "got"
  /\ \/ /\ ~Conflict(call[s]) /\ Lands(s)
        /\ Write(Me(s), Merge(call[s]))
     \/ /\ Conflict(call[s]) \/ ~Lands(s) \/ Faulty
        /\ UNCHANGED entry
  /\ Goto(s, Ready(s))
  /\ UNCHANGED <<files, tokens, reading>>

(***************************************************************************)
(* Rotation (registry/kv.go Rotate, keyRotate, ReplaceKey)                 *)
(***************************************************************************)

(* Rotate: only from the key the directory holds.                          *)
Rotate(s) ==
  LET e == entry[Me(s)]
  IN  /\ call[s].pc = "ready" /\ call[s].signer # 0
      /\ e.doc.strict /\ e.doc.key = call[s].signer
      /\ minted < MaxKeys /\ e.rev < MaxWrites
      /\ minted' = minted + 1
      /\ Goto(s, [call[s] EXCEPT !.pc = "rotating", !.held = minted + 1,
                                 !.snap = e])
      /\ UNCHANGED <<entry, seed, prev, hurt, tokens, reading>>

(* WRONG: the rotation lists the new key on both sides.                    *)
Endorsed_Wrong(c) ==
  [c.snap.doc EXCEPT
     !.key = c.held,
     !.rotations = Append(@, [from |-> c.held, to |-> c.held])]

Endorsed(c) ==
  [c.snap.doc EXCEPT
     !.key = c.held,
     !.rotations = Append(@, [from |-> c.signer, to |-> c.held])]

(* The directory write: it lands and the swap follows, or the call ends -  *)
(* and with it the new key, also when only the answer was lost.            *)
RotateWrites(s) ==
  LET p == Me(s)
  IN  /\ call[s].pc = "rotating"
      /\ \/ /\ Lands(s)
            /\ Write(p, Endorsed(call[s]))
            /\ \/ Goto(s, [call[s] EXCEPT !.pc = "swap"]) /\ UNCHANGED hurt
               \/ Faulty /\ Goto(s, Ready(s)) /\ hurt' = hurt \union {p}
         \/ /\ ~Lands(s) \/ Faulty
            /\ Goto(s, Ready(s)) /\ UNCHANGED <<entry, hurt>>
      /\ UNCHANGED <<seed, prev, minted, tokens, reading>>

(* WRONG: the old seed stays where it is, and SaveKey refuses the new one. *)
SetAside_Wrong(s) ==
  /\ call[s].pc = "swap"
  /\ Goto(s, [call[s] EXCEPT !.pc = "save"])
  /\ UNCHANGED <<entry, seed, prev, minted, hurt, tokens, reading>>

(* ReplaceKey puts the old seed aside, when there is a file to put aside.  *)
SetAside(s) ==
  LET p == Me(s)
  IN  /\ call[s].pc = "swap"
      /\ \/ /\ seed[p] # 0
            /\ prev' = [prev EXCEPT ![p] = seed[p]]
            /\ seed' = [seed EXCEPT ![p] = 0]
            /\ Goto(s, [call[s] EXCEPT !.pc = "save"]) /\ UNCHANGED hurt
         \/ /\ seed[p] = 0 \/ Faulty
            /\ Goto(s, Ready(s)) /\ hurt' = hurt \union {p}
            /\ UNCHANGED <<seed, prev>>
      /\ UNCHANGED <<entry, minted, tokens, reading>>

(* SaveKey of the new seed; a refusal or a failure puts the old one back.  *)
SaveNew(s) ==
  LET p == Me(s)
  IN  /\ call[s].pc = "save"
      /\ \/ /\ seed[p] = 0
            /\ seed' = [seed EXCEPT ![p] = call[s].held]
            /\ UNCHANGED <<prev, hurt>>
         \/ /\ seed[p] # 0 \/ Faulty
            /\ seed' = [seed EXCEPT ![p] = prev[p]]
            /\ prev' = [prev EXCEPT ![p] = 0]
            /\ hurt' = IF seed[p] = 0 THEN hurt \union {p} ELSE hurt
      /\ Goto(s, Ready(s))
      /\ UNCHANGED <<entry, minted, tokens, reading>>

(* A process exits between calls, or dies in one.                          *)
Exit(s) ==
  /\ call[s].pc # "off"
  /\ call[s].pc \in {"ready"} \/ Faulty
  /\ hurt' = IF call[s].pc \in {"swap", "save"}
             THEN hurt \union {Me(s)} ELSE hurt
  /\ Goto(s, Off)
  /\ UNCHANGED <<entry, seed, prev, minted, tokens, reading>>

(* The token binds the operated persona's published key, if it has one.    *)
NewAttestationToken(s, q) ==
  [operator |-> Me(s), operated |-> q,
   vouch |-> [operated_key |-> entry[q].doc.key, sig |-> call[s].signer]]

(* `profile attest`: looks the operated persona up, and signs a token.     *)
Attest(s) ==
  \E q \in Personas \ {Me(s)} :
    /\ "operate" \in scene /\ Me(s) \in Operators
    /\ call[s].pc = "ready" /\ call[s].signer # 0
    /\ entry[q].doc.strict
    /\ tokens' = tokens \union {NewAttestationToken(s, q)}
    /\ UNCHANGED <<entry, files, call, reading>>

(***************************************************************************)
(* Reading (realmKeyring, mcpserver keyring, profileShow)                  *)
(***************************************************************************)

Turn(r, x) == reader' = [reader EXCEPT ![r] = x]

(* A read begins.  `profile show` has looked its persona up before, and    *)
(* builds a keyring only to judge an operator's claim.                     *)
Begin(r) ==
  /\ "read" \in scene /\ reader[r].stage = "off"
  /\ \E p \in Personas \union {None} :
       /\ p # None => entry[p].rev > 0 /\ entry[p].doc.strict
       /\ Turn(r, [NotReading EXCEPT
            !.stage = IF p = None \/ entry[p].doc.by # None
                      THEN "pins" ELSE "reading",
            !.shown = p,
            !.profile = IF p = None THEN NoProfile ELSE entry[p].doc])
  /\ UNCHANGED <<entry, files, tokens, call, pins>>

LoadPins(r) ==
  /\ reader[r].stage = "pins"
  /\ Turn(r, [reader[r] EXCEPT !.stage = "listing", !.left = Personas,
                               !.pinned = pins])
  /\ UNCHANGED <<entry, files, tokens, call, pins>>

(* registry.All reads the entries one by one, skipping an invalid one, and *)
(* BuildKeyring takes each profile against its pin.                        *)
ReadProfile(r) ==
  \E p \in reader[r].left :
    LET d == entry[p].doc
        pin == reader[r].pinned[p]
        skip == entry[p].rev = 0 \/ ~d.strict
        distrusted == ~Trusted(d, pin)
    IN  /\ reader[r].stage = "listing"
        /\ Turn(r, [reader[r] EXCEPT
             !.left = @ \ {p},
             !.pinned[p] = IF skip THEN pin ELSE Repinned(d, pin),
             !.bad = IF ~skip /\ distrusted THEN @ \union {p} ELSE @])
        /\ UNCHANGED <<entry, files, tokens, call, pins>>

(* SavePins: the whole file, over what others saved since LoadPins.        *)
SavePins(r) ==
  /\ reader[r].stage = "listing" /\ reader[r].left = {}
  /\ Turn(r, [reader[r] EXCEPT !.stage = "reading"])
  /\ pins' = reader[r].pinned
  /\ UNCHANGED <<entry, files, tokens, call>>

(* An error of the directory leaves no keyring: nothing is known.          *)
NoKeyring(r) ==
  /\ Faulty /\ reader[r].stage = "listing"
  /\ Turn(r, [NotReading EXCEPT !.stage = "reading",
       !.shown = reader[r].shown, !.profile = reader[r].profile])
  /\ UNCHANGED <<entry, files, tokens, call, pins>>

(* The read, the watch or the show is over.                                *)
Close(r) ==
  /\ reader[r].stage = "reading"
  /\ Turn(r, NotReading)
  /\ UNCHANGED <<entry, files, tokens, call, pins>>

SessionStep(s) ==
  \/ KeyInit(s) \/ KeyInitWrites(s) \/ Connect(s) \/ Exit(s) \/ Attest(s)
  \/ Compose(s) \/ Ensure(s) \/ PublishGets(s) \/ PublishWrites(s)
  \/ Rotate(s) \/ RotateWrites(s) \/ SetAside(s) \/ SaveNew(s)

ReaderStep(r) ==
  \/ Begin(r) \/ LoadPins(r) \/ ReadProfile(r) \/ SavePins(r)
  \/ NoKeyring(r) \/ Close(r)

Next ==
  \/ \E s \in Sessions : SessionStep(s)
  \/ \E r \in Readers : ReaderStep(r)

Spec == Init /\ [][Next]_vars

(***************************************************************************)
(* Properties                                                              *)
(***************************************************************************)

TypeOK ==
  /\ scene \in Scenarios
  /\ entry \in [Personas -> [rev : Nat, doc : Profile]]
  /\ seed \in [Personas -> Key] /\ prev \in [Personas -> Key]
  /\ minted \in Key
  /\ tokens \subseteq Token
  /\ call \in [Sessions -> Call]
  /\ pins \in [Personas -> Seq(Key)]
  /\ reader \in [Readers -> Reader]
  /\ hurt \subseteq Personas

Published(p) == Chain(entry[p].doc)

(* Nobody who only rotates is ever distrusted: whatever the readers and    *)
(* writers do, every pin is a prefix of the published chain, which holds   *)
(* together, and `profile show` cries substitution only over a profile it  *)
(* read before a rotation.                                                 *)
NobodyDistrusted ==
  /\ \A p \in Personas : /\ ChainValid(entry[p].doc)
                         /\ Extends(pins[p], Published(p))
  /\ \A r \in Readers :
       /\ reader[r].bad = {}
       /\ Alarm(r) => Chain(reader[r].profile) # Published(reader[r].shown)

(* An operator's honest vouch never reads as failed, however both sides    *)
(* rotated since: the token was signed with a published key of the         *)
(* operator's over the operated persona's published key.                   *)
VouchesStand ==
  \A r \in Readers :
    LET d == reader[r].profile
    IN  /\ reader[r].stage = "reading" /\ reader[r].shown # None
        /\ d.by # None
        /\ Holds(Published(d.by), d.vouch.sig)
        => ClaimStatus(r) # "failed"

(* The published key is never without its seed: it is in the file, or set  *)
(* aside, or in the hands of the rotation that is swapping it in - except  *)
(* where a rotation met a fault, or `key init` ran beside a published key. *)
SeedHeld ==
  \A p \in Personas \ hurt : entry[p].doc.key # 0 =>
    \/ entry[p].doc.key \in {seed[p], prev[p]}
    \/ \E s \in Sessions : /\ Me(s) = p
                           /\ call[s].pc \in {"swap", "save"}
                           /\ call[s].held = entry[p].doc.key

(* A published chain is only ever extended: no race of publishers and      *)
(* rotators loses an acknowledged rotation or swaps a key without one.     *)
ChainsGrow ==
  [][\A p \in Personas : Extends(Published(p), Published(p)')]_vars

(* EnsureSigningKey leaves what the profile says untouched - provided no   *)
(* publish came between its lookup and Publish's read.                     *)
EnsureOnlyAddsTheKey ==
  [][\A s \in Sessions :
       /\ call[s].pc = "got" /\ entry'[Me(s)] # entry[Me(s)]
       /\ call[s].since = call[s].snap.rev /\ call'[s] # call[s]
       => LET old == entry[Me(s)].doc
              new == entry'[Me(s)].doc
          IN  new.by = old.by /\ new.vouch = old.vouch]_vars

(***************************************************************************)
(* The inductive invariant behind NobodyDistrusted and ChainsGrow          *)
(***************************************************************************)

(* What a call still holds of the entry it read is the entry itself as     *)
(* long as the revision is; a rotation starts from the key it read; and a  *)
(* published document carries rotations only with a key.                   *)
CallSound(s) ==
  LET c == call[s]
  IN  /\ c.pc # "off" => c.who \in Personas
      /\ c.draft.rotations = <<>>
      /\ c.pc \in {"got", "rotating"} =>
           /\ c.snap.rev <= entry[c.who].rev
           /\ c.snap.rev = entry[c.who].rev => c.snap.doc = entry[c.who].doc
      /\ c.pc = "rotating" =>
           c.signer # 0 /\ c.held # 0 /\ c.snap.doc.key = c.signer

ReadersSound ==
  \A r \in Readers :
    /\ reader[r].bad = {}
    /\ ChainValid(reader[r].profile)
    /\ \A p \in Personas : Extends(reader[r].pinned[p], Published(p))

EntriesSound ==
  \A p \in Personas :
    /\ entry[p].doc.rotations # <<>> => entry[p].doc.key # 0
    /\ ChainValid(entry[p].doc)
    /\ Extends(pins[p], Published(p))

IInv == /\ TypeOK
        /\ \A s \in Sessions : CallSound(s)
        /\ ReadersSound /\ EntriesSound

(* What the design asks of rotation: a message signed with a key of the    *)
(* author's published chain never reads as failed.                         *)
BothErasVerify ==
  \A r \in Readers, p \in Personas, k \in 1 .. MaxKeys :
    reader[r].stage = "reading" /\ Holds(Published(p), k)
      => SigStatus(r, p, k) # "failed"
=============================================================================
