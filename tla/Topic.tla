-------------------------------- MODULE Topic --------------------------------
(***************************************************************************)
(* What a topic promises the personas around it, with no stream, no        *)
(* baselines and no retries: one conversation that operations are applied  *)
(* to one at a time, and reads of it.                                      *)
(*                                                                         *)
(*  - A compaction changes nothing anyone can read.                        *)
(*  - A read returns the conversation as it stood at some moment of the    *)
(*    read, and a handle knows the topic only from such reads and from its *)
(*    own operations.                                                      *)
(*                                                                         *)
(* Both promises are made for reads that no compaction overlapped. A       *)
(* compaction that lands while a read is under way may rob that read of    *)
(* operations, and if the robbed reader goes on to compact the topic, the  *)
(* conversation itself is no longer intact.                                *)
(***************************************************************************)
EXTENDS TopicReplay

CONSTANT Handles

VARIABLES
  history,    (* The conversation after each operation accepted.           *)
  intact,     (* No robbed reader has compacted it.                        *)
  since,      (* The earliest moment an open read may return; 0: no read.  *)
  overlapped, (* Whether a compaction landed in the middle of the read.    *)
  observed    (* The frontier and lifecycle each handle goes by.           *)

topicVars == <<history, intact, since, overlapped, observed>>

accepted == Len(history)

view == history[accepted]

Unread == [frontier |-> {}, life |-> "unobserved"]

Observation(v) == [frontier |-> v.frontier, life |-> v.life]

Init ==
  /\ history = <<View(Seed(1, Birth))>>
  /\ intact = TRUE
  /\ since = [h \in Handles |-> 0]
  /\ overlapped = [h \in Handles |-> FALSE]
  /\ observed \in [Handles -> {Unread, [Unread EXCEPT !.frontier = {1}]}]

(* What h may learn from its open read: the conversation at some moment    *)
(* since it began, or anything at all if the read was robbed.              *)
Robbed(h) == overlapped[h] \/ ~intact

Learnable(h) ==
  IF Robbed(h) THEN [frontier : SUBSET (1 .. accepted), life : Lifecycles]
  ELSE {Observation(history[s]) : s \in since[h] .. accepted}

Learn(h, O) == \E o \in O : observed' = [observed EXCEPT ![h] = o]

(* h writes, parented on what it observed, unless it observed the topic    *)
(* archived. It moves to its own operation if it learns of the acceptance, *)
(* and may go on reading, or start to.                                     *)
Write(h) ==
  LET id == accepted + 1
      o  == observed[h]
  IN
  /\ o.life # "archived" /\ Len(history') = id
  /\ \E op \in {Content(o.frontier)} \cup {Transition(to, o.frontier) : to \in Lifecycles} :
       history' = Append(history, ViewAfter(view, id, op))
  /\ Learn(h, [frontier : {o.frontier, {id}}, life : {o.life, "closed", "archived"}])
  /\ \E s \in {0, since[h], id} : since' = [since EXCEPT ![h] = s]
  /\ overlapped' = [overlapped EXCEPT ![h] = FALSE]
  /\ UNCHANGED intact

(* Something lands that is no operation and says nothing.                  *)
Idle ==
  /\ history' = Append(history, view)
  /\ UNCHANGED <<intact, since, overlapped, observed>>

(* h opens a read of the present.                                          *)
Open(h) ==
  /\ since[h] = 0
  /\ since' = [since EXCEPT ![h] = accepted]
  /\ UNCHANGED <<history, intact, overlapped, observed>>

(* h opens a read that replays the past first.                             *)
Follow(h) ==
  /\ since[h] = 0
  /\ \E s \in 1 .. accepted : since' = [since EXCEPT ![h] = s]
  /\ UNCHANGED <<history, intact, overlapped, observed>>

(* h adopts what it learned, or not, and goes on reading, starts the read  *)
(* over or closes it.                                                      *)
Learns(h) ==
  /\ since[h] # 0
  /\ UNCHANGED <<history, intact>>
  /\ \E s \in {0, since[h]} : since' = [since EXCEPT ![h] = s]
  /\ \E b \in {FALSE, overlapped[h]} : overlapped' = [overlapped EXCEPT ![h] = b]
  /\ Learn(h, {observed[h]} \cup Learnable(h))

(* h compacts, on the strength of a read it completes. The conversation    *)
(* stays what it was, unless that read was robbed. Any other open read is  *)
(* overlapped at worst.                                                    *)
Compact(h) ==
  /\ since[h] # 0
  /\ Len(history') = accepted + 1
  /\ SubSeq(history', 1, accepted) = history
  /\ Robbed(h) \/ history'[accepted + 1] = view
  /\ intact' = (intact /\ ~overlapped[h])
  /\ since' = [since EXCEPT ![h] = 0]
  /\ overlapped' \in [Handles -> BOOLEAN]
  /\ \A g \in Handles :
       overlapped'[g] => g # h /\ (overlapped[g] \/ since[g] # 0)
  /\ Learn(h, {observed[h]} \cup Learnable(h))

(* The persona behind h starts over with a handle that observed nothing.   *)
Forget(h) ==
  /\ since' = [since EXCEPT ![h] = 0]
  /\ overlapped' = [overlapped EXCEPT ![h] = FALSE]
  /\ observed' = [observed EXCEPT ![h] = Unread]
  /\ UNCHANGED <<history, intact>>

Next ==
  \/ \E h \in Handles :
       Learns(h) \/ Forget(h) \/ Open(h) \/ Follow(h) \/ Write(h) \/ Compact(h)
  \/ Idle

Spec == Init /\ [][Next]_topicVars
=============================================================================
