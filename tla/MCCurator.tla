------------------------------ MODULE MCCurator -------------------------------
(* Two topics that look alike, one responder that answers discovery from   *)
(* the board, and the curator.                                             *)
EXTENDS Curator

Same  == [r \in Responders |-> "keeper"]
Twins == {{1, 2}}
Both  == [t \in Topics |-> 1]
One   == [t \in Topics |-> IF t = 1 THEN 1 ELSE 0]

Asks(asks, times, start, ops, most) ==
  [start |-> start, asks |-> asks, times |-> times, ops |-> ops, most |-> most,
   rounds |-> 0, habits |-> {}, may |-> {"fail"}]
Curates(habits, n, start, ops, most, may) ==
  [start |-> start, asks |-> {}, times |-> 0, ops |-> ops, most |-> most,
   rounds |-> n, habits |-> habits, may |-> may]

Life == {
  Asks({"discover"}, 3, Both, {}, 2),
  Asks({"query"}, 2, One, {"mark", "baseline"}, 2),
  Asks({"fetch"}, 2, One, {"talk", "baseline"}, 2),
  [Curates({}, 1, One, {"talk"}, 2, {}) EXCEPT !.asks = {"discover"},
                                               !.times = 1],
  Curates({1}, 2, Both, {"flag"}, 3, {"ask"}),
  Curates({1}, 2, Both, {"flag"}, 3, {"fail"}),
  Curates({1}, 2, Both, {"baseline", "close"}, 3, {}),
  Curates({1, 2}, 2, Both, {}, 2, {}),
  Curates({2}, 2, One, {"talk"}, 3, {"ask"}),
  Curates({2}, 2, One, {"talk"}, 2, {"fail", "ask"}),
  Curates({3}, 2, One, {"talk", "nudge"}, 3, {"fail"}),
  Curates({4}, 2, One, {"claim", "drop", "talk"}, 3, {"ask"}),
  Curates({4}, 1, One, {"claim", "drop", "talk", "done"}, 4, {})}

Rollups == {Curates({1}, 2, Both, {"baseline"}, 3, {})}
=============================================================================
