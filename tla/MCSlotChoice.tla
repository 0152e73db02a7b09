---------------------------- MODULE MCSlotChoice ----------------------------
(* Two-day windows from a Monday morning and from a Thursday afternoon off the *)
(* quarter of an hour; zones that differ by an hour and by twelve.             *)
EXTENDS SlotChoice
S(a, b) == [start |-> a, end |-> b]
MCStarts == {96, 3 * 288 + 199}
MCZones == {<<0, 0>>, <<0, 12>>, <<12, 156>>}
MCBusyLists ==
  {<< >>, <<S(2 * 288 + 100, 2 * 288 + 145), S(288 + 100, 288 + 170), S(288 + 160, 288 + 199)>>,
   <<S(288 + 109, 288 + 206), S(288 + 120, 288 + 130), S(4 * 288 + 110, 4 * 288 + 190)>>,
   <<S(200, 4 * 288 + 140), S(4 * 288 + 140, 4 * 288 + 155)>>}
Taste(w, h, d, l) == [weekday |-> w, hour |-> h, duration |-> d, lunch |-> l]
MCTastes == {Taste(0, 0, 6, FALSE), Taste(5, 11, 9, FALSE), Taste(0, 12, 12, TRUE)}
MCLists ==
  {<< >>, <<S(288 + 120, 288 + 126), S(96, 108)>>, <<S(288 + 114, 288 + 123), S(288 + 123, 288 + 130)>>,
   <<S(288 + 110, 288 + 116), S(288 + 110, 288 + 140), S(100, 106)>>, <<S(0, 3 * 288)>>}
MCPages ==
  {[duration |-> 6, slots |-> <<S(288 + 120, 288 + 126), S(98, 104), S(288 + 114, 288 + 120)>>],
   [duration |-> 9, slots |-> <<S(288 + 118, 288 + 127), S(288 + 110, 288 + 116)>>],
   [duration |-> 6, slots |-> <<S(280, 286), S(4 * 288, 4 * 288 + 6)>>]}
Obs(s, past, peer, org, sh) ==
  [id |-> 0, series |-> s, past |-> past, peer |-> peer, organized |-> org, shows |-> sh]
MCKinds ==
  {Obs(0, TRUE, TRUE, FALSE, {"hour", "lunch"}), Obs(0, TRUE, FALSE, FALSE, {"hour", "lunch"}),
   Obs(1, TRUE, FALSE, TRUE, {"hour", "lunch"}), Obs(0, FALSE, TRUE, TRUE, {"hour", "lunch"}),
   Obs(0, TRUE, TRUE, TRUE, {}), Obs(1, TRUE, TRUE, FALSE, {"hour"})}
=============================================================================
