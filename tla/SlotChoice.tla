----------------------------- MODULE SlotChoice -----------------------------
(***************************************************************************)
(* How a meeting's time is chosen: free time from busy blocks              *)
(* (google_calendar.rs working_slots), the best slot of two calendars      *)
(* under learned preferences (agent/preferences.rs), the earliest slot of  *)
(* two mock agents (scheduling.rs) and the earliest appointment of a       *)
(* host's booking page (availability.rs).                                  *)
(*                                                                         *)
(* One case is one question put to this code: its inputs are chosen at the *)
(* start, its steps are the functions called one after the other, and the  *)
(* invariants compare the answer with a definition that knows neither the  *)
(* loops nor the order of the inputs.  Time is counted in units of five    *)
(* minutes from a Monday; a zone is an offset.                             *)
(***************************************************************************)
EXTENDS Integers, SequencesExt

CONSTANTS
  Days,      \* the length of a window (30 in the code)
  Starts,    \* when the window may start
  Zones,     \* pairs of zones
  BusyLists, \* the busy blocks a calendar may report, in any order
  Tastes,    \* the preferences a side may have
  Lists,     \* availabilities of mock agents and of booking pages' visitors
  Minutes,   \* the durations asked of mock agents
  Pages,     \* the appointments of booking pages
  Kinds,     \* the observations a history is made of
  Claims,    \* the preferences that need evidence
  MaxHistory,
  MaxSample  \* .take(60)

Slot == [start : Int, end : Int]

(* Busy blocks that end before they start are refused by working_slots, the *)
(* durations of preferences by evidenced, those of pages by minutes.        *)
ASSUME SlotAssumption ==
  /\ Days \in Nat \ {0}
  /\ Starts \subseteq Int
  /\ Zones \subseteq Int \X Int
  /\ \A busy \in BusyLists :
       busy \in Seq(Slot) /\ \A i \in 1..Len(busy) : busy[i].start < busy[i].end
  /\ Tastes \subseteq [weekday : Int, hour : Int, duration : {6, 9, 12}, lunch : BOOLEAN]
  /\ Lists \subseteq Seq(Slot)
  /\ Minutes \subseteq Nat
  /\ Pages \subseteq [duration : Nat \ {0}, slots : Seq(Slot)]
  /\ Kinds \subseteq [id : Nat, series : Nat, past : BOOLEAN, peer : BOOLEAN,
                      organized : BOOLEAN, shows : SUBSET Claims]
  /\ MaxHistory \in Nat /\ MaxSample \in Nat

VARIABLES
  case,      \* the inputs
  free,      \* the free time of the two sides, once it is known
  answer     \* the slot or the preferences the code returns, once it has

vars == <<case, free, answer>>
-----------------------------------------------------------------------------
Day == 288
Grid == 3
WorkStart == 108
WorkEnd == 216
LunchStart == 144
LunchEnd == 168
Sides == {1, 2}
NoSlot == [start |-> 0, end |-> 0]
Unknown == << >>
Found(x) == <<x>>
Lasting(t, duration) == [start |-> t, end |-> t + duration]

\* filter: the elements of a sequence that are in a set, in their order.
Those(s, wanted) ==
  FlattenSeq([i \in 1..Len(s) |-> IF s[i] \in wanted THEN <<s[i]>> ELSE << >>])

Date(t, tz) == (t + tz) \div Day
Clock(t, tz) == (t + tz) % Day
Weekday(t, tz) == (Date(t, tz) % 7) + 1
Length(s) == s.end - s.start
Window(t) == [start |-> t, end |-> t + Days * Day]
-----------------------------------------------------------------------------
(* working_slots: the working hours of every weekday of the window, less    *)
(* one busy block after the other.                                          *)
KeepsTheRest(r, b) ==   \* faulty variant: a block cuts only what follows it
  IF b.end <= r.start \/ b.start >= r.end THEN <<r>>
  ELSE (IF b.start > r.start THEN <<[start |-> r.start, end |-> b.start]>> ELSE << >>)
Pieces(r, b) ==
  IF b.end <= r.start \/ b.start >= r.end THEN <<r>>
  ELSE (IF b.start > r.start THEN <<[start |-> r.start, end |-> b.start]>> ELSE << >>)
       \o (IF b.end < r.end THEN <<[start |-> b.end, end |-> r.end]>> ELSE << >>)
Cut(ranges, b) == FlattenSeq([i \in 1..Len(ranges) |-> Pieces(ranges[i], b)])
WorkingDay(d, tz, w) ==
  LET hours == [start |-> Max({d * Day + WorkStart - tz, w.start}),
                end |-> Min({d * Day + WorkEnd - tz, w.end})]
  IN IF (d % 7) + 1 <= 5 /\ hours.end > hours.start THEN <<hours>> ELSE << >>
WorkingSlots(w, tz, busy) ==
  LET first == Date(w.start, tz)
      n == Date(w.end, tz) - first + 1
  IN FlattenSeq([i \in 1..n |-> FoldLeft(Cut, WorkingDay(first + i - 1, tz, w), busy)])

(* score: whether a side could take the slot at all, and how well it suits. *)
Eligible(s, tz, p, today) ==
  /\ Date(s.start, tz) > Date(today, tz)
  /\ Weekday(s.start, tz) <= 5
  /\ Date(s.start, tz) = Date(s.end, tz)
  /\ Clock(s.start, tz) >= WorkStart /\ Clock(s.end, tz) <= WorkEnd
  /\ p.lunch \/ Clock(s.start, tz) >= LunchEnd \/ Clock(s.end, tz) <= LunchStart
Score(s, tz, p) ==
  50 + (IF p.weekday = Weekday(s.start, tz) THEN 25 ELSE 0)
     + (IF p.hour = Clock(s.start, tz) \div 12 THEN 15 ELSE 0)
     + (IF p.duration = Length(s) THEN 10 ELSE 0)

(* select: every overlap of the two free times, from its first quarter of   *)
(* an hour on, with each duration; a later candidate must rank higher.      *)
Durations(a, b) ==
  LET all == {6, a.duration, b.duration}
  IN CHOOSE d \in UNION {[1..n -> all] : n \in 1..3} :
       ToSet(d) = all /\ \A i, j \in DOMAIN d : i < j => d[i] < d[j]
FirstStart(l, r) == ((Max({l.start, r.start}) + Grid - 1) \div Grid) * Grid
Overlaps(l, r, durations) ==
  LET from == FirstStart(l, r)
      end == Min({l.end, r.end})
      steps == IF from < end THEN ((end - 1 - from) \div Grid) + 1 ELSE 0
      Starting(t) == FlattenSeq([j \in 1..Len(durations) |->
        IF t + durations[j] <= end THEN <<Lasting(t, durations[j])>> ELSE << >>])
  IN FlattenSeq([k \in 1..steps |-> Starting(from + (k - 1) * Grid)])
Offered(left, right, durations) ==
  FlattenSeq([i \in 1..Len(left) |->
    FlattenSeq([j \in 1..Len(right) |-> Overlaps(left[i], right[j], durations)])])

Rank(s, tz, p) ==
  LET x == Score(s, tz[1], p[1])
      y == Score(s, tz[2], p[2])
  IN <<Min({x, y}), x + y, -s.start>>
Higher(a, b) ==
  \/ a[1] > b[1]
  \/ a[1] = b[1] /\ (a[2] > b[2] \/ (a[2] = b[2] /\ a[3] > b[3]))
Better(best, s, tz, p, today) ==
  IF /\ \A side \in Sides : Eligible(s, tz[side], p[side], today)
     /\ best = NoSlot \/ Higher(Rank(s, tz, p), Rank(best, tz, p))
  THEN s ELSE best
Select(left, right, tz, p, today) ==
  FoldLeft(LAMBDA best, s : Better(best, s, tz, p, today), NoSlot,
           Offered(left, right, Durations(p[1], p[2])))
-----------------------------------------------------------------------------
(* first_common_slot: the overlap that starts first and is long enough;     *)
(* min_by_key keeps the first of equals, and equals are equal slots here.   *)
First(slots) == CHOOSE s \in slots : \A t \in slots : s.start <= t.start
FirstCommonSlot(left, right, minutes) ==
  LET From(a, b) == Lasting(Max({a.start, b.start}), minutes)
      long == {p \in ToSet(left) \X ToSet(right) :
                 minutes > 0 /\ From(p[1], p[2]).end <= Min({p[1].end, p[2].end})}
      fits == {From(p[1], p[2]) : p \in long}
  IN IF fits = {} THEN NoSlot ELSE First(fits)

(* first_host_slot: the visitor's intervals are sorted by their start, in    *)
(* whatever order equal ones come, and merged where they touch; the host's  *)
(* appointments are taken whole.                                            *)
Merge(merged, i) ==
  IF i.start >= i.end THEN merged
  ELSE IF merged # << >> /\ i.start <= Last(merged).end
       THEN [merged EXCEPT ![Len(merged)].end = Max({@, i.end})]
       ELSE Append(merged, i)
Sorted(list) ==
  {[i \in DOMAIN list |-> list[order[i]]] :
     order \in {o \in Bijection(DOMAIN list, DOMAIN list) :
       \A i, j \in DOMAIN list : i < j => list[o[i]].start <= list[o[j]].start}}
FirstHostSlot(host, coverage, w) ==
  LET merged == FoldLeft(Merge, << >>, coverage)
      fits == {s \in ToSet(host.slots) :
                 /\ s.start >= w.start /\ s.end <= w.end /\ Length(s) = host.duration
                 /\ \E p \in ToSet(merged) : p.start <= s.start /\ p.end >= s.end}
  IN IF fits = {} THEN NoSlot ELSE First(fits)

(* first_host_slot_from_tomorrow: tomorrow by the host's calendar.          *)
FromTomorrow(host, tz, today) ==
  [host EXCEPT !.slots = Those(@, {s \in ToSet(@) : Date(s.start, tz) > Date(today, tz)})]
-----------------------------------------------------------------------------
(* distinct_past: what is over, one observation of each series.  A history  *)
(* lists the latest first; observation i has the id i.                      *)
Name(e) == IF e.series = 0 THEN <<"id", e.id>> ELSE <<"series", e.series>>
CountsRecurrences(events) ==   \* faulty variant: every recurrence is an observation
  Those(events, {e \in ToSet(events) : e.past})
Seen(kept, e) ==
  IF e.past /\ \A i \in 1..Len(kept) : Name(kept[i]) # Name(e) THEN Append(kept, e) ELSE kept
DistinctPast(events) == FoldLeft(Seen, << >>, events)

(* evidenced: a preference that departs from the defaults needs three       *)
(* distinct observations that show it, meetings with the peer if there are  *)
(* three of them; lunch ones must have been wanted.                         *)
Shows(e, claim) == claim \in e.shows /\ (claim = "lunch" => e.organized \/ e.peer)
WithPeer(events) == Those(events, {e \in ToSet(events) : e.peer})
Evidenced(claims, events) ==
  LET all == DistinctPast(events)
      evidence == IF Len(WithPeer(all)) >= 3 THEN WithPeer(all) ELSE all
  IN \A c \in claims : Len(Those(evidence, {e \in ToSet(evidence) : Shows(e, c)})) >= 3

(* prepare: the model sees a sample, meetings with the peer first, and      *)
(* names observations as its evidence; what it claims counts only if these  *)
(* bear it out.  No answer, or too little history: the defaults.            *)
Sample(events) ==
  LET recent == DistinctPast(events)
      ordered == WithPeer(recent) \o Those(recent, {e \in ToSet(recent) : ~e.peer})
  IN SubSeq(ordered, 1, Min({MaxSample, Len(ordered)}))
Learned(events, named, claims) ==
  LET sample == Sample(events)
      evidence == Those(sample, {e \in ToSet(sample) : e.id \in named})
  IN IF Len(sample) >= 3 /\ Len(evidence) >= 3 /\ Evidenced(claims, evidence) THEN claims ELSE {}
-----------------------------------------------------------------------------
Connected == [kind : {"connected"}, start : Starts, zones : Zones,
              busy : [Sides -> BusyLists], tastes : [Sides -> Tastes]]
Mock == [kind : {"mock"}, left : Lists, right : Lists, minutes : Minutes]
Page == [kind : {"page"}, start : Starts, zones : Zones, host : Pages, visitor : Lists]
Observed == UNION {[1..n -> Kinds] : n \in 0..MaxHistory}
History == [kind : {"history"}, events : Observed, named : SUBSET (1..MaxHistory),
            claims : SUBSET Claims]

Init ==
  /\ case \in Connected \/ case \in Mock \/ case \in Page \/ case \in History
  /\ free = Unknown
  /\ answer = Unknown

ReadCalendars ==
  /\ case.kind = "connected" /\ free = Unknown
  /\ free' = [side \in Sides |->
                WorkingSlots(Window(case.start), case.zones[side], case.busy[side])]
  /\ UNCHANGED <<case, answer>>

Propose ==
  /\ case.kind = "connected" /\ free # Unknown /\ answer = Unknown
  /\ answer' = Found(Select(free[1], free[2], case.zones, case.tastes, case.start))
  /\ UNCHANGED <<case, free>>

FindCommonSlot ==
  /\ case.kind = "mock" /\ answer = Unknown
  /\ answer' = Found(FirstCommonSlot(case.left, case.right, case.minutes))
  /\ UNCHANGED <<case, free>>

FindAppointment ==
  /\ case.kind = "page" /\ answer = Unknown
  /\ \E coverage \in Sorted(case.visitor) :
       answer' = Found(FirstHostSlot(FromTomorrow(case.host, case.zones[1], case.start),
                                     coverage, Window(case.start)))
  /\ UNCHANGED <<case, free>>

Numbered(events) == [i \in DOMAIN events |-> [events[i] EXCEPT !.id = i]]
Learn ==
  /\ case.kind = "history" /\ answer = Unknown
  /\ answer' = Found(Learned(Numbered(case.events), case.named, case.claims))
  /\ UNCHANGED <<case, free>>

Next == ReadCalendars \/ Propose \/ FindCommonSlot \/ FindAppointment \/ Learn
Spec == Init /\ [][Next]_vars
-----------------------------------------------------------------------------
Answer == answer[1]
Answered(kind) == case.kind = kind /\ answer # Unknown
Apart(s, t) == s.end <= t.start \/ t.end <= s.start

(* What two people would call the best time, said of their busy blocks and  *)
(* not of lists of free intervals: on a quarter of an hour, during working  *)
(* hours of a later weekday of both, on nobody's busy time or unwanted      *)
(* lunch; first the side it suits least, then both, then the earliest, then *)
(* the shortest.                                                            *)
Good(s, c) ==
  /\ s.end <= Window(c.start).end
  /\ \A side \in Sides :
       /\ Eligible(s, c.zones[side], c.tastes[side], c.start)
       /\ \A b \in ToSet(c.busy[side]) : Apart(s, b)
GoodSlots(c) ==
  {s \in {Lasting(q * Grid, d) :
            q \in (c.start \div Grid)..(Window(c.start).end \div Grid),
            d \in {6} \union {c.tastes[side].duration : side \in Sides}} : Good(s, c)}
IsBest(x, c) ==
  IF GoodSlots(c) = {} THEN x = NoSlot
  ELSE /\ x \in GoodSlots(c)
       /\ \A s \in GoodSlots(c) \ {x} :
            LET mine == Rank(x, c.zones, c.tastes)
                other == Rank(s, c.zones, c.tastes)
            IN Higher(mine, other) \/ (mine = other /\ Length(x) < Length(s))

IsFirst(x, slots) ==
  IF slots = {} THEN x = NoSlot ELSE x \in slots /\ \A s \in slots : x.start <= s.start

(* The times at which both mock agents are free long enough, by one         *)
(* interval of each, whatever the order of their lists.                     *)
Holds(list, s) == \E i \in ToSet(list) : i.start <= s.start /\ s.end <= i.end
Common(c) ==
  IF c.minutes = 0 THEN {}
  ELSE UNION {{s \in {Lasting(t, c.minutes) : t \in i.start..(i.end - c.minutes)} :
                 Holds(c.right, s)} : i \in ToSet(c.left)}

(* The host's whole appointments from its tomorrow on, every minute of      *)
(* which the visitor has free: no gap is bridged and no appointment cut.    *)
Covered(list, s) == \A t \in s.start..(s.end - 1) : \E i \in ToSet(list) : i.start <= t /\ t < i.end
Appointments(c) ==
  {s \in ToSet(c.host.slots) :
     /\ Length(s) = c.host.duration
     /\ Date(s.start, c.zones[1]) > Date(c.start, c.zones[1])
     /\ s.end <= Window(c.start).end
     /\ Covered(c.visitor, s)}

(* Each of the three ways to choose a time returns the slot that a          *)
(* definition over its inputs, without the loops of the code, calls the     *)
(* right one: the best, or the earliest.  The proposed time never meets a   *)
(* busy block of either side.                                               *)
ChoiceIsRight ==
  /\ Answered("connected") => IsBest(Answer, case)
  /\ Answered("mock") => IsFirst(Answer, Common(case))
  /\ Answered("page") => IsFirst(Answer, Appointments(case))

(* A learned preference rests on three past observations that are not       *)
(* recurrences of one series, each of which shows it and was named by the   *)
(* model (preferences.rs "preventing one mandatory series dominating").     *)
BorneOut(claim, c) ==
  \E e \in [1..3 -> DOMAIN c.events] :
    /\ \A i \in 1..3 : c.events[e[i]].past /\ Shows(c.events[e[i]], claim) /\ e[i] \in c.named
    /\ \A i, j \in 1..3 : i # j => Name(Numbered(c.events)[e[i]]) # Name(Numbered(c.events)[e[j]])
LearnedIsEvidenced == Answered("history") => \A claim \in Answer : BorneOut(claim, case)
=============================================================================
