------------------------------ MODULE Selection ------------------------------
(***************************************************************************)
(* The parts of the roadmap engine that compute: which of the entries a    *)
(* language model wrote are courses (verify.pick), what is wrong with a    *)
(* selection (verify.check), and how the chosen courses are cut into weeks *)
(* (schedule.pack_weeks).                                                  *)
(*                                                                         *)
(* A selection is the sequence of entries the model wrote.  An entry is    *)
(* the index it carries, or Malformed when it is no object, has no index   *)
(* or an index that is no integer (a boolean is none).  The reason written *)
(* beside an index is known by its position in the selection.              *)
(***************************************************************************)
EXTENDS Loops, Integers, Sequences, SequencesExt

CONSTANTS
  Catalog,     \* the courses, as records [hours, level, track], in file order
  Malformed    \* an entry without a usable index

ASSUME CatalogAssumption ==
  /\ Catalog \in Seq([hours : Nat \ {0}, level : 1..5,
                      track : {Catalog[k].track : k \in DOMAIN Catalog}])
  /\ Len(Catalog) > 0 /\ Malformed \notin Int

(* Indices count from zero, as in the prompt's course list. *)
CourseAt(i) == Catalog[i + 1]

InCatalog(i) == i \in 0..(Len(Catalog) - 1)

(* What can be used of a selection: pairs of a course and the reason that
   was written for it. *)
Pick(selected) ==
  LET usable == Positions(selected, {i \in ToSet(selected) : InCatalog(i)})
  IN  [k \in DOMAIN usable |-> [course |-> selected[usable[k]], reason |-> usable[k]]]

HoursOf(pairs) == Total([k \in DOMAIN pairs |-> CourseAt(pairs[k].course).hours])

(* Variant: only the course directly before is looked at, of whatever track. *)
LevelInverted_Neighbours(pairs) ==
  \E k \in 2..Len(pairs) :
    /\ CourseAt(pairs[k - 1].course).track = CourseAt(pairs[k].course).track
    /\ CourseAt(pairs[k - 1].course).level > CourseAt(pairs[k].course).level

(* A course is out of order when the course of its track seen just before
   it has a higher level. *)
LevelInverted(pairs) ==
  \E k \in DOMAIN pairs, j \in DOMAIN pairs :
    /\ j < k
    /\ CourseAt(pairs[j].course).track = CourseAt(pairs[k].course).track
    /\ \A m \in (j + 1)..(k - 1) :
         CourseAt(pairs[m].course).track # CourseAt(pairs[k].course).track
    /\ CourseAt(pairs[j].course).level > CourseAt(pairs[k].course).level

Problems(selected, budget) ==
  LET wellFormed == Positions(selected, Int)
      indices == [k \in DOMAIN wellFormed |-> selected[wellFormed[k]]]
      pairs   == Pick(selected)
  IN  {p \in {"malformed", "range", "repeated", "budget", "order"} :
         CASE p = "malformed" -> Len(indices) < Len(selected)
           [] p = "range"     -> \E k \in DOMAIN indices : ~InCatalog(indices[k])
           [] p = "repeated"  -> \E j, k \in DOMAIN indices : j # k /\ indices[j] = indices[k]
           [] p = "budget"    -> HoursOf(pairs) > budget
           [] OTHER           -> LevelInverted(pairs)}

-----------------------------------------------------------------------------
(* One turn of pack_weeks' inner loop: take what fits of the course that is
   being laid out into the current week, and close the week when it is full;
   nothing more when nothing remains. *)
TakeHours(week, hoursPerWeek) ==
  LET take == IF week.remaining <= hoursPerWeek - week.used
              THEN week.remaining ELSE hoursPerWeek - week.used
      slot == [course |-> week.course, hours |-> take]
      full == week.used + take >= hoursPerWeek
  IN  IF week.remaining = 0 THEN week
      ELSE [week EXCEPT !.weeks     = IF full THEN Append(@, Append(week.current, slot)) ELSE @,
                        !.current   = IF full THEN <<>> ELSE Append(@, slot),
                        !.used      = IF full THEN 0 ELSE @ + take,
                        !.remaining = @ - take]

(* A course is laid out until nothing of it remains; it cannot take more
   turns than it has hours. *)
LayOut(week, course, hoursPerWeek) ==
  LET hours == CourseAt(course).hours
      after[turn \in 0..hours] ==
        IF turn = 0 THEN [week EXCEPT !.course = course, !.remaining = hours]
        ELSE TakeHours(after[turn - 1], hoursPerWeek)
  IN  after[hours]

NoWeek == [weeks |-> <<>>, current |-> <<>>, used |-> 0, remaining |-> 0, course |-> 0]

LaidOut(pairs, hoursPerWeek) ==
  LET after[n \in 0..Len(pairs)] ==
        IF n = 0 THEN NoWeek ELSE LayOut(after[n - 1], pairs[n].course, hoursPerWeek)
  IN  after[Len(pairs)]

(* Variant: the week that is still open at the end is forgotten. *)
PackWeeks_Unclosed(pairs, hoursPerWeek) == LaidOut(pairs, hoursPerWeek).weeks

PackWeeks(pairs, hoursPerWeek) ==
  LET last == LaidOut(pairs, hoursPerWeek)
  IN  IF last.current = <<>> THEN last.weeks ELSE Append(last.weeks, last.current)

-----------------------------------------------------------------------------
(* What the code above is meant to compute, stated without its loops. *)

(* A selection can be followed as it stands: every entry names a course, no
   course twice, within the budget, and levels never fall within a track. *)
Sound(selected, budget) ==
  /\ \A k \in DOMAIN selected : InCatalog(selected[k])
  /\ IsInjective(selected)
  /\ HoursOf(Pick(selected)) <= budget
  /\ \A j, k \in DOMAIN selected :
       /\ j < k
       /\ CourseAt(selected[j]).track = CourseAt(selected[k]).track
       => CourseAt(selected[j]).level <= CourseAt(selected[k]).level

WeekHours(week) == Total([s \in DOMAIN week |-> week[s].hours])

(* The hours of a schedule, one element per hour, naming the course heard. *)
Timeline(weeks) ==
  FlattenSeq([w \in DOMAIN weeks |->
    FlattenSeq([s \in DOMAIN weeks[w] |->
      [h \in 1..weeks[w][s].hours |-> weeks[w][s].course]])])

(* Every hour of every chosen course is scheduled once and in the chosen
   order, every week but the last is full, and none is overfull. *)
Exact(weeks, pairs, hoursPerWeek) ==
  /\ Timeline(weeks) = FlattenSeq([k \in DOMAIN pairs |->
                         [h \in 1..CourseAt(pairs[k].course).hours |-> pairs[k].course]])
  /\ \A w \in DOMAIN weeks : WeekHours(weeks[w]) \in 1..hoursPerWeek
  /\ \A w \in 1..(Len(weeks) - 1) : WeekHours(weeks[w]) = hoursPerWeek
=============================================================================
