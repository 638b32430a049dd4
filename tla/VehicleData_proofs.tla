-------------------------- MODULE VehicleData_proofs --------------------------
(***************************************************************************)
(* What the cameras have seen and what the tables say of it, for any       *)
(* stations, number of cars, of sightings and of troubles.                 *)
(***************************************************************************)
EXTENDS VehicleData, FiniteSetTheorems, SequenceTheorems, WellFoundedInduction, TLAPS

Has(p, s) == \E n \in DOMAIN p : p[n] = s

(***************************************************************************)
(* What MemoryDataToDatabasePro may have left to do for a record of that   *)
(* kind: the ends of New(kind) and of Again(kind).                         *)
(***************************************************************************)
Plans(kind) ==
    CASE kind = "Frontage" ->
            {<<"load", "count", "push", "add", "end">>, <<"count", "push", "add", "end">>,
             <<"push", "add", "end">>, <<"add", "end">>, <<"set", "end">>, <<"end">>}
      [] kind = "Entrance" ->
            {<<"load", "count", "add", "push", "trajadd", "end">>,
             <<"count", "add", "push", "trajadd", "end">>, <<"add", "push", "trajadd", "end">>,
             <<"push", "trajadd", "end">>, <<"trajadd", "end">>, <<"set", "trajset", "end">>,
             <<"trajset", "end">>, <<"end">>}
      [] kind = "Wash" ->
            {<<"add", "trajadd", "end">>, <<"trajadd", "end">>, <<"set", "trajset", "end">>,
             <<"trajset", "end">>, <<"end">>}
      [] kind = "Island" -> {<<"add", "end">>, <<"set", "end">>, <<"end">>}
      [] kind = "Alarm" -> {<<"add", "tell", "end">>, <<"tell", "end">>, <<"end">>}

Sightings == [type : Kinds, plateNo : Plates \cup {NoPlate}, time : Times]

Busy == todo # << >>

Typed ==
    /\ TypeOK
    /\ seen \in Seq(Sightings)
    /\ listHead \in Seq(Records)
    /\ Busy => todo \in Plans(Kind)
    /\ ~Busy => info = NULL
    /\ misread \subseteq Records /\ noRow \subseteq Records
    /\ totalDay \in {0, 1} /\ offDay \in BOOLEAN /\ tied \in BOOLEAN

\* The records: where they are, and in which order.
Listed ==
    /\ DOMAIN seen = ToSet(listHead) \cup done \cup early \cup dead
    /\ done \cap (early \cup dead) = {}
    /\ \A m, n \in DOMAIN listHead : m < n => listHead[m] < listHead[n]
    /\ phase = "run" => \A q \in done \cup early \cup dead, n \in DOMAIN listHead : q < listHead[n]
    /\ phase = "cameras" => ToSet(listHead) \subseteq early /\ ToSet(listHead) \cap (done \cup dead) = {}
    /\ phase = "down" => listHead = << >>

\* Records are numbered in the order of their times.
Timed ==
    \A r \in DOMAIN seen : /\ seen[r].time <= now
                           /\ \A q \in DOMAIN seen : q <= r => seen[q].time <= seen[r].time

\* Rows are of records that were worked on, and are not dated later than what
\* waits in the list.
RowsMade ==
    \A r \in Records : rows[r] # NoRow =>
        /\ r \in DOMAIN seen
        /\ rows[r].by \in DOMAIN seen
        /\ rows[r].start \in Times /\ rows[r].end \in Times /\ rows[r].start <= now
        /\ \A x \in ToSet(listHead) : rows[r].start <= seen[x].time
        /\ r \in ToSet(listHead) => Busy /\ r = Record /\ ~Has(todo, "add")

\* What the search has found for the record in work.
Found ==
    Busy =>
        /\ info # NULL => /\ info \in Rows(Kind) /\ info # Record
                          /\ tied \/ seen[info].plateNo = Plate
        /\ Has(todo, "set") => info # NULL /\ Time - rows[info].start <= Gap(Kind)
        /\ Has(todo, "trajset") => info # NULL
        /\ Has(todo, "add") /\ Kind # "Alarm" /\ Plate # NoPlate =>
              \/ Record \in misread
              \/ \A q \in RowsOf(Kind, Plate) : Time - rows[q].start > Gap(Kind)

\* A sighting is in the tables, as SeenIsStored says.
Stored(r) ==
    \/ r \in noRow
    \/ seen[r].plateNo = NoPlate /\ seen[r].type \in {"Entrance", "Wash"}
    \/ seen[r].type = "Alarm" /\ rows[r] # NoRow
    \/ /\ seen[r].type # "Alarm"
       /\ \E q \in RowsOf(seen[r].type, seen[r].plateNo) :
              q <= r /\ seen[r].time - rows[q].start <= Gap(seen[r].type)

StoredInv ==
    /\ \A r \in done : Stored(r)
    /\ Busy => Has(todo, "add") \/ Stored(Record)

\* The trajectory and the row of a visit.
Tells(r) ==
    /\ traj[r].start = rows[r].start
    /\ \/ traj[r].end = rows[r].end
       \/ seen[r].type = "Wash" /\ rows[r].by = r /\ traj[r].end = Never

Telling ==
    /\ \A r \in Records : traj[r].id = NULL => traj[r].start = Never
    /\ \A r \in Rows("Entrance") \cup Rows("Wash") :
          \/ r \in noTraj
          \/ Tells(r)
          \/ Busy /\ r = Record /\ Has(todo, "trajadd")
          \/ Busy /\ r = info /\ Head(todo) = "trajset"
    /\ Busy /\ Has(todo, "trajadd") /\ rows[Record] # NoRow =>
          rows[Record] = [by |-> Record, start |-> Time, end |-> Time]
    /\ Busy /\ Head(todo) = "trajset" =>
          info \in noTraj \/ (rows[info].end = Time /\ traj[info].start = rows[info].start)

\* No total exceeds the number of records that were counted.
TotalsBounded ==
    /\ \A k \in Counted :
          /\ total[k] <= Len(seen)
          /\ \A n \in DOMAIN listHead :
                \/ total[k] < listHead[n]
                \/ n = 1 /\ Busy /\ ~Has(todo, "count") /\ total[k] <= listHead[n]
    /\ Busy /\ Head(todo) = "count" => count < Record

\* The days: nothing is dated after the day of the totals.
DaysKept ==
    /\ totalDay <= Day(now)
    /\ phase # "run" => day = Never
    /\ ~offDay =>
          /\ day # Never => day = totalDay
          /\ \A k \in Counted : \A r \in Rows(k) : Day(rows[r].start) <= totalDay
          /\ Busy /\ Kind \in Counted /\ Has(todo, "add") /\ ~Has(todo, "load") =>
                Day(Time) <= totalDay
          /\ Busy /\ Head(todo) = "count" => Day(Time) = totalDay

\* The record in work has been counted, and its row is still to be inserted.
Ahead(k) ==
    /\ Busy /\ Kind = k
    /\ Has(todo, "add") /\ ~Has(todo, "count")
    /\ Day(Time) = totalDay

TotalsKept ==
    phase = "run" /\ noRow = {} /\ ~offDay =>
        /\ \A k \in Counted : total[k] = Cardinality(RowsOfDay(k, totalDay))
                                            + (IF Ahead(k) THEN 1 ELSE 0)
        /\ Busy /\ Head(todo) = "count" => count = total[Kind]

VehicleInv ==
    /\ Typed /\ Listed /\ Timed /\ RowsMade /\ Found
    /\ VisitsApart /\ StoredInv /\ Telling
    /\ TotalsBounded /\ DaysKept /\ TotalsKept
-----------------------------------------------------------------------------
(***************************************************************************)
(* Plans.                                                                  *)
(***************************************************************************)

LEMMA HasIn1 == \A a, s : Has(<<a>>, s) <=> s = a
  BY DEF Has
LEMMA HasIn2 == \A a, b, s : Has(<<a, b>>, s) <=> s \in {a, b}
  BY DEF Has
LEMMA HasIn3 == \A a, b, c, s : Has(<<a, b, c>>, s) <=> s \in {a, b, c}
  BY DEF Has
LEMMA HasIn4 == \A a, b, c, d, s : Has(<<a, b, c, d>>, s) <=> s \in {a, b, c, d}
  BY DEF Has
LEMMA HasIn5 == \A a, b, c, d, e, s : Has(<<a, b, c, d, e>>, s) <=> s \in {a, b, c, d, e}
  BY DEF Has
LEMMA HasIn6 ==
    \A a, b, c, d, e, f, s : Has(<<a, b, c, d, e, f>>, s) <=> s \in {a, b, c, d, e, f}
  BY DEF Has

\* The first step of a plan and the rest of it.
LEMMA Cut2 == \A a, b : Head(<<a, b>>) = a /\ Tail(<<a, b>>) = <<b>>
  OBVIOUS
LEMMA Cut3 == \A a, b, c : Head(<<a, b, c>>) = a /\ Tail(<<a, b, c>>) = <<b, c>>
  OBVIOUS
LEMMA Cut4 == \A a, b, c, d : Head(<<a, b, c, d>>) = a /\ Tail(<<a, b, c, d>>) = <<b, c, d>>
  OBVIOUS
LEMMA Cut5 ==
    \A a, b, c, d, e : Head(<<a, b, c, d, e>>) = a /\ Tail(<<a, b, c, d, e>>) = <<b, c, d, e>>
  OBVIOUS
LEMMA Cut6 ==
    \A a, b, c, d, e, f : /\ Head(<<a, b, c, d, e, f>>) = a
                          /\ Tail(<<a, b, c, d, e, f>>) = <<b, c, d, e, f>>
  OBVIOUS

\* What a plan of kind k says of its first step, and of the rest.
PlanFacts(k, p) ==
    /\ p # << >> /\ Head(p) \in Steps /\ Has(p, Head(p))
    /\ \A s : Has(p, s) => s \in Steps
    /\ Head(p) = "end" <=> p = <<"end">>
    /\ Head(p) # "end" => /\ Tail(p) \in Plans(k) /\ Tail(p) # << >>
                          /\ \A s : Has(Tail(p), s) <=> Has(p, s) /\ s # Head(p)
    /\ Head(p) = "load" => Head(Tail(p)) = "count"
    /\ Has(p, "load") <=> Head(p) = "load"
    /\ Has(p, "count") <=> Head(p) \in {"load", "count"}
    /\ Has(p, "count") => Has(p, "add") /\ k \in Counted
    /\ Has(p, "set") <=> Head(p) = "set"
    /\ Has(p, "set") => k # "Alarm"
    /\ Has(p, "set") \/ Has(p, "trajset") => ~Has(p, "add") /\ ~Has(p, "trajadd")
    /\ Has(p, "trajset") => k \in {"Entrance", "Wash"} /\ Head(p) \in {"set", "trajset"}
    /\ Head(p) = "set" => IF k \in {"Entrance", "Wash"} THEN Head(Tail(p)) = "trajset"
                          ELSE Tail(p) = <<"end">>
    /\ Head(p) \in {"trajset", "trajadd"} => Tail(p) = <<"end">>
    /\ Has(p, "trajadd") => k \in {"Entrance", "Wash"}
    /\ Has(p, "add") /\ k \in {"Entrance", "Wash"} => Has(p, "trajadd")

LEMMA PlansGood ==
    ASSUME NEW k \in DEVICE_TYPES, NEW p \in Plans(k)
    PROVE  PlanFacts(k, p)
<1>0. PICK t : t = Tail(p)
  OBVIOUS
<1>1. CASE k = "Frontage"
  <2>0. Plans(k) = {<<"load", "count", "push", "add", "end">>,
                    <<"count", "push", "add", "end">>, <<"push", "add", "end">>,
                    <<"add", "end">>, <<"set", "end">>, <<"end">>}
    BY <1>1 DEF Plans
  <2>1. CASE p = <<"load", "count", "push", "add", "end">>
    <3>1. Head(p) = "load" /\ t = <<"count", "push", "add", "end">>
      BY <1>0, <2>1, Cut5
    <3>2. \A s : Has(p, s) <=> s \in {"load", "count", "push", "add", "end"}
      BY <2>1, HasIn5
    <3>3. \A s : Has(t, s) <=> s \in {"count", "push", "add", "end"}
      BY <3>1, HasIn4
    <3>4. p # << >> /\ t # << >> /\ Head(t) = "count"
      BY <2>1, <3>1
    <3>5. t \in Plans(k)
      BY <2>0, <3>1
    <3> QED
      BY <1>0, <1>1, <2>1, <3>1, <3>2, <3>3, <3>4, <3>5 DEF PlanFacts, Steps, Counted
  <2>2. CASE p = <<"count", "push", "add", "end">>
    <3>1. Head(p) = "count" /\ t = <<"push", "add", "end">>
      BY <1>0, <2>2, Cut4
    <3>2. \A s : Has(p, s) <=> s \in {"count", "push", "add", "end"}
      BY <2>2, HasIn4
    <3>3. \A s : Has(t, s) <=> s \in {"push", "add", "end"}
      BY <3>1, HasIn3
    <3>4. p # << >> /\ t # << >> /\ Head(t) = "push"
      BY <2>2, <3>1
    <3>5. t \in Plans(k)
      BY <2>0, <3>1
    <3> QED
      BY <1>0, <1>1, <2>2, <3>1, <3>2, <3>3, <3>4, <3>5 DEF PlanFacts, Steps, Counted
  <2>3. CASE p = <<"push", "add", "end">>
    <3>1. Head(p) = "push" /\ t = <<"add", "end">>
      BY <1>0, <2>3, Cut3
    <3>2. \A s : Has(p, s) <=> s \in {"push", "add", "end"}
      BY <2>3, HasIn3
    <3>3. \A s : Has(t, s) <=> s \in {"add", "end"}
      BY <3>1, HasIn2
    <3>4. p # << >> /\ t # << >> /\ Head(t) = "add"
      BY <2>3, <3>1
    <3>5. t \in Plans(k)
      BY <2>0, <3>1
    <3> QED
      BY <1>0, <1>1, <2>3, <3>1, <3>2, <3>3, <3>4, <3>5 DEF PlanFacts, Steps, Counted
  <2>4. CASE p = <<"add", "end">>
    <3>1. Head(p) = "add" /\ t = <<"end">>
      BY <1>0, <2>4, Cut2
    <3>2. \A s : Has(p, s) <=> s \in {"add", "end"}
      BY <2>4, HasIn2
    <3>3. \A s : Has(t, s) <=> s \in {"end"}
      BY <3>1, HasIn1
    <3>4. p # << >> /\ t # << >> /\ Head(t) = "end"
      BY <2>4, <3>1
    <3>5. t \in Plans(k)
      BY <2>0, <3>1
    <3> QED
      BY <1>0, <1>1, <2>4, <3>1, <3>2, <3>3, <3>4, <3>5 DEF PlanFacts, Steps, Counted
  <2>5. CASE p = <<"set", "end">>
    <3>1. Head(p) = "set" /\ t = <<"end">>
      BY <1>0, <2>5, Cut2
    <3>2. \A s : Has(p, s) <=> s \in {"set", "end"}
      BY <2>5, HasIn2
    <3>3. \A s : Has(t, s) <=> s \in {"end"}
      BY <3>1, HasIn1
    <3>4. p # << >> /\ t # << >> /\ Head(t) = "end"
      BY <2>5, <3>1
    <3>5. t \in Plans(k)
      BY <2>0, <3>1
    <3> QED
      BY <1>0, <1>1, <2>5, <3>1, <3>2, <3>3, <3>4, <3>5 DEF PlanFacts, Steps, Counted
  <2>6. CASE p = <<"end">>
    BY <1>1, <2>6, HasIn1 DEF PlanFacts, Steps
  <2> QED
    BY <2>0, <2>1, <2>2, <2>3, <2>4, <2>5, <2>6
<1>2. CASE k = "Entrance"
  <2>0. Plans(k) = {<<"load", "count", "add", "push", "trajadd", "end">>,
                    <<"count", "add", "push", "trajadd", "end">>,
                    <<"add", "push", "trajadd", "end">>, <<"push", "trajadd", "end">>,
                    <<"trajadd", "end">>, <<"set", "trajset", "end">>,
                    <<"trajset", "end">>, <<"end">>}
    BY <1>2 DEF Plans
  <2>1. CASE p = <<"load", "count", "add", "push", "trajadd", "end">>
    <3>1. Head(p) = "load" /\ t = <<"count", "add", "push", "trajadd", "end">>
      BY <1>0, <2>1, Cut6
    <3>2. \A s : Has(p, s) <=> s \in {"load", "count", "add", "push", "trajadd", "end"}
      BY <2>1, HasIn6
    <3>3. \A s : Has(t, s) <=> s \in {"count", "add", "push", "trajadd", "end"}
      BY <3>1, HasIn5
    <3>4. p # << >> /\ t # << >> /\ Head(t) = "count"
      BY <2>1, <3>1
    <3>5. t \in Plans(k)
      BY <2>0, <3>1
    <3> QED
      BY <1>0, <1>2, <2>1, <3>1, <3>2, <3>3, <3>4, <3>5 DEF PlanFacts, Steps, Counted
  <2>2. CASE p = <<"count", "add", "push", "trajadd", "end">>
    <3>1. Head(p) = "count" /\ t = <<"add", "push", "trajadd", "end">>
      BY <1>0, <2>2, Cut5
    <3>2. \A s : Has(p, s) <=> s \in {"count", "add", "push", "trajadd", "end"}
      BY <2>2, HasIn5
    <3>3. \A s : Has(t, s) <=> s \in {"add", "push", "trajadd", "end"}
      BY <3>1, HasIn4
    <3>4. p # << >> /\ t # << >> /\ Head(t) = "add"
      BY <2>2, <3>1
    <3>5. t \in Plans(k)
      BY <2>0, <3>1
    <3> QED
      BY <1>0, <1>2, <2>2, <3>1, <3>2, <3>3, <3>4, <3>5 DEF PlanFacts, Steps, Counted
  <2>3. CASE p = <<"add", "push", "trajadd", "end">>
    <3>1. Head(p) = "add" /\ t = <<"push", "trajadd", "end">>
      BY <1>0, <2>3, Cut4
    <3>2. \A s : Has(p, s) <=> s \in {"add", "push", "trajadd", "end"}
      BY <2>3, HasIn4
    <3>3. \A s : Has(t, s) <=> s \in {"push", "trajadd", "end"}
      BY <3>1, HasIn3
    <3>4. p # << >> /\ t # << >> /\ Head(t) = "push"
      BY <2>3, <3>1
    <3>5. t \in Plans(k)
      BY <2>0, <3>1
    <3> QED
      BY <1>0, <1>2, <2>3, <3>1, <3>2, <3>3, <3>4, <3>5 DEF PlanFacts, Steps, Counted
  <2>4. CASE p = <<"push", "trajadd", "end">>
    <3>1. Head(p) = "push" /\ t = <<"trajadd", "end">>
      BY <1>0, <2>4, Cut3
    <3>2. \A s : Has(p, s) <=> s \in {"push", "trajadd", "end"}
      BY <2>4, HasIn3
    <3>3. \A s : Has(t, s) <=> s \in {"trajadd", "end"}
      BY <3>1, HasIn2
    <3>4. p # << >> /\ t # << >> /\ Head(t) = "trajadd"
      BY <2>4, <3>1
    <3>5. t \in Plans(k)
      BY <2>0, <3>1
    <3> QED
      BY <1>0, <1>2, <2>4, <3>1, <3>2, <3>3, <3>4, <3>5 DEF PlanFacts, Steps, Counted
  <2>5. CASE p = <<"trajadd", "end">>
    <3>1. Head(p) = "trajadd" /\ t = <<"end">>
      BY <1>0, <2>5, Cut2
    <3>2. \A s : Has(p, s) <=> s \in {"trajadd", "end"}
      BY <2>5, HasIn2
    <3>3. \A s : Has(t, s) <=> s \in {"end"}
      BY <3>1, HasIn1
    <3>4. p # << >> /\ t # << >> /\ Head(t) = "end"
      BY <2>5, <3>1
    <3>5. t \in Plans(k)
      BY <2>0, <3>1
    <3> QED
      BY <1>0, <1>2, <2>5, <3>1, <3>2, <3>3, <3>4, <3>5 DEF PlanFacts, Steps, Counted
  <2>6. CASE p = <<"set", "trajset", "end">>
    <3>1. Head(p) = "set" /\ t = <<"trajset", "end">>
      BY <1>0, <2>6, Cut3
    <3>2. \A s : Has(p, s) <=> s \in {"set", "trajset", "end"}
      BY <2>6, HasIn3
    <3>3. \A s : Has(t, s) <=> s \in {"trajset", "end"}
      BY <3>1, HasIn2
    <3>4. p # << >> /\ t # << >> /\ Head(t) = "trajset"
      BY <2>6, <3>1
    <3>5. t \in Plans(k)
      BY <2>0, <3>1
    <3> QED
      BY <1>0, <1>2, <2>6, <3>1, <3>2, <3>3, <3>4, <3>5 DEF PlanFacts, Steps, Counted
  <2>7. CASE p = <<"trajset", "end">>
    <3>1. Head(p) = "trajset" /\ t = <<"end">>
      BY <1>0, <2>7, Cut2
    <3>2. \A s : Has(p, s) <=> s \in {"trajset", "end"}
      BY <2>7, HasIn2
    <3>3. \A s : Has(t, s) <=> s \in {"end"}
      BY <3>1, HasIn1
    <3>4. p # << >> /\ t # << >> /\ Head(t) = "end"
      BY <2>7, <3>1
    <3>5. t \in Plans(k)
      BY <2>0, <3>1
    <3> QED
      BY <1>0, <1>2, <2>7, <3>1, <3>2, <3>3, <3>4, <3>5 DEF PlanFacts, Steps, Counted
  <2>8. CASE p = <<"end">>
    BY <1>2, <2>8, HasIn1 DEF PlanFacts, Steps
  <2> QED
    BY <2>0, <2>1, <2>2, <2>3, <2>4, <2>5, <2>6, <2>7, <2>8
<1>3. CASE k = "Wash"
  <2>0. Plans(k) = {<<"add", "trajadd", "end">>, <<"trajadd", "end">>,
                    <<"set", "trajset", "end">>, <<"trajset", "end">>, <<"end">>}
    BY <1>3 DEF Plans
  <2>1. CASE p = <<"add", "trajadd", "end">>
    <3>1. Head(p) = "add" /\ t = <<"trajadd", "end">>
      BY <1>0, <2>1, Cut3
    <3>2. \A s : Has(p, s) <=> s \in {"add", "trajadd", "end"}
      BY <2>1, HasIn3
    <3>3. \A s : Has(t, s) <=> s \in {"trajadd", "end"}
      BY <3>1, HasIn2
    <3>4. p # << >> /\ t # << >> /\ Head(t) = "trajadd"
      BY <2>1, <3>1
    <3>5. t \in Plans(k)
      BY <2>0, <3>1
    <3> QED
      BY <1>0, <1>3, <2>1, <3>1, <3>2, <3>3, <3>4, <3>5 DEF PlanFacts, Steps, Counted
  <2>2. CASE p = <<"trajadd", "end">>
    <3>1. Head(p) = "trajadd" /\ t = <<"end">>
      BY <1>0, <2>2, Cut2
    <3>2. \A s : Has(p, s) <=> s \in {"trajadd", "end"}
      BY <2>2, HasIn2
    <3>3. \A s : Has(t, s) <=> s \in {"end"}
      BY <3>1, HasIn1
    <3>4. p # << >> /\ t # << >> /\ Head(t) = "end"
      BY <2>2, <3>1
    <3>5. t \in Plans(k)
      BY <2>0, <3>1
    <3> QED
      BY <1>0, <1>3, <2>2, <3>1, <3>2, <3>3, <3>4, <3>5 DEF PlanFacts, Steps, Counted
  <2>3. CASE p = <<"set", "trajset", "end">>
    <3>1. Head(p) = "set" /\ t = <<"trajset", "end">>
      BY <1>0, <2>3, Cut3
    <3>2. \A s : Has(p, s) <=> s \in {"set", "trajset", "end"}
      BY <2>3, HasIn3
    <3>3. \A s : Has(t, s) <=> s \in {"trajset", "end"}
      BY <3>1, HasIn2
    <3>4. p # << >> /\ t # << >> /\ Head(t) = "trajset"
      BY <2>3, <3>1
    <3>5. t \in Plans(k)
      BY <2>0, <3>1
    <3> QED
      BY <1>0, <1>3, <2>3, <3>1, <3>2, <3>3, <3>4, <3>5 DEF PlanFacts, Steps, Counted
  <2>4. CASE p = <<"trajset", "end">>
    <3>1. Head(p) = "trajset" /\ t = <<"end">>
      BY <1>0, <2>4, Cut2
    <3>2. \A s : Has(p, s) <=> s \in {"trajset", "end"}
      BY <2>4, HasIn2
    <3>3. \A s : Has(t, s) <=> s \in {"end"}
      BY <3>1, HasIn1
    <3>4. p # << >> /\ t # << >> /\ Head(t) = "end"
      BY <2>4, <3>1
    <3>5. t \in Plans(k)
      BY <2>0, <3>1
    <3> QED
      BY <1>0, <1>3, <2>4, <3>1, <3>2, <3>3, <3>4, <3>5 DEF PlanFacts, Steps, Counted
  <2>5. CASE p = <<"end">>
    BY <1>3, <2>5, HasIn1 DEF PlanFacts, Steps
  <2> QED
    BY <2>0, <2>1, <2>2, <2>3, <2>4, <2>5
<1>4. CASE k = "Island"
  <2>0. Plans(k) = {<<"add", "end">>, <<"set", "end">>, <<"end">>}
    BY <1>4 DEF Plans
  <2>1. CASE p = <<"add", "end">>
    <3>1. Head(p) = "add" /\ t = <<"end">>
      BY <1>0, <2>1, Cut2
    <3>2. \A s : Has(p, s) <=> s \in {"add", "end"}
      BY <2>1, HasIn2
    <3>3. \A s : Has(t, s) <=> s \in {"end"}
      BY <3>1, HasIn1
    <3>4. p # << >> /\ t # << >> /\ Head(t) = "end"
      BY <2>1, <3>1
    <3>5. t \in Plans(k)
      BY <2>0, <3>1
    <3> QED
      BY <1>0, <1>4, <2>1, <3>1, <3>2, <3>3, <3>4, <3>5 DEF PlanFacts, Steps, Counted
  <2>2. CASE p = <<"set", "end">>
    <3>1. Head(p) = "set" /\ t = <<"end">>
      BY <1>0, <2>2, Cut2
    <3>2. \A s : Has(p, s) <=> s \in {"set", "end"}
      BY <2>2, HasIn2
    <3>3. \A s : Has(t, s) <=> s \in {"end"}
      BY <3>1, HasIn1
    <3>4. p # << >> /\ t # << >> /\ Head(t) = "end"
      BY <2>2, <3>1
    <3>5. t \in Plans(k)
      BY <2>0, <3>1
    <3> QED
      BY <1>0, <1>4, <2>2, <3>1, <3>2, <3>3, <3>4, <3>5 DEF PlanFacts, Steps, Counted
  <2>3. CASE p = <<"end">>
    BY <1>4, <2>3, HasIn1 DEF PlanFacts, Steps
  <2> QED
    BY <2>0, <2>1, <2>2, <2>3
<1>5. CASE k = "Alarm"
  <2>0. Plans(k) = {<<"add", "tell", "end">>, <<"tell", "end">>, <<"end">>}
    BY <1>5 DEF Plans
  <2>1. CASE p = <<"add", "tell", "end">>
    <3>1. Head(p) = "add" /\ t = <<"tell", "end">>
      BY <1>0, <2>1, Cut3
    <3>2. \A s : Has(p, s) <=> s \in {"add", "tell", "end"}
      BY <2>1, HasIn3
    <3>3. \A s : Has(t, s) <=> s \in {"tell", "end"}
      BY <3>1, HasIn2
    <3>4. p # << >> /\ t # << >> /\ Head(t) = "tell"
      BY <2>1, <3>1
    <3>5. t \in Plans(k)
      BY <2>0, <3>1
    <3> QED
      BY <1>0, <1>5, <2>1, <3>1, <3>2, <3>3, <3>4, <3>5 DEF PlanFacts, Steps, Counted
  <2>2. CASE p = <<"tell", "end">>
    <3>1. Head(p) = "tell" /\ t = <<"end">>
      BY <1>0, <2>2, Cut2
    <3>2. \A s : Has(p, s) <=> s \in {"tell", "end"}
      BY <2>2, HasIn2
    <3>3. \A s : Has(t, s) <=> s \in {"end"}
      BY <3>1, HasIn1
    <3>4. p # << >> /\ t # << >> /\ Head(t) = "end"
      BY <2>2, <3>1
    <3>5. t \in Plans(k)
      BY <2>0, <3>1
    <3> QED
      BY <1>0, <1>5, <2>2, <3>1, <3>2, <3>3, <3>4, <3>5 DEF PlanFacts, Steps, Counted
  <2>3. CASE p = <<"end">>
    BY <1>5, <2>3, HasIn1 DEF PlanFacts, Steps
  <2> QED
    BY <2>0, <2>1, <2>2, <2>3
<1> QED
  BY <1>1, <1>2, <1>3, <1>4, <1>5 DEF DEVICE_TYPES

\* The plan of a new visit and of one that goes on.
LEMMA PlansBegin ==
    ASSUME NEW k \in DEVICE_TYPES
    PROVE  /\ <<"end">> \in Plans(k)
           /\ New(k) \in Plans(k)
           /\ Head(New(k)) \in {"load", "add"} /\ (k \in Counted => Head(New(k)) = "load")
           /\ Has(New(k), "add") /\ ~Has(New(k), "set") /\ ~Has(New(k), "trajset")
           /\ k # "Alarm" => /\ Again(k) \in Plans(k)
                             /\ Head(Again(k)) = "set" /\ Has(Again(k), "set")
                             /\ ~Has(Again(k), "add")
<1>1. <<"end">> \in Plans(k)
  BY DEF Plans, DEVICE_TYPES
<1>2. New(k) \in Plans(k)
  BY DEF Plans, New, DEVICE_TYPES
<1>6. Head(New(k)) \in {"load", "add"} /\ (k \in Counted => Head(New(k)) = "load")
  BY DEF New, DEVICE_TYPES, Counted
<1>3. Has(New(k), "add") /\ ~Has(New(k), "set") /\ ~Has(New(k), "trajset")
  <2>1. CASE k = "Frontage"
    BY <2>1, HasIn5 DEF New
  <2>2. CASE k = "Entrance"
    BY <2>2, HasIn6 DEF New
  <2>3. CASE k = "Wash"
    BY <2>3, HasIn3 DEF New
  <2>4. CASE k = "Island"
    BY <2>4, HasIn2 DEF New
  <2>5. CASE k = "Alarm"
    BY <2>5, HasIn3 DEF New
  <2> QED
    BY <2>1, <2>2, <2>3, <2>4, <2>5 DEF DEVICE_TYPES
<1>4. k # "Alarm" => Again(k) \in Plans(k) /\ Head(Again(k)) = "set"
  BY DEF Plans, Again, DEVICE_TYPES
<1>5. Has(Again(k), "set") /\ ~Has(Again(k), "add")
  BY HasIn2, HasIn3 DEF Again
<1> QED
  BY <1>1, <1>2, <1>3, <1>4, <1>5, <1>6
-----------------------------------------------------------------------------
(***************************************************************************)
(* Least and greatest elements.                                            *)
(***************************************************************************)

\* The least element, for a well-founded relation that contains <.
LEMMA LeastByRelation ==
    ASSUME NEW S, NEW R, S \subseteq Nat, S # {},
           IsWellFoundedOn(R, Nat),
           \A x, y \in Nat : y < x => <<y, x>> \in R
    PROVE  \E x \in S : \A y \in S : x <= y
<1>1. PICK x \in S : \A y \in S : ~(<<y, x>> \in R)
  BY WFMin, Zenon
<1>2. \A y \in S : ~(y < x)
  BY <1>1, Zenon
<1>3. \A y \in S : x <= y
  BY <1>2, SMT
<1> QED
  BY <1>3, Zenon

LEMMA LeastExists ==
    ASSUME NEW S, S \subseteq Nat, S # {}
    PROVE  \E x \in S : \A y \in S : x <= y
<1>1. \A x, y \in Nat : y < x => <<y, x>> \in OpToRel(<, Nat)
  BY Zenon DEF OpToRel
<1> QED
  BY <1>1, LeastByRelation, NatLessThanWellFounded, Zenon

LEMMA MinIs ==
    ASSUME NEW S, S \subseteq Nat, S # {}
    PROVE  Min(S) \in S
<1>1. \E x \in S : \A y \in S : x <= y
  BY LeastExists
<1> QED
  BY <1>1 DEF Min

LEMMA MaxIs ==
    ASSUME NEW b \in Nat, NEW S, S \subseteq Nat, S # {}, \A x \in S : x <= b
    PROVE  Max(S) \in S /\ \A x \in S : x <= Max(S)
<1> DEFINE T == {b - x : x \in S}
<1>0. \A x \in S : b - x \in Nat
  OBVIOUS
<1>1. T \subseteq Nat /\ T # {}
  BY <1>0
<1>2. PICK m \in T : \A y \in T : m <= y
  BY <1>1, LeastExists
<1>3. PICK x \in S : m = b - x
  BY <1>2
<1>4. \A y \in S : b - x <= b - y
  BY <1>2, <1>3
<1>5. \A y \in S : x >= y
  BY <1>4
<1> HIDE DEF T
<1>6. Max(S) \in S /\ \A y \in S : Max(S) >= y
  BY <1>5 DEF Max
<1> QED
  BY <1>6
-----------------------------------------------------------------------------
(***************************************************************************)
(* What the types say.                                                     *)
(***************************************************************************)

LEMMA Context ==
    ASSUME Typed
    PROVE  /\ Kinds \subseteq DEVICE_TYPES /\ Times \subseteq Nat /\ now \in Times /\ now \in Nat
           /\ MaxEvents \in Nat /\ trouble \in Nat
           /\ Len(seen) \in Nat /\ Len(seen) <= MaxEvents /\ DOMAIN seen = 1 .. Len(seen)
           /\ DOMAIN seen \subseteq Records /\ NULL \notin Records /\ Records \subseteq Nat
           /\ \A r \in DOMAIN seen : /\ seen[r] \in Sightings
                                     /\ seen[r].type \in Kinds /\ seen[r].type \in DEVICE_TYPES
                                     /\ seen[r].plateNo \in Plates \cup {NoPlate}
                                     /\ seen[r].time \in Times /\ seen[r].time \in Nat
<1>1. station \in Stations /\ now \in Times /\ trouble \in Nat /\ Len(seen) + trouble <= MaxEvents
  BY DEF Typed, TypeOK
<1>2. Kinds \subseteq DEVICE_TYPES /\ Times \subseteq Nat /\ MaxEvents \in Nat
  BY <1>1, VehicleAssumption DEF Kinds, Times
<1>3. seen \in Seq(Sightings) /\ Len(seen) \in Nat /\ DOMAIN seen = 1 .. Len(seen)
  BY DEF Typed
<1>4. Len(seen) <= MaxEvents
  BY <1>1, <1>2, <1>3
<1>5. \A r \in DOMAIN seen : seen[r] \in Sightings
  BY <1>3
<1>6. \A r \in DOMAIN seen : /\ seen[r].type \in Kinds /\ seen[r].plateNo \in Plates \cup {NoPlate}
                             /\ seen[r].time \in Times
  BY <1>5 DEF Sightings
<1>7. DOMAIN seen \subseteq Records /\ NULL \notin Records /\ Records \subseteq Nat
  BY <1>2, <1>3, <1>4 DEF Records, NULL
<1> QED
  BY <1>1, <1>2, <1>3, <1>4, <1>5, <1>6, <1>7

LEMMA ListContext ==
    ASSUME Typed
    PROVE  /\ listHead \in Seq(Records) /\ Len(listHead) \in Nat
           /\ DOMAIN listHead = 1 .. Len(listHead)
           /\ \A n \in DOMAIN listHead : /\ listHead[n] \in ToSet(listHead)
                                         /\ listHead[n] \in DOMAIN seen
           /\ \A x \in ToSet(listHead) : x \in DOMAIN seen /\ \E n \in DOMAIN listHead : x = listHead[n]
           /\ listHead # << >> => /\ 1 \in DOMAIN listHead /\ Record = listHead[1]
                                  /\ Record \in ToSet(listHead) /\ Record \in DOMAIN seen
<1>1. listHead \in Seq(Records) /\ Len(listHead) \in Nat /\ DOMAIN listHead = 1 .. Len(listHead)
      /\ ToSet(listHead) \subseteq DOMAIN seen
  BY DEF Typed, TypeOK
<1>2. \A x : x \in ToSet(listHead) <=> \E n \in DOMAIN listHead : x = listHead[n]
  BY DEF ToSet
<1>3. listHead # << >> => 1 \in DOMAIN listHead /\ Record = listHead[1]
  BY <1>1 DEF Record
<1> QED
  BY <1>1, <1>2, <1>3

\* The record in work.
LEMMA BusyContext ==
    ASSUME Typed, Busy
    PROVE  /\ phase = "run" /\ listHead # << >>
           /\ Record \in ToSet(listHead) /\ Record \in DOMAIN seen /\ Record \in Records
           /\ Record = listHead[1] /\ 1 \in DOMAIN listHead
           /\ Kind \in Kinds /\ Kind \in DEVICE_TYPES /\ Plate \in Plates \cup {NoPlate}
           /\ Time \in Times /\ Time \in Nat
           /\ todo \in Plans(Kind) /\ PlanFacts(Kind, todo)
<1>1. phase = "run" /\ listHead # << >> /\ todo \in Plans(Kind)
  BY DEF Typed, TypeOK, Busy
<1>2. Record \in ToSet(listHead) /\ Record \in DOMAIN seen /\ Record = listHead[1] /\ 1 \in DOMAIN listHead
  BY <1>1, ListContext
<1>3. /\ Record \in Records /\ Kind \in Kinds /\ Kind \in DEVICE_TYPES
      /\ Plate \in Plates \cup {NoPlate} /\ Time \in Times /\ Time \in Nat
  BY <1>2, Context DEF Kind, Plate, Time
<1> QED
  BY <1>1, <1>2, <1>3, PlansGood
-----------------------------------------------------------------------------
(***************************************************************************)
(* The steps of the thread, as far as records and tables are concerned.    *)
(***************************************************************************)
records == <<station, now, seen, phase, listHead, done, early, dead>>
tables == <<rows, traj, noRow, noTraj>>
findings == <<info, misread, tied>>

\* The first step of the plan is done.
Advances(steps) ==
    /\ Busy /\ Head(todo) \in steps
    /\ todo' = Tail(todo)
    /\ UNCHANGED <<records, findings>>

LEMMA AdvancesTo ==
    ASSUME Typed, NEW steps, Advances(steps), "end" \notin steps
    PROVE  /\ Busy' /\ todo' \in Plans(Kind) /\ PlanFacts(Kind, todo')
           /\ Record' = Record /\ Kind' = Kind /\ Plate' = Plate /\ Time' = Time
           /\ \A s : Has(todo', s) <=> Has(todo, s) /\ s # Head(todo)
<1>1. PlanFacts(Kind, todo) /\ Head(todo) # "end" /\ Kind \in DEVICE_TYPES
  BY BusyContext DEF Advances
<1>2. todo' \in Plans(Kind) /\ Busy' /\ \A s : Has(todo', s) <=> Has(todo, s) /\ s # Head(todo)
  BY <1>1 DEF Advances, PlanFacts, Busy
<1>3. Record' = Record /\ Kind' = Kind /\ Plate' = Plate /\ Time' = Time
  BY DEF Advances, records, Record, Kind, Plate, Time
<1> QED
  BY <1>1, <1>2, <1>3, PlansGood

LEMMA CountsAdvance ==
    ASSUME LoadTotal \/ StoreTotal \/ PushMqttMsg
    PROVE  /\ Advances({"load", "count", "push", "tell"})
           /\ UNCHANGED tables
  BY DEF LoadTotal, StoreTotal, PushMqttMsg, Step, Advances, Busy, records, tables, findings,
         world, dataVars, histVars

LEMMA AddInfoAdvances ==
    ASSUME AddInfo
    PROVE  /\ Advances({"add"}) /\ UNCHANGED <<traj, noTraj>>
           /\ \/ /\ rows' = [rows EXCEPT ![Record] = [by |-> Record, start |-> Time, end |-> Time]]
                 /\ noRow' = noRow /\ trouble' = trouble
              \/ /\ rows' = rows /\ noRow' = noRow \cup {Record}
                 /\ Len(seen) + trouble < MaxEvents /\ trouble' = trouble + 1
           /\ UNCHANGED <<count, total, day, totalDay, offDay, g_pushStatus>>
  BY DEF AddInfo, Fails, Step, Advances, Busy, records, findings, world

LEMMA SetInfoAdvances ==
    ASSUME SetInfo
    PROVE  /\ Advances({"set"}) /\ UNCHANGED <<traj, noRow>>
           /\ \/ /\ rows' = [rows EXCEPT ![info] =
                        [by |-> Record, end |-> Time,
                         start |-> IF Kind \in {"Frontage", "Island"} THEN Time ELSE rows[info].start]]
                 /\ noTraj' = noTraj /\ trouble' = trouble
                 /\ offDay' = (offDay \/ (Kind = "Frontage" /\ Day(rows[info].start) # Day(Time)))
              \/ /\ rows' = rows /\ noTraj' = noTraj \cup {info} /\ offDay' = offDay
                 /\ Len(seen) + trouble < MaxEvents /\ trouble' = trouble + 1
           /\ UNCHANGED <<count, total, day, totalDay, g_pushStatus>>
  BY DEF SetInfo, Fails, Step, Advances, Busy, records, findings, world

LEMMA AddTrajectoryAdvances ==
    ASSUME AddTrajectoryInfo
    PROVE  /\ Advances({"trajadd"}) /\ UNCHANGED <<rows, noRow>>
           /\ \/ /\ traj' = [traj EXCEPT ![Record] =
                        [id |-> Record, start |-> Time,
                         end |-> IF Kind = "Wash" THEN Never ELSE Time]]
                 /\ noTraj' = noTraj /\ trouble' = trouble
              \/ /\ traj' = traj /\ noTraj' = noTraj \cup {Record}
                 /\ Len(seen) + trouble < MaxEvents /\ trouble' = trouble + 1
           /\ UNCHANGED <<count, total, day, totalDay, offDay, g_pushStatus>>
  BY DEF AddTrajectoryInfo, Fails, Step, Advances, Busy, records, findings, world

LEMMA UpdateTrajectoryAdvances ==
    ASSUME UpdateTrajectoryInfo
    PROVE  /\ Advances({"trajset"}) /\ UNCHANGED <<rows, noRow>>
           /\ \/ /\ traj' = [traj EXCEPT ![info] = IF traj[info].id = NULL THEN traj[info]
                                                   ELSE [traj[info] EXCEPT !.end = Time]]
                 /\ noTraj' = noTraj /\ trouble' = trouble
              \/ /\ noTraj' = noTraj \cup {info}
                 /\ Len(seen) + trouble < MaxEvents /\ trouble' = trouble + 1
                 /\ \/ traj' = traj
                    \/ traj' = [traj EXCEPT ![info] =
                                  IF traj[info].id = NULL THEN traj[info]
                                  ELSE [traj[info] EXCEPT !.start = Never, !.end = Time]]
           /\ UNCHANGED <<count, total, day, totalDay, offDay, g_pushStatus>>
  BY DEF UpdateTrajectoryInfo, Fails, Step, Advances, Busy, records, findings, world

\* What the search for the last row may find.
LEMMA LatestIs ==
    ASSUME Typed, RowsMade, NEW kind, NEW plate, NEW last \in Latest(kind, plate)
    PROVE  \/ last = NULL /\ (plate = NoPlate \/ RowsOf(kind, plate) = {})
           \/ /\ last \in Rows(kind) /\ last # NULL
              /\ \A q \in RowsOf(kind, plate) : rows[q].start <= rows[last].start
              /\ \E q \in RowsOf(kind, plate) :
                    /\ rows[q].start = rows[last].start
                    /\ q = last \/ Cardinality(Latest(kind, plate)) > 1
<1>1. CASE plate = NoPlate \/ RowsOf(kind, plate) = {}
  BY <1>1 DEF Latest
<1>2. CASE ~(plate = NoPlate \/ RowsOf(kind, plate) = {})
  <2> DEFINE starts == {rows[r].start : r \in RowsOf(kind, plate)}
             rs == {r \in Rows(kind) : rows[r].start = Max(starts)}
  <2>1. Latest(kind, plate) = rs
    BY <1>2 DEF Latest
  <2>2. \A r \in Rows(kind) : /\ r \in DOMAIN seen /\ r # NULL
                              /\ rows[r].start \in Nat /\ rows[r].start <= now
    BY Context DEF Rows, RowsMade
  <2>3. RowsOf(kind, plate) \subseteq Rows(kind)
    BY DEF RowsOf
  <2>4. starts \subseteq Nat /\ starts # {} /\ (\A x \in starts : x <= now) /\ now \in Nat
    BY <1>2, <2>2, <2>3, Context
  <2>5. Max(starts) \in starts /\ \A x \in starts : x <= Max(starts)
    BY <2>4, MaxIs
  <2>6. PICK q \in RowsOf(kind, plate) : rows[q].start = Max(starts)
    BY <2>5
  <2>7. last \in Rows(kind) /\ rows[last].start = Max(starts)
    BY <2>1
  <2>8. q \in rs /\ last \in rs
    BY <2>1, <2>3, <2>6
  <2>9. q = last \/ Cardinality(rs) > 1
    <3>1. IsFiniteSet(rs)
      <4>1. rs \subseteq 1 .. Len(seen)
        BY <2>2, Context
      <4>2. IsFiniteSet(1 .. Len(seen))
        <5>1. Len(seen) \in Int
          BY Context
        <5> QED
          BY <5>1, FS_Interval
      <4> HIDE DEF rs
      <4> QED
        BY <4>1, <4>2, FS_Subset
    <3>2. SUFFICES ASSUME q # last PROVE Cardinality(rs) > 1
      OBVIOUS
    <3>3. Cardinality({q, last}) = 2
      <4>1. Cardinality({last}) = 1 /\ IsFiniteSet({last})
        BY FS_Singleton
      <4>2. Cardinality({last} \cup {q}) = 2
        BY <3>2, <4>1, FS_AddElement
      <4>3. {last} \cup {q} = {q, last}
        OBVIOUS
      <4> QED
        BY <4>2, <4>3
    <3>4. Cardinality({q, last}) <= Cardinality(rs) /\ Cardinality(rs) \in Nat
      BY <2>8, <3>1, FS_Subset, FS_CardinalityType
    <3> QED
      BY <3>3, <3>4
  <2>10. \A r \in RowsOf(kind, plate) : rows[r].start <= Max(starts)
    BY <2>5
  <2> HIDE DEF starts, rs
  <2> QED
    BY <2>1, <2>2, <2>6, <2>7, <2>9, <2>10
<1> QED
  BY <1>1, <1>2

\* What MemoryDataToDatabasePro makes of it.
LEMMA DecideIs ==
    ASSUME NEW r, NEW last
    PROVE  LET late == last = NULL \/ seen[r].time - rows[last].start > Gap(seen[r].type)
           IN  \/ late /\ Decide(r, last) = New(seen[r].type)
               \/ ~late /\ Decide(r, last) \in {Again(seen[r].type), <<"end">>}
  BY DEF Decide

\* The record for which the search is made, and the plan that follows.
LEMMA LookResult ==
    ASSUME Typed, RowsMade, Look
    PROVE  /\ phase = "run" /\ ~Busy /\ listHead # << >> /\ Kind # "Alarm"
           /\ UNCHANGED <<records, tables, count, total, day, totalDay, offDay, g_pushStatus>>
           /\ todo' \in Plans(Kind) /\ Busy' /\ Head(todo') \notin {"count", "trajset", "trajadd"}
           /\ Kind \in Counted /\ Has(todo', "add") => Head(todo') = "load"
           /\ tied' \in BOOLEAN /\ (tied => tied')
           /\ misread \subseteq misread' /\ misread' \subseteq misread \cup {Record}
           /\ info' # NULL => info' \in Rows(Kind) /\ (tied' \/ seen[info'].plateNo = Plate)
           /\ Has(todo', "set") \/ Has(todo', "trajset") =>
                 info' # NULL /\ Time - rows[info'].start <= Gap(Kind)
           /\ Has(todo', "add") /\ Plate # NoPlate =>
                 \/ Record \in misread'
                 \/ \A q \in RowsOf(Kind, Plate) : Time - rows[q].start > Gap(Kind)
           /\ Has(todo', "add") \/ \E q \in RowsOf(Kind, Plate) : Time - rows[q].start <= Gap(Kind)
           /\ \/ trouble' = trouble
              \/ Len(seen) + trouble < MaxEvents /\ trouble' = trouble + 1
<1>1. /\ phase = "run" /\ ~Busy /\ listHead # << >> /\ Kind # "Alarm"
      /\ UNCHANGED <<records, tables, count, total, day, totalDay, offDay, g_pushStatus>>
  BY DEF Look, world, dataVars, records, tables, Busy
<1>2. Record \in DOMAIN seen /\ Kind \in DEVICE_TYPES /\ Time \in Nat
  BY <1>1, ListContext, Context DEF Kind, Time
<1>3. /\ New(Kind) \in Plans(Kind) /\ Head(New(Kind)) \in {"load", "add"}
      /\ Kind \in Counted => Head(New(Kind)) = "load"
      /\ Has(New(Kind), "add") /\ ~Has(New(Kind), "set") /\ ~Has(New(Kind), "trajset")
      /\ Again(Kind) \in Plans(Kind) /\ Head(Again(Kind)) = "set" /\ ~Has(Again(Kind), "add")
      /\ <<"end">> \in Plans(Kind)
  BY <1>1, <1>2, PlansBegin
<1>4. \A s : Has(<<"end">>, s) <=> s = "end"
  BY HasIn1
<1>5. \A p \in Plans(Kind) : p # << >>
  BY <1>2, PlansGood DEF PlanFacts
<1>6. Kind = seen[Record].type /\ Time = seen[Record].time /\ Plate = seen[Record].plateNo
  BY DEF Kind, Time, Plate
<1>7. CASE \E last \in Latest(Kind, Plate) :
              /\ info' = last
              /\ todo' = Decide(Record, last)
              /\ tied' = (tied \/ Cardinality(Latest(Kind, Plate)) > 1)
              /\ UNCHANGED <<trouble, misread>>
  <2>1. PICK last \in Latest(Kind, Plate) :
              /\ info' = last
              /\ todo' = Decide(Record, last)
              /\ tied' = (tied \/ Cardinality(Latest(Kind, Plate)) > 1)
              /\ UNCHANGED <<trouble, misread>>
    BY <1>7
  <2>2. tied \in BOOLEAN
    BY DEF Typed
  <2>3. \/ last = NULL /\ (Plate = NoPlate \/ RowsOf(Kind, Plate) = {})
        \/ /\ last \in Rows(Kind) /\ last # NULL
           /\ \A q \in RowsOf(Kind, Plate) : rows[q].start <= rows[last].start
           /\ \E q \in RowsOf(Kind, Plate) :
                 /\ rows[q].start = rows[last].start
                 /\ q = last \/ Cardinality(Latest(Kind, Plate)) > 1
    BY LatestIs
  <2>4. \A r \in Rows(Kind) : rows[r].start \in Nat
    BY Context DEF Rows, RowsMade
  <2>5. \A r \in RowsOf(Kind, Plate) : rows[r].start \in Nat /\ seen[r].plateNo = Plate
    BY <2>4 DEF RowsOf
  <2>6. tied' \in BOOLEAN /\ (tied => tied') /\ (info' # NULL => tied' \/ seen[info'].plateNo = Plate)
    BY <2>1, <2>2, <2>3, <2>5
  <2> DEFINE late == last = NULL \/ Time - rows[last].start > Gap(Kind)
  <2>7. \/ late /\ todo' = New(Kind)
        \/ ~late /\ todo' \in {Again(Kind), <<"end">>}
    BY <1>6, <2>1, DecideIs
  <2>8. Gap(Kind) \in Int
    BY <1>1, <1>2 DEF Gap, DEVICE_TYPES
  <2>9. CASE late
    <3>1. todo' = New(Kind)
      BY <2>7, <2>9
    <3>2. Plate # NoPlate => \A q \in RowsOf(Kind, Plate) : Time - rows[q].start > Gap(Kind)
      BY <1>2, <2>3, <2>4, <2>5, <2>8, <2>9
    <3> QED
      BY <1>1, <1>3, <1>5, <2>1, <2>3, <2>6, <3>1, <3>2 DEF Busy
  <2>10. CASE ~late
    <3>1. todo' \in {Again(Kind), <<"end">>} /\ last # NULL
      BY <2>7, <2>10
    <3>2. ~(Time - rows[last].start > Gap(Kind))
      BY <2>10
    <3>3. last \in Rows(Kind) /\ rows[last].start \in Nat
      BY <2>3, <2>4, <3>1
    <3>4. Time - rows[last].start <= Gap(Kind)
      BY <1>2, <2>8, <3>2, <3>3
    <3>5. \E q \in RowsOf(Kind, Plate) : Time - rows[q].start <= Gap(Kind)
      BY <2>3, <3>1, <3>4
    <3>6. ~Has(todo', "add") /\ Head(todo') \notin {"count", "trajset", "trajadd"}
      BY <1>3, <1>4, <3>1
    <3> QED
      BY <1>1, <1>3, <1>5, <2>1, <2>6, <3>1, <3>3, <3>4, <3>5, <3>6 DEF Busy
  <2> HIDE DEF late
  <2> QED
    BY <2>9, <2>10
<1>8. CASE /\ Fails
           /\ info' = NULL
           /\ todo' = New(Kind)
           /\ misread' = misread \cup {Record}
           /\ UNCHANGED tied
  <2>1. tied' \in BOOLEAN /\ tied' = tied
    BY <1>8 DEF Typed
  <2> QED
    BY <1>1, <1>3, <1>5, <1>8, <2>1 DEF Fails, Busy
<1> QED
  BY <1>7, <1>8 DEF Look

\* Records for which there is no search.
LEMMA GetNextResult ==
    ASSUME Typed, GetNextHandle
    PROVE  /\ phase = "run" /\ ~Busy /\ listHead # << >>
           /\ UNCHANGED <<records, tables, findings, count, total, day, totalDay, offDay, trouble,
                          g_pushStatus>>
           /\ todo' \in Plans(Kind) /\ Busy' /\ Head(todo') \in {"add", "end"}
           /\ info' = NULL
           /\ ~Has(todo', "set") /\ ~Has(todo', "trajset")
           /\ \/ Kind = "Alarm" /\ Has(todo', "add")
              \/ Kind \in {"Entrance", "Wash"} /\ Plate = NoPlate /\ ~Has(todo', "add")
<1>1. /\ phase = "run" /\ ~Busy /\ listHead # << >>
      /\ UNCHANGED <<records, tables, findings, count, total, day, totalDay, offDay, trouble,
                     g_pushStatus>>
  BY DEF GetNextHandle, world, dataVars, histVars, records, tables, findings, Busy
<1>2. info' = NULL
  BY <1>1 DEF Typed, findings
<1>3. Record \in DOMAIN seen /\ Kind \in DEVICE_TYPES
  BY <1>1, ListContext, Context DEF Kind
<1>4. \A s : Has(<<"end">>, s) <=> s = "end"
  BY HasIn1
<1>5. <<"end">> # << >> /\ Head(<<"end">>) = "end"
  OBVIOUS
<1>6. CASE Kind = "Alarm" /\ todo' = New(Kind)
  <2>1. todo' \in Plans(Kind) /\ Has(todo', "add") /\ ~Has(todo', "set") /\ ~Has(todo', "trajset")
    BY <1>3, <1>6, PlansBegin
  <2>2. todo' # << >> /\ Head(todo') = "add"
    BY <1>6 DEF New
  <2> QED
    BY <1>1, <1>2, <1>6, <2>1, <2>2 DEF Busy
<1>7. CASE Kind \in {"Entrance", "Wash"} /\ Plate = NoPlate /\ todo' = <<"end">>
  <2>1. todo' \in Plans(Kind)
    BY <1>3, <1>7, PlansBegin
  <2> QED
    BY <1>1, <1>2, <1>4, <1>5, <1>7, <2>1 DEF Busy
<1> QED
  BY <1>6, <1>7 DEF GetNextHandle
-----------------------------------------------------------------------------
(***************************************************************************)
(* Types.                                                                  *)
(***************************************************************************)
TypedRecords ==
    /\ station \in Stations /\ now \in Times
    /\ seen \in Seq(Sightings)
    /\ trouble \in Nat /\ Len(seen) + trouble <= MaxEvents
    /\ phase \in {"down", "cameras", "run"}
    /\ listHead \in Seq(Records) /\ ToSet(listHead) \subseteq DOMAIN seen
    /\ done \cup early \cup dead \subseteq DOMAIN seen

TypedWork ==
    /\ ToSet(todo) \subseteq Steps
    /\ Busy => phase = "run" /\ listHead # << >> /\ todo \in Plans(Kind)
    /\ info \in Records \cup {NULL} /\ (~Busy => info = NULL)
    /\ misread \subseteq Records /\ noRow \subseteq Records /\ tied \in BOOLEAN
    /\ g_pushStatus \in {"new", "connected", "failed"}

Dates == Times \cup {Never}

TypedTables ==
    /\ rows \in [Records -> [by : Records \cup {NULL}, start : Dates, end : Dates]]
    /\ traj \in [Records -> [id : Records \cup {NULL}, start : Dates, end : Dates]]

TypedTotals ==
    /\ total \in [Counted -> 0 .. MaxEvents] /\ count \in 0 .. MaxEvents
    /\ day \in {Never, 0, 1} /\ totalDay \in {0, 1} /\ offDay \in BOOLEAN

LEMMA TypedHasParts ==
    ASSUME Typed
    PROVE  TypedRecords /\ TypedWork /\ TypedTables /\ TypedTotals
<1>1. TypedRecords
  BY DEF Typed, TypeOK, TypedRecords
<1>2. TypedWork
  BY DEF Typed, TypeOK, TypedWork, Busy
<1>3. TypedTables
  BY DEF Typed, TypeOK, TypedTables, Dates
<1>4. TypedTotals
  BY DEF Typed, TypeOK, TypedTotals
<1> QED
  BY <1>1, <1>2, <1>3, <1>4

LEMMA TypedOfParts ==
    ASSUME TypedRecords, TypedWork, TypedTables, TypedTotals
    PROVE  Typed
<1>1. \A r \in DOMAIN seen :
         seen[r] \in [type : Kinds, plateNo : Plates \cup {NoPlate}, time : Times]
  <2>1. \A r \in DOMAIN seen : seen[r] \in Sightings
    BY DEF TypedRecords
  <2> QED
    BY <2>1 DEF Sightings
<1>2. TypeOK
  BY <1>1 DEF TypeOK, TypedRecords, TypedWork, TypedTables, TypedTotals, Busy, Dates
<1> QED
  BY <1>2 DEF Typed, TypedRecords, TypedWork, TypedTotals, Busy

LEMMA TypedNextOfParts ==
    ASSUME TypedRecords', TypedWork', TypedTables', TypedTotals'
    PROVE  Typed'
<1>1. \A r \in DOMAIN seen' :
         seen'[r] \in [type : Kinds', plateNo : Plates \cup {NoPlate}, time : Times']
  <2>1. \A r \in DOMAIN seen' : seen'[r] \in Sightings'
    BY DEF TypedRecords
  <2> QED
    BY <2>1 DEF Sightings
<1>2. TypeOK'
  BY <1>1 DEF TypeOK, TypedRecords, TypedWork, TypedTables, TypedTotals, Busy, Dates
<1> QED
  BY <1>2 DEF Typed, TypedRecords, TypedWork, TypedTotals, Busy

\* The steps of a plan.
LEMMA PlanSteps ==
    ASSUME NEW p, \A s : Has(p, s) => s \in Steps
    PROVE  ToSet(p) \subseteq Steps
  BY DEF ToSet, Has

LEMMA NoPlanSteps == ToSet(<< >>) = {}
  BY DEF ToSet

\* A step of the thread that is not the last one of a plan, and a failing statement.
MayFail ==
    \/ trouble' = trouble
    \/ Len(seen) + trouble < MaxEvents /\ trouble' = trouble + 1

LEMMA RecordsKeep ==
    ASSUME Typed, UNCHANGED records, MayFail
    PROVE  TypedRecords'
<1>1. TypedRecords /\ Len(seen) \in Nat /\ trouble \in Nat /\ MaxEvents \in Nat
  BY TypedHasParts, Context
<1>2. trouble' \in Nat /\ Len(seen) + trouble' <= MaxEvents
  BY <1>1 DEF TypedRecords, MayFail
<1>3. seen' = seen /\ Kinds' = Kinds /\ Times' = Times /\ Sightings' = Sightings
  BY DEF records, Kinds, Times, Sightings
<1> QED
  BY <1>1, <1>2, <1>3 DEF TypedRecords, records

LEMMA AdvanceTyped ==
    ASSUME Typed, NEW steps, Advances(steps), "end" \notin steps, MayFail,
           UNCHANGED g_pushStatus, noRow' \subseteq Records
    PROVE  TypedRecords' /\ TypedWork'
<1>1. TypedRecords'
  BY RecordsKeep DEF Advances
<1>2. /\ Busy' /\ todo' \in Plans(Kind) /\ Kind' = Kind
      /\ \A s : Has(todo', s) => s \in Steps
  BY AdvancesTo DEF PlanFacts
<1>3. ToSet(todo') \subseteq Steps
  BY <1>2, PlanSteps
<1>4. TypedWork /\ Busy
  BY TypedHasParts DEF Advances
<1>5. UNCHANGED <<phase, listHead, info, misread, tied>>
  BY DEF Advances, records, findings
<1>6. Plans(Kind)' = Plans(Kind)
  BY <1>2 DEF Plans
<1>7. TypedWork'
  BY <1>2, <1>3, <1>4, <1>5, <1>6 DEF TypedWork
<1> QED
  BY <1>1, <1>7

\* A new record.
LEMMA AddsRecord ==
    ASSUME Typed, NEW kind \in Kinds, NEW plate \in Plates \cup {NoPlate},
           AddVehicleInfo(kind, plate)
    PROVE  LET new == Len(seen) + 1
           IN  /\ phase # "down" /\ new \in Records /\ new + trouble <= MaxEvents
               /\ seen' \in Seq(Sightings) /\ Len(seen') = new
               /\ DOMAIN seen' = DOMAIN seen \cup {new} /\ new \notin DOMAIN seen
               /\ \A r \in DOMAIN seen : r < new /\ seen'[r] = seen[r]
               /\ seen'[new] = [type |-> kind, plateNo |-> plate, time |-> now]
               /\ listHead' \in Seq(Records) /\ Len(listHead') = Len(listHead) + 1
               /\ \A n \in DOMAIN listHead : listHead'[n] = listHead[n]
               /\ listHead'[Len(listHead) + 1] = new
               /\ ToSet(listHead') = ToSet(listHead) \cup {new}
               /\ listHead # << >> => /\ Record' = Record /\ Kind' = Kind
                                      /\ Plate' = Plate /\ Time' = Time
               /\ early' = IF phase = "cameras" THEN early \cup {new} ELSE early
               /\ UNCHANGED <<station, now, phase, todo, info, count, total, day, rows, traj,
                              g_pushStatus, trouble, done, dead, noRow, misread, tied, noTraj,
                              totalDay, offDay>>
<1> DEFINE new == Len(seen) + 1
           s == [type |-> kind, plateNo |-> plate, time |-> now]
<1>1. seen' = Append(seen, s) /\ phase # "down" /\ Len(seen) + trouble < MaxEvents
  BY DEF AddVehicleInfo
<1>2. /\ Len(seen) \in Nat /\ trouble \in Nat /\ MaxEvents \in Nat /\ DOMAIN seen = 1 .. Len(seen)
      /\ now \in Times /\ seen \in Seq(Sightings)
  BY Context DEF Typed
<1>3. s \in Sightings
  BY <1>2 DEF Sightings
<1> HIDE DEF s
<1>4. /\ seen' \in Seq(Sightings) /\ Len(seen') = new
      /\ \A r \in DOMAIN seen : seen'[r] = seen[r]
      /\ seen'[new] = s /\ DOMAIN seen' = 1 .. new
  BY <1>1, <1>2, <1>3
<1>5. new \in Records /\ new + trouble <= MaxEvents
  BY <1>1, <1>2 DEF Records
<1>6. DOMAIN seen' = DOMAIN seen \cup {new} /\ new \notin DOMAIN seen /\ \A r \in DOMAIN seen : r < new
  BY <1>2, <1>4
<1>7. listHead' = Append(listHead, new) /\ early' = (IF phase = "cameras" THEN early \cup {new} ELSE early)
  BY <1>4 DEF AddVehicleInfo
<1>8. listHead \in Seq(Records) /\ Len(listHead) \in Nat /\ DOMAIN listHead = 1 .. Len(listHead)
  BY ListContext
<1> HIDE DEF new
<1>9. /\ listHead' \in Seq(Records) /\ Len(listHead') = Len(listHead) + 1
      /\ \A n \in DOMAIN listHead : listHead'[n] = listHead[n]
      /\ listHead'[Len(listHead) + 1] = new
      /\ DOMAIN listHead' = DOMAIN listHead \cup {Len(listHead) + 1}
  BY <1>5, <1>7, <1>8
<1>10. ToSet(listHead') = ToSet(listHead) \cup {new}
  BY <1>9 DEF ToSet
<1>11. listHead # << >> => /\ Record' = Record /\ Kind' = Kind
                           /\ Plate' = Plate /\ Time' = Time
  <2> SUFFICES ASSUME listHead # << >>
               PROVE  Record' = Record /\ Kind' = Kind /\ Plate' = Plate /\ Time' = Time
    OBVIOUS
  <2>1. Record = listHead[1] /\ 1 \in DOMAIN listHead /\ Record \in DOMAIN seen
    BY ListContext
  <2>2. Record' = listHead'[1]
    BY <1>8, <1>9, <2>1 DEF Record
  <2>3. Record' = Record /\ seen'[Record] = seen[Record]
    BY <1>4, <1>9, <2>1, <2>2
  <2> QED
    BY <2>3 DEF Kind, Plate, Time
<1>12. UNCHANGED <<station, now, phase, todo, info, count, total, day, rows, traj,
                   g_pushStatus, trouble, done, dead, noRow, misread, tied, noTraj,
                   totalDay, offDay>>
  BY DEF AddVehicleInfo, threadVars, dataVars
<1> QED
  BY <1>1, <1>4, <1>5, <1>6, <1>7, <1>9, <1>10, <1>11, <1>12 DEF new, s

\* The first record leaves the list.
LEMMA DropsRecord ==
    ASSUME Typed, DelHandle
    PROVE  /\ Busy /\ todo = <<"end">> /\ done' = done \cup {Record}
           /\ ~Busy' /\ info' = NULL
           /\ listHead' \in Seq(Records) /\ Len(listHead') = Len(listHead) - 1
           /\ \A n \in DOMAIN listHead' : n + 1 \in DOMAIN listHead /\ listHead'[n] = listHead[n + 1]
           /\ ToSet(listHead) = ToSet(listHead') \cup {Record}
           /\ UNCHANGED <<station, now, seen, phase, count, total, day, rows, traj, g_pushStatus,
                          trouble, early, dead, noRow, misread, tied, noTraj, totalDay, offDay>>
<1>1. Busy /\ Head(todo) = "end"
  BY DEF DelHandle, Step, Busy
<1>2. todo = <<"end">>
  BY <1>1, BusyContext DEF PlanFacts
<1>3. listHead # << >> /\ Record = listHead[1] /\ listHead \in Seq(Records)
  BY <1>1, BusyContext, ListContext
<1>4. listHead' = Tail(listHead)
  BY DEF DelHandle
<1>5. /\ listHead' \in Seq(Records) /\ Len(listHead') = Len(listHead) - 1
      /\ \A n \in DOMAIN listHead' : n + 1 \in DOMAIN listHead /\ listHead'[n] = listHead[n + 1]
      /\ \A n \in DOMAIN listHead : n = 1 \/ (n - 1 \in DOMAIN listHead' /\ listHead[n] = listHead'[n - 1])
  BY <1>3, <1>4
<1>6. ToSet(listHead) = ToSet(listHead') \cup {Record}
  <2>1. 1 \in DOMAIN listHead
    BY <1>3
  <2>2. ASSUME NEW x \in ToSet(listHead) PROVE x \in ToSet(listHead') \cup {Record}
    <3>1. PICK n \in DOMAIN listHead : x = listHead[n]
      BY DEF ToSet
    <3> QED
      BY <1>3, <1>5, <3>1 DEF ToSet
  <2>3. ASSUME NEW x \in ToSet(listHead') PROVE x \in ToSet(listHead)
    <3>1. PICK n \in DOMAIN listHead' : x = listHead'[n]
      BY DEF ToSet
    <3>2. n + 1 \in DOMAIN listHead /\ x = listHead[n + 1]
      BY <1>5, <3>1
    <3> QED
      BY <3>2 DEF ToSet
  <2>4. Record \in ToSet(listHead)
    BY <1>3, <2>1 DEF ToSet
  <2> QED
    BY <2>2, <2>3, <2>4
<1>7. /\ done' = done \cup {Record} /\ ~Busy' /\ info' = NULL
      /\ UNCHANGED <<station, now, seen, phase, count, total, day, rows, traj, g_pushStatus,
                     trouble, early, dead, noRow, misread, tied, noTraj, totalDay, offDay>>
  BY DEF DelHandle, world, dataVars, Busy
<1> QED
  BY <1>1, <1>2, <1>5, <1>6, <1>7

\* What leaves records, tables and the thread of the records as they are.
LEMMA QuietSteps ==
    ASSUME ThreadStart \/ ThreadRateOfProgress \/ PushMqttApiTask \/ UNCHANGED vars
    PROVE  UNCHANGED <<records, tables, findings, todo, count, trouble>>
  BY DEF ThreadStart, ThreadRateOfProgress, PushMqttApiTask, vars, world, threadVars, dataVars,
         histVars, records, tables, findings

\* The rows of a day are rows of records.
LEMMA DayCounts ==
    ASSUME Typed, NEW k, NEW d
    PROVE  /\ RowsOfDay(k, d) \subseteq DOMAIN seen
           /\ IsFiniteSet(RowsOfDay(k, d))
           /\ Cardinality(RowsOfDay(k, d)) \in Nat
           /\ Cardinality(RowsOfDay(k, d)) <= Len(seen)
<1>1. RowsOfDay(k, d) \subseteq 1 .. Len(seen) /\ Len(seen) \in Nat
  BY Context DEF RowsOfDay, Rows
<1>2. IsFiniteSet(1 .. Len(seen)) /\ Cardinality(1 .. Len(seen)) = Len(seen)
  <2>1. Len(seen) \in Int /\ 1 \in Int /\ (1 > Len(seen) => Len(seen) = 0) /\ Len(seen) - 1 + 1 = Len(seen)
    BY <1>1
  <2> QED
    BY <2>1, FS_Interval
<1>3. IsFiniteSet(RowsOfDay(k, d))
      /\ Cardinality(RowsOfDay(k, d)) <= Cardinality(1 .. Len(seen))
  BY <1>1, <1>2, FS_Subset
<1> QED
  BY <1>1, <1>2, <1>3, FS_CardinalityType, Context

LEMMA TypedInit == Init => Typed
<1> SUFFICES ASSUME Init PROVE Typed
  OBVIOUS
<1>1. Times \subseteq Nat /\ Times # {} /\ NPlates \in Nat /\ MaxEvents \in Nat
  BY VehicleAssumption DEF Init, Times
<1>2. now \in Times
  BY <1>1, MinIs DEF Init, Times
<1>3. ToSet(<< >>) = {} /\ Len(<< >>) = 0
  BY NoPlanSteps
<1>4. TypedRecords
  BY <1>1, <1>2, <1>3 DEF Init, TypedRecords
<1>5. TypedWork
  BY <1>3 DEF Init, TypedWork, Busy
<1>6. TypedTables
  BY DEF Init, TypedTables, NoRow, NoTraj, Dates
<1>7. TypedTotals
  <2>1. 0 \in 0 .. MaxEvents
    BY <1>1
  <2>2. [k \in Counted |-> 0] \in [Counted -> 0 .. MaxEvents]
    BY <2>1
  <2> QED
    BY <2>1, <2>2 DEF Init, TypedTotals
<1> QED
  BY <1>4, <1>5, <1>6, <1>7, TypedOfParts

LEMMA TypedNext ==
    ASSUME Typed, RowsMade, Found, TotalsBounded, [Next]_vars
    PROVE  Typed'
<1>1. /\ TypedRecords /\ TypedWork /\ TypedTables /\ TypedTotals
      /\ Len(seen) \in Nat /\ trouble \in Nat /\ MaxEvents \in Nat /\ DOMAIN seen \subseteq Records
  BY TypedHasParts, Context
<1>2. (UNCHANGED <<rows, traj, station>>) => TypedTables'
  BY <1>1 DEF TypedTables, Dates, Times
<1>3. (UNCHANGED <<total, count, day, totalDay, offDay>>) => TypedTotals'
  BY <1>1 DEF TypedTotals
<1>4. CASE GetNextHandle
  <2>1. /\ phase = "run" /\ ~Busy /\ listHead # << >>
        /\ UNCHANGED <<records, tables, findings, count, total, day, totalDay, offDay, trouble,
                       g_pushStatus>>
        /\ todo' \in Plans(Kind) /\ Busy' /\ info' = NULL
    BY <1>4, GetNextResult
  <2>2. TypedRecords' /\ TypedTables' /\ TypedTotals'
    BY <1>2, <1>3, <2>1, RecordsKeep DEF MayFail, records, tables
  <2>3. Kind' = Kind /\ Kind \in DEVICE_TYPES /\ UNCHANGED <<phase, listHead, noRow, misread, tied>>
    BY <2>1, ListContext, Context DEF records, tables, findings, Kind, Record
  <2>4. ToSet(todo') \subseteq Steps /\ Plans(Kind)' = Plans(Kind)
    BY <2>1, <2>3, PlansGood, PlanSteps DEF PlanFacts, Plans
  <2>5. TypedWork'
    BY <1>1, <2>1, <2>3, <2>4 DEF TypedWork
  <2> QED
    BY <2>2, <2>5, TypedNextOfParts
<1>5. CASE Look
  <2>1. /\ phase = "run" /\ ~Busy /\ listHead # << >>
        /\ UNCHANGED <<records, tables, count, total, day, totalDay, offDay, g_pushStatus>>
        /\ todo' \in Plans(Kind) /\ Busy' /\ (info' # NULL => info' \in Rows(Kind))
        /\ tied' \in BOOLEAN /\ misread' \subseteq misread \cup {Record}
        /\ MayFail
    BY <1>5, LookResult DEF MayFail
  <2>2. TypedRecords' /\ TypedTables' /\ TypedTotals'
    BY <1>2, <1>3, <2>1, RecordsKeep DEF records, tables
  <2>3. /\ Kind' = Kind /\ Kind \in DEVICE_TYPES /\ Record \in Records
        /\ UNCHANGED <<phase, listHead, noRow>>
    BY <2>1, ListContext, Context DEF records, tables, Kind, Record
  <2>4. ToSet(todo') \subseteq Steps /\ Plans(Kind)' = Plans(Kind)
    BY <2>1, <2>3, PlansGood, PlanSteps DEF PlanFacts, Plans
  <2>5. info' \in Records \cup {NULL} /\ misread' \subseteq Records
    BY <1>1, <2>1, <2>3 DEF Rows, TypedWork
  <2>6. TypedWork'
    BY <1>1, <2>1, <2>3, <2>4, <2>5 DEF TypedWork
  <2> QED
    BY <2>2, <2>6, TypedNextOfParts
<1>6. CASE LoadTotal \/ StoreTotal \/ PushMqttMsg
  <2>1. /\ Advances({"load", "count", "push", "tell"}) /\ UNCHANGED tables
    BY <1>6, CountsAdvance
  <2>2. UNCHANGED <<trouble, g_pushStatus>>
    BY <1>6 DEF LoadTotal, StoreTotal, PushMqttMsg
  <2>3. TypedRecords' /\ TypedWork'
    BY <1>1, <2>1, <2>2, AdvanceTyped DEF MayFail, tables, TypedWork
  <2>4. TypedTables'
    BY <1>2, <2>1 DEF tables, Advances, records
  <2>5. Busy /\ Record \in Nat /\ Record <= MaxEvents
    BY <1>1, <2>1, BusyContext DEF Advances, Records
  <2>6. PlanFacts(Kind, todo) /\ Kind \in DEVICE_TYPES
    BY <2>1, BusyContext DEF Advances
  <2>7. CASE LoadTotal
    <3>1. Kind \in Counted
      BY <2>6, <2>7 DEF LoadTotal, Step, PlanFacts
    <3> QED
      BY <1>1, <2>3, <2>4, <2>7, <3>1, TypedNextOfParts DEF TypedTotals, LoadTotal
  <2>8. CASE StoreTotal
    <3>1. Kind \in Counted /\ Head(todo) = "count"
      BY <2>6, <2>8 DEF StoreTotal, Step, PlanFacts
    <3>2. count < Record /\ count \in Nat /\ count + 1 \in 0 .. MaxEvents
      BY <1>1, <2>5, <3>1 DEF TotalsBounded, TypedTotals
    <3>3. TypedTotals'
      BY <1>1, <2>8, <3>1, <3>2 DEF TypedTotals, StoreTotal, histVars
    <3> QED
      BY <2>3, <2>4, <3>3, TypedNextOfParts
  <2>9. CASE PushMqttMsg
    BY <1>3, <2>3, <2>4, <2>9, TypedNextOfParts DEF PushMqttMsg, histVars
  <2> QED
    BY <1>6, <2>7, <2>8, <2>9
<1>7. CASE AddInfo
  <2>1. Advances({"add"}) /\ MayFail /\ UNCHANGED g_pushStatus
    BY <1>7, AddInfoAdvances DEF MayFail
  <2>2. Busy /\ Record \in Records /\ Time \in Times /\ station' = station
    BY <2>1, BusyContext DEF Advances, records
  <2>3. noRow' \subseteq Records
    BY <1>1, <1>7, <2>2, AddInfoAdvances DEF TypedWork
  <2>4. TypedRecords' /\ TypedWork'
    BY <2>1, <2>3, AdvanceTyped
  <2>5. TypedTables'
    BY <1>1, <1>7, <2>2, AddInfoAdvances DEF TypedTables, Dates, Times
  <2>6. TypedTotals'
    BY <1>3, <1>7, AddInfoAdvances
  <2> QED
    BY <2>4, <2>5, <2>6, TypedNextOfParts
<1>8. CASE SetInfo
  <2>1. Advances({"set"}) /\ MayFail /\ UNCHANGED <<g_pushStatus, noRow, traj>>
    BY <1>8, SetInfoAdvances DEF MayFail
  <2>2. Busy /\ Record \in Records /\ Time \in Times /\ station' = station
    BY <2>1, BusyContext DEF Advances, records
  <2>3. TypedRecords' /\ TypedWork'
    BY <1>1, <2>1, AdvanceTyped DEF TypedWork
  <2>4. info \in Records /\ rows[info].start \in Dates /\ Time \in Dates
    <3>1. PlanFacts(Kind, todo) /\ Head(todo) = "set"
      BY <2>1, BusyContext DEF Advances
    <3>2. info # NULL /\ info \in Records
      BY <1>1, <2>2, <3>1 DEF PlanFacts, Found, TypedWork
    <3> QED
      BY <1>1, <2>2, <3>2 DEF TypedTables, Dates
  <2>5. TypedTables'
    <3>1. Dates' = Dates
      BY <2>2 DEF Dates, Times
    <3> DEFINE new == [by |-> Record, end |-> Time,
                       start |-> IF Kind \in {"Frontage", "Island"} THEN Time ELSE rows[info].start]
    <3>2. new \in [by : Records \cup {NULL}, start : Dates, end : Dates]
      BY <2>2, <2>4
    <3>3. rows' = [rows EXCEPT ![info] = new] \/ rows' = rows
      BY <1>8, SetInfoAdvances
    <3> HIDE DEF new
    <3> QED
      BY <1>1, <2>1, <3>1, <3>2, <3>3 DEF TypedTables
  <2>6. TypedTotals'
    BY <1>1, <1>8, SetInfoAdvances DEF TypedTotals
  <2> QED
    BY <2>3, <2>5, <2>6, TypedNextOfParts
<1>9. CASE AddTrajectoryInfo
  <2>1. Advances({"trajadd"}) /\ MayFail /\ UNCHANGED <<g_pushStatus, noRow, rows>>
    BY <1>9, AddTrajectoryAdvances DEF MayFail
  <2>2. Busy /\ Record \in Records /\ Time \in Times /\ station' = station
    BY <2>1, BusyContext DEF Advances, records
  <2>3. TypedRecords' /\ TypedWork'
    BY <1>1, <2>1, AdvanceTyped DEF TypedWork
  <2>4. TypedTables'
    <3>1. Dates' = Dates
      BY <2>2 DEF Dates, Times
    <3> DEFINE new == [id |-> Record, start |-> Time, end |-> IF Kind = "Wash" THEN Never ELSE Time]
    <3>2. new \in [id : Records \cup {NULL}, start : Dates, end : Dates]
      BY <2>2 DEF Dates
    <3>3. traj' = [traj EXCEPT ![Record] = new] \/ traj' = traj
      BY <1>9, AddTrajectoryAdvances
    <3> HIDE DEF new
    <3> QED
      BY <1>1, <2>1, <3>1, <3>2, <3>3 DEF TypedTables
  <2>5. TypedTotals'
    BY <1>3, <1>9, AddTrajectoryAdvances
  <2> QED
    BY <2>3, <2>4, <2>5, TypedNextOfParts
<1>10. CASE UpdateTrajectoryInfo
  <2>1. Advances({"trajset"}) /\ MayFail /\ UNCHANGED <<g_pushStatus, noRow, rows>>
    BY <1>10, UpdateTrajectoryAdvances DEF MayFail
  <2>2. Busy /\ Record \in Records /\ Time \in Times /\ station' = station
    BY <2>1, BusyContext DEF Advances, records
  <2>3. TypedRecords' /\ TypedWork'
    BY <1>1, <2>1, AdvanceTyped DEF TypedWork
  <2>4. TypedTables'
    <3>1. Dates' = Dates
      BY <2>2 DEF Dates, Times
    <3> DEFINE old == traj[info]
               good == IF old.id = NULL THEN old ELSE [old EXCEPT !.end = Time]
               bad == IF old.id = NULL THEN old ELSE [old EXCEPT !.start = Never, !.end = Time]
               Rec == [id : Records \cup {NULL}, start : Dates, end : Dates]
    <3>2. info \in Records => old \in Rec
      BY <1>1 DEF TypedTables
    <3> HIDE DEF old
    <3>3. old \in Rec => good \in Rec /\ bad \in Rec
      BY <2>2 DEF Dates
    <3>4. traj' = [traj EXCEPT ![info] = good] \/ traj' = [traj EXCEPT ![info] = bad] \/ traj' = traj
      BY <1>10, UpdateTrajectoryAdvances DEF old
    <3> HIDE DEF good, bad
    <3> QED
      BY <1>1, <2>1, <3>1, <3>2, <3>3, <3>4 DEF TypedTables
  <2>5. TypedTotals'
    BY <1>3, <1>10, UpdateTrajectoryAdvances
  <2> QED
    BY <2>3, <2>4, <2>5, TypedNextOfParts
<1>11. CASE DelHandle
  <2>1. /\ ~Busy' /\ info' = NULL /\ Busy /\ done' = done \cup {Record}
        /\ listHead' \in Seq(Records) /\ ToSet(listHead') \subseteq ToSet(listHead)
        /\ UNCHANGED <<station, now, seen, phase, count, total, day, rows, traj, g_pushStatus,
                       trouble, early, dead, noRow, misread, tied, noTraj, totalDay, offDay>>
    BY <1>11, DropsRecord
  <2>2. Kinds' = Kinds /\ Times' = Times /\ Sightings' = Sightings /\ Record \in DOMAIN seen
    BY <2>1, BusyContext DEF Kinds, Times, Sightings
  <2>3. TypedRecords'
    BY <1>1, <2>1, <2>2 DEF TypedRecords
  <2>4. TypedWork'
    BY <1>1, <2>1, NoPlanSteps DEF TypedWork, Busy
  <2> QED
    BY <1>2, <1>3, <2>1, <2>3, <2>4, TypedNextOfParts
<1>12. CASE \E kind \in Kinds, plate \in Plates \cup {NoPlate} : AddVehicleInfo(kind, plate)
  <2>0. PICK kind \in Kinds, plate \in Plates \cup {NoPlate} : AddVehicleInfo(kind, plate)
    BY <1>12
  <2> DEFINE new == Len(seen) + 1
  <2>1. /\ new \in Records /\ new + trouble <= MaxEvents
        /\ seen' \in Seq(Sightings) /\ Len(seen') = new /\ DOMAIN seen' = DOMAIN seen \cup {new}
        /\ listHead' \in Seq(Records) /\ Len(listHead') = Len(listHead) + 1
        /\ ToSet(listHead') = ToSet(listHead) \cup {new}
        /\ listHead # << >> => Kind' = Kind
        /\ early' = IF phase = "cameras" THEN early \cup {new} ELSE early
        /\ UNCHANGED <<station, now, phase, todo, info, count, total, day, rows, traj,
                       g_pushStatus, trouble, done, dead, noRow, misread, tied, noTraj,
                       totalDay, offDay>>
    BY <2>0, AddsRecord
  <2> HIDE DEF new
  <2>2. Kinds' = Kinds /\ Times' = Times /\ Sightings' = Sightings
    BY <2>1 DEF Kinds, Times, Sightings
  <2>3. TypedRecords'
    BY <1>1, <2>1, <2>2 DEF TypedRecords
  <2>4. TypedWork'
    <3>1. Busy' => Busy /\ phase = "run" /\ listHead # << >> /\ todo \in Plans(Kind)
      BY <1>1, <2>1 DEF TypedWork, Busy
    <3>2. listHead' # << >>
      BY <2>1, ListContext
    <3>3. listHead # << >> => Plans(Kind)' = Plans(Kind)
      BY <2>1 DEF Plans
    <3>4. Busy' => todo' \in Plans(Kind)'
      BY <2>1, <3>1, <3>3
    <3> QED
      BY <1>1, <2>1, <3>1, <3>2, <3>4 DEF TypedWork, Busy
  <2> QED
    BY <1>2, <1>3, <2>1, <2>3, <2>4, TypedNextOfParts
<1>13. CASE VehicleDataAnalysisManageInit
  <2>1. /\ listHead' = << >> /\ phase = "cameras" /\ phase' = "run" /\ MayFail
        /\ UNCHANGED <<station, now, seen, todo, info, count, day, rows, traj, g_pushStatus,
                       done, early, dead, noRow, misread, tied, noTraj>>
        /\ totalDay' = Day(now) /\ offDay' \in {offDay, TRUE}
    BY <1>13 DEF VehicleDataAnalysisManageInit, threadVars, dataVars, MayFail, Fails
  <2>2. ~Busy /\ ~Busy'
    BY <1>1, <2>1 DEF TypedWork, Busy
  <2>3. Kinds' = Kinds /\ Times' = Times /\ Sightings' = Sightings
    BY <2>1 DEF Kinds, Times, Sightings
  <2>4. trouble' \in Nat /\ Len(seen) + trouble' <= MaxEvents
    BY <1>1, <2>1 DEF MayFail, TypedRecords
  <2>5. TypedRecords'
    BY <1>1, <2>1, <2>3, <2>4, NoPlanSteps DEF TypedRecords
  <2>6. TypedWork'
    BY <1>1, <2>1, <2>2 DEF TypedWork
  <2>7. TypedTotals'
    <3> DEFINE today == [k \in Counted |-> Cardinality(RowsOfDay(k, Day(now)))]
    <3>1. \A k \in Counted : Cardinality(RowsOfDay(k, Day(now))) \in 0 .. MaxEvents
      <4> TAKE k \in Counted
      <4>1. /\ Cardinality(RowsOfDay(k, Day(now))) \in Nat
            /\ Cardinality(RowsOfDay(k, Day(now))) <= Len(seen)
        BY DayCounts
      <4> QED
        BY <1>1, <4>1, Context
    <3>2. today \in [Counted -> 0 .. MaxEvents]
      BY <3>1
    <3>3. total' = today \/ \E k \in Counted : total' = [today EXCEPT ![k] = 0]
      BY <1>13 DEF VehicleDataAnalysisManageInit
    <3> HIDE DEF today
    <3>4. total' \in [Counted -> 0 .. MaxEvents]
      BY <1>1, <3>2, <3>3
    <3>5. Day(now) \in {0, 1}
      BY DEF Day
    <3> QED
      BY <1>1, <2>1, <3>4, <3>5 DEF TypedTotals
  <2> QED
    BY <1>2, <2>1, <2>5, <2>6, <2>7, TypedNextOfParts
<1>14. CASE ThreadStart \/ ThreadRateOfProgress \/ PushMqttApiTask \/ UNCHANGED vars
  <2>1. UNCHANGED <<records, tables, findings, todo, count, trouble>>
    BY <1>14, QuietSteps
  <2>2. TypedRecords'
    BY <2>1, RecordsKeep DEF MayFail
  <2>3. Kind' = Kind /\ Busy' = Busy
    BY <2>1 DEF records, Kind, Record, Busy
  <2>4. g_pushStatus' \in {"new", "connected", "failed"}
    BY <1>1, <1>14
    DEF ThreadStart, ThreadRateOfProgress, PushMqttApiTask, vars, TypedWork
  <2>5. Plans(Kind)' = Plans(Kind)
    BY <2>3 DEF Plans
  <2>6. TypedWork'
    BY <1>1, <2>1, <2>3, <2>4, <2>5 DEF TypedWork, records, tables, findings
  <2>7. TypedTotals'
    <3>1. Day(now) \in {0, 1}
      BY DEF Day
    <3>2. CASE ThreadStart
      BY <1>1, <3>1, <3>2 DEF TypedTotals, ThreadStart, threadVars
    <3>3. CASE ThreadRateOfProgress
      BY <1>1, <3>1, <3>3 DEF TypedTotals, ThreadRateOfProgress, threadVars, Step
    <3>4. CASE PushMqttApiTask \/ UNCHANGED vars
      BY <1>3, <3>4 DEF PushMqttApiTask, vars, threadVars, histVars
    <3> QED
      BY <1>14, <3>2, <3>3, <3>4
  <2> QED
    BY <1>2, <2>1, <2>2, <2>6, <2>7, TypedNextOfParts DEF records, tables
<1>15. CASE Tick
  <2>1. /\ now' \in Times
        /\ UNCHANGED <<station, seen, phase, listHead, todo, info, count, total, day, rows, traj,
                       g_pushStatus, trouble, done, early, dead, noRow, misread, tied, noTraj,
                       totalDay, offDay>>
    BY <1>15 DEF Tick, threadVars, dataVars, histVars
  <2>2. Kinds' = Kinds /\ Times' = Times /\ Sightings' = Sightings
    BY <2>1 DEF Kinds, Times, Sightings
  <2>3. TypedRecords'
    BY <1>1, <2>1, <2>2 DEF TypedRecords
  <2>4. Kind' = Kind /\ Busy' = Busy
    BY <2>1 DEF Kind, Record, Busy
  <2>5. Plans(Kind)' = Plans(Kind)
    BY <2>4 DEF Plans
  <2>6. TypedWork'
    BY <1>1, <2>1, <2>4, <2>5 DEF TypedWork
  <2> QED
    BY <1>2, <1>3, <2>1, <2>3, <2>6, TypedNextOfParts
<1>16. CASE Crash
  <2>1. /\ phase' = "down" /\ listHead' = << >> /\ dead' = dead \cup (ToSet(listHead) \ early)
        /\ ~Busy' /\ todo' = << >> /\ info' = NULL /\ MayFail
        /\ total' = [k \in Counted |-> 0] /\ day' = Never /\ count' = 0 /\ g_pushStatus' = "new"
        /\ UNCHANGED <<station, now, seen, rows, traj, done, early, noRow, misread, tied,
                       totalDay, offDay>>
    BY <1>16 DEF Crash, dataVars, MayFail, Fails, Busy
  <2>2. Kinds' = Kinds /\ Times' = Times /\ Sightings' = Sightings
    BY <2>1 DEF Kinds, Times, Sightings
  <2>3. trouble' \in Nat /\ Len(seen) + trouble' <= MaxEvents
    BY <1>1, <2>1 DEF MayFail, TypedRecords
  <2>4. TypedRecords'
    BY <1>1, <2>1, <2>2, <2>3, NoPlanSteps DEF TypedRecords
  <2>5. TypedWork'
    BY <1>1, <2>1, NoPlanSteps DEF TypedWork
  <2>6. TypedTotals'
    BY <1>1, <2>1 DEF TypedTotals
  <2> QED
    BY <1>2, <2>1, <2>4, <2>5, <2>6, TypedNextOfParts
<1>17. CASE Restart
  <2>1. /\ phase = "down" /\ phase' = "cameras"
        /\ UNCHANGED <<station, now, seen, listHead, todo, info, count, total, day, rows, traj,
                       g_pushStatus, trouble, done, early, dead, noRow, misread, tied, noTraj,
                       totalDay, offDay>>
    BY <1>17 DEF Restart, threadVars, dataVars, histVars
  <2>2. Kinds' = Kinds /\ Times' = Times /\ Sightings' = Sightings
    BY <2>1 DEF Kinds, Times, Sightings
  <2>3. TypedRecords'
    BY <1>1, <2>1, <2>2 DEF TypedRecords
  <2>4. ~Busy /\ ~Busy'
    BY <1>1, <2>1 DEF TypedWork, Busy
  <2>5. TypedWork'
    BY <1>1, <2>1, <2>4 DEF TypedWork
  <2> QED
    BY <1>2, <1>3, <2>1, <2>3, <2>5, TypedNextOfParts
<1> QED
  BY <1>4, <1>5, <1>6, <1>7, <1>8, <1>9, <1>10, <1>11, <1>12, <1>13, <1>14, <1>15, <1>16, <1>17
  DEF Next, RecordThread
-----------------------------------------------------------------------------
(***************************************************************************)
(* The records: their places and their times.                              *)
(***************************************************************************)

LEMMA ListedNext ==
    ASSUME Typed, Listed, [Next]_vars
    PROVE  Listed'
<1>1. (UNCHANGED <<seen, phase, listHead, done, early, dead>>) => Listed'
  BY DEF Listed
<1>2. /\ listHead \in Seq(Records) /\ DOMAIN listHead = 1 .. Len(listHead) /\ Len(listHead) \in Nat
      /\ \A n \in DOMAIN listHead : listHead[n] \in ToSet(listHead) /\ listHead[n] \in Nat
      /\ DOMAIN seen \subseteq Nat /\ ToSet(listHead) \subseteq DOMAIN seen
  BY ListContext, Context
<1>3. CASE RecordThread /\ ~DelHandle
  <2>1. UNCHANGED records
    BY <1>3, CountsAdvance, AddInfoAdvances, SetInfoAdvances, AddTrajectoryAdvances,
       UpdateTrajectoryAdvances
    DEF RecordThread, Advances, GetNextHandle, Look, records, world, histVars
  <2> QED
    BY <1>1, <2>1 DEF records
<1>4. CASE ThreadStart \/ ThreadRateOfProgress \/ PushMqttApiTask \/ UNCHANGED vars
  BY <1>1, <1>4, QuietSteps DEF records
<1>5. CASE Tick
  BY <1>1, <1>5 DEF Tick, histVars
<1>6. CASE DelHandle
  <2>1. /\ Busy /\ done' = done \cup {Record}
        /\ listHead' \in Seq(Records)
        /\ \A n \in DOMAIN listHead' : n + 1 \in DOMAIN listHead /\ listHead'[n] = listHead[n + 1]
        /\ ToSet(listHead) = ToSet(listHead') \cup {Record}
        /\ UNCHANGED <<seen, phase, early, dead>>
    BY <1>6, DropsRecord
  <2>2. phase = "run" /\ Record = listHead[1] /\ 1 \in DOMAIN listHead /\ Record \in Nat
    BY <1>2, <2>1, BusyContext
  <2>3. /\ \A m, n \in DOMAIN listHead : m < n => listHead[m] < listHead[n]
        /\ \A q \in done \cup early \cup dead, n \in DOMAIN listHead : q < listHead[n]
    BY <2>2 DEF Listed
  <2>4. DOMAIN seen' = ToSet(listHead') \cup done' \cup early' \cup dead'
    BY <2>1 DEF Listed
  <2>5. Record \notin early \cup dead
    BY <2>2, <2>3
  <2>6. done' \cap (early' \cup dead') = {}
    BY <2>1, <2>5 DEF Listed
  <2>7. \A m, n \in DOMAIN listHead' : m < n => listHead'[m] < listHead'[n]
    <3>1. TAKE m, n \in DOMAIN listHead'
    <3>2. m \in Nat /\ n \in Nat
      BY <2>1
    <3> QED
      BY <2>1, <2>3, <3>1, <3>2
  <2>8. \A q \in done' \cup early' \cup dead', n \in DOMAIN listHead' : q < listHead'[n]
    <3>1. TAKE q \in done' \cup early' \cup dead', n \in DOMAIN listHead'
    <3>2. n \in Nat /\ n >= 1 /\ n + 1 \in DOMAIN listHead /\ listHead'[n] = listHead[n + 1]
      BY <2>1
    <3>3. q = Record \/ q \in done \cup early \cup dead
      BY <2>1
    <3> QED
      BY <2>2, <2>3, <3>2, <3>3
  <2> QED
    BY <2>1, <2>2, <2>4, <2>6, <2>7, <2>8 DEF Listed
<1>7. CASE \E kind \in Kinds, plate \in Plates \cup {NoPlate} : AddVehicleInfo(kind, plate)
  <2> DEFINE new == Len(seen) + 1
  <2>1. /\ phase # "down"
        /\ DOMAIN seen' = DOMAIN seen \cup {new} /\ new \notin DOMAIN seen
        /\ \A r \in DOMAIN seen : r < new
        /\ listHead' \in Seq(Records) /\ Len(listHead') = Len(listHead) + 1
        /\ \A n \in DOMAIN listHead : listHead'[n] = listHead[n]
        /\ listHead'[Len(listHead) + 1] = new
        /\ ToSet(listHead') = ToSet(listHead) \cup {new}
        /\ early' = IF phase = "cameras" THEN early \cup {new} ELSE early
        /\ UNCHANGED <<phase, done, dead>>
    BY <1>7, AddsRecord
  <2> HIDE DEF new
  <2>2. done \cup early \cup dead \subseteq DOMAIN seen
    BY DEF Listed
  <2>3. DOMAIN seen' = ToSet(listHead') \cup done' \cup early' \cup dead'
    BY <2>1 DEF Listed
  <2>4. done' \cap (early' \cup dead') = {}
    BY <2>1, <2>2 DEF Listed
  <2>5. DOMAIN listHead' = DOMAIN listHead \cup {Len(listHead) + 1}
    BY <1>2, <2>1
  <2>6. \A m, n \in DOMAIN listHead' : m < n => listHead'[m] < listHead'[n]
    <3>1. TAKE m, n \in DOMAIN listHead'
    <3>2. CASE n \in DOMAIN listHead
      BY <1>2, <2>1, <2>5, <3>2 DEF Listed
    <3>3. CASE n = Len(listHead) + 1
      BY <1>2, <2>1, <2>5, <3>3
    <3> QED
      BY <2>5, <3>2, <3>3
  <2>7. phase' = "run" => \A q \in done' \cup early' \cup dead', n \in DOMAIN listHead' : q < listHead'[n]
    BY <2>1, <2>2, <2>5 DEF Listed
  <2>8. phase' = "cameras" => /\ ToSet(listHead') \subseteq early'
                              /\ ToSet(listHead') \cap (done' \cup dead') = {}
    BY <2>1, <2>2 DEF Listed
  <2> QED
    BY <2>1, <2>3, <2>4, <2>6, <2>7, <2>8 DEF Listed
<1>8. CASE VehicleDataAnalysisManageInit
  <2>1. /\ phase = "cameras" /\ phase' = "run" /\ listHead' = << >>
        /\ UNCHANGED <<seen, done, early, dead>>
    BY <1>8 DEF VehicleDataAnalysisManageInit
  <2> QED
    BY <2>1, NoPlanSteps DEF Listed
<1>9. CASE Crash
  <2>1. /\ phase' = "down" /\ listHead' = << >> /\ dead' = dead \cup (ToSet(listHead) \ early)
        /\ UNCHANGED <<seen, done, early>> /\ phase # "down"
    BY <1>9 DEF Crash
  <2>2. DOMAIN seen' = ToSet(listHead') \cup done' \cup early' \cup dead'
    BY <2>1, NoPlanSteps DEF Listed
  <2>3. ToSet(listHead) \cap done = {}
    <3>1. CASE phase = "run"
      <4>1. \A q \in done, n \in DOMAIN listHead : q < listHead[n]
        BY <3>1 DEF Listed
      <4>2. SUFFICES ASSUME NEW x \in ToSet(listHead), x \in done PROVE FALSE
        OBVIOUS
      <4>3. PICK n \in DOMAIN listHead : x = listHead[n]
        BY ListContext
      <4> QED
        BY <1>2, <4>1, <4>2, <4>3
    <3>2. CASE phase = "cameras"
      BY <3>2 DEF Listed
    <3> QED
      BY <2>1, <3>1, <3>2, TypedHasParts DEF TypedRecords
  <2>4. done' \cap (early' \cup dead') = {}
    BY <2>1, <2>3 DEF Listed
  <2> QED
    BY <2>1, <2>2, <2>4, NoPlanSteps DEF Listed
<1>10. CASE Restart
  <2>1. /\ phase = "down" /\ phase' = "cameras" /\ UNCHANGED <<seen, listHead, done, early, dead>>
    BY <1>10 DEF Restart, histVars
  <2> QED
    BY <2>1, NoPlanSteps DEF Listed
<1> QED
  BY <1>3, <1>4, <1>5, <1>6, <1>7, <1>8, <1>9, <1>10 DEF Next, RecordThread

LEMMA TimedNext ==
    ASSUME Typed, Timed, [Next]_vars
    PROVE  Timed'
<1>1. UNCHANGED <<seen, now>> => Timed'
  BY DEF Timed
<1>2. now \in Nat /\ \A r \in DOMAIN seen : r \in Nat /\ seen[r].time \in Nat
  BY Context
<1>3. CASE RecordThread
  <2>1. CASE DelHandle
    BY <1>1, <2>1, DropsRecord
  <2>2. CASE RecordThread /\ ~DelHandle
    BY <1>1, <2>2, CountsAdvance, AddInfoAdvances, SetInfoAdvances, AddTrajectoryAdvances,
       UpdateTrajectoryAdvances
    DEF RecordThread, Advances, GetNextHandle, Look, records, world
  <2> QED
    BY <1>3, <2>1, <2>2
<1>4. CASE \E kind \in Kinds, plate \in Plates \cup {NoPlate} : AddVehicleInfo(kind, plate)
  <2>0. PICK kind \in Kinds, plate \in Plates \cup {NoPlate} : AddVehicleInfo(kind, plate)
    BY <1>4
  <2> DEFINE new == Len(seen) + 1
  <2>1. /\ DOMAIN seen' = DOMAIN seen \cup {new} /\ new \notin DOMAIN seen
        /\ \A r \in DOMAIN seen : r < new /\ seen'[r] = seen[r]
        /\ seen'[new] = [type |-> kind, plateNo |-> plate, time |-> now] /\ now' = now
    BY <2>0, AddsRecord
  <2>2. seen'[new].time = now /\ new \in Nat
    BY <2>1, Context
  <2> HIDE DEF new
  <2>3. ASSUME NEW r \in DOMAIN seen', NEW q \in DOMAIN seen', q <= r
        PROVE  seen'[r].time <= now' /\ seen'[q].time <= seen'[r].time
    <3>1. CASE r = new
      BY <1>2, <2>1, <2>2, <3>1 DEF Timed
    <3>2. CASE r \in DOMAIN seen
      <4>1. q \in DOMAIN seen
        BY <1>2, <2>1, <2>2, <2>3, <3>2
      <4> QED
        BY <2>1, <2>3, <3>2, <4>1 DEF Timed
    <3> QED
      BY <2>1, <3>1, <3>2
  <2>4. \A r \in DOMAIN seen' : r <= r
    BY <1>2, <2>1, <2>2
  <2> QED
    BY <2>3, <2>4 DEF Timed
<1>5. CASE Tick
  <2>1. now' \in Nat /\ now' > now /\ seen' = seen
    BY <1>5, Context DEF Tick
  <2> QED
    BY <1>2, <2>1 DEF Timed
<1>6. CASE \/ VehicleDataAnalysisManageInit \/ Crash \/ Restart \/ ThreadStart
           \/ ThreadRateOfProgress \/ PushMqttApiTask \/ UNCHANGED vars
  BY <1>1, <1>6
  DEF VehicleDataAnalysisManageInit, Crash, Restart, ThreadStart, ThreadRateOfProgress,
      PushMqttApiTask, vars, world
<1> QED
  BY <1>3, <1>4, <1>5, <1>6 DEF Next
-----------------------------------------------------------------------------
(***************************************************************************)
(* The rows, and what the search has found.                                *)
(***************************************************************************)

\* A step of a plan without a change of rows.
Passes ==
    /\ Advances(Steps \ {"end"})
    /\ rows' = rows
    /\ noRow' = IF Head(todo) = "add" THEN noRow \cup {Record} ELSE noRow

RowAdded ==
    /\ Advances({"add"})
    /\ rows' = [rows EXCEPT ![Record] = [by |-> Record, start |-> Time, end |-> Time]]
    /\ UNCHANGED <<traj, noRow, noTraj, count, total, day, totalDay, offDay>>

RowSet ==
    /\ Advances({"set"})
    /\ rows' = [rows EXCEPT ![info] =
                  [by |-> Record, end |-> Time,
                   start |-> IF Kind \in {"Frontage", "Island"} THEN Time ELSE rows[info].start]]
    /\ offDay' = (offDay \/ (Kind = "Frontage" /\ Day(rows[info].start) # Day(Time)))
    /\ UNCHANGED <<traj, noRow, noTraj, count, total, day, totalDay>>

LEMMA ThreadSteps ==
    ASSUME RecordThread
    PROVE  GetNextHandle \/ Look \/ Passes \/ RowAdded \/ RowSet \/ DelHandle
<1>1. \A steps : Advances(steps) /\ steps \subseteq Steps /\ "end" \notin steps
                    => Advances(Steps \ {"end"})
  BY DEF Advances
<1>2. /\ {"load", "count", "push", "tell"} \subseteq Steps /\ {"add"} \subseteq Steps
      /\ {"set"} \subseteq Steps /\ {"trajadd"} \subseteq Steps /\ {"trajset"} \subseteq Steps
  BY DEF Steps
<1>3. CASE LoadTotal \/ StoreTotal \/ PushMqttMsg
  <2>1. Advances({"load", "count", "push", "tell"}) /\ rows' = rows /\ noRow' = noRow
    BY <1>3, CountsAdvance DEF tables
  <2>2. Head(todo) # "add"
    BY <2>1 DEF Advances
  <2> QED
    BY <1>1, <1>2, <2>1, <2>2 DEF Passes
<1>4. CASE AddInfo
  <2>1. Advances(Steps \ {"end"}) /\ Head(todo) = "add"
    BY <1>1, <1>2, <1>4, AddInfoAdvances DEF Advances
  <2> QED
    BY <1>4, <2>1, AddInfoAdvances DEF Passes, RowAdded
<1>5. CASE SetInfo
  <2>1. Advances(Steps \ {"end"}) /\ Head(todo) = "set"
    BY <1>1, <1>2, <1>5, SetInfoAdvances DEF Advances
  <2> QED
    BY <1>5, <2>1, SetInfoAdvances DEF Passes, RowSet
<1>6. CASE AddTrajectoryInfo
  <2>1. Advances(Steps \ {"end"}) /\ Head(todo) = "trajadd"
    BY <1>1, <1>2, <1>6, AddTrajectoryAdvances DEF Advances
  <2> QED
    BY <1>6, <2>1, AddTrajectoryAdvances DEF Passes
<1>7. CASE UpdateTrajectoryInfo
  <2>1. Advances(Steps \ {"end"}) /\ Head(todo) = "trajset"
    BY <1>1, <1>2, <1>7, UpdateTrajectoryAdvances DEF Advances
  <2> QED
    BY <1>7, <2>1, UpdateTrajectoryAdvances DEF Passes
<1> QED
  BY <1>3, <1>4, <1>5, <1>6, <1>7 DEF RecordThread

\* The fields of rows.
LEMMA RowFields ==
    ASSUME Typed
    PROVE  /\ DOMAIN rows = Records
           /\ \A r \in Records : /\ rows[r].by \in Records \cup {NULL}
                                 /\ rows[r].start \in Dates /\ rows[r].end \in Dates
           /\ Dates \subseteq Int
<1>1. TypedTables /\ Times \subseteq Nat
  BY TypedHasParts, Context
<1> QED
  BY <1>1 DEF TypedTables, Dates, Never

\* Rows of kinds, when nothing is inserted ...
LEMMA RowsSame ==
    ASSUME UNCHANGED <<seen, rows>>
    PROVE  \A k : /\ Rows(k)' = Rows(k)
                  /\ \A p : RowsOf(k, p)' = RowsOf(k, p)
                  /\ \A d : RowsOfDay(k, d)' = RowsOfDay(k, d)
  BY DEF Rows, RowsOf, RowsOfDay

\* ... when a row is inserted or changed ...
LEMMA RowsChange ==
    ASSUME Typed, NEW x \in DOMAIN seen, NEW v, v # NoRow, seen' = seen,
           rows' = [rows EXCEPT ![x] = v]
    PROVE  /\ rows'[x] = v /\ \A r \in DOMAIN seen : r # x => rows'[r] = rows[r]
           /\ \A r \in Records : r # x => rows'[r] = rows[r]
           /\ \A k : Rows(k)' = Rows(k) \cup (IF seen[x].type = k THEN {x} ELSE {})
           /\ \A k, p : RowsOf(k, p)' = RowsOf(k, p) \cup
                                 (IF seen[x].type = k /\ seen[x].plateNo = p THEN {x} ELSE {})
<1>1. DOMAIN rows = Records /\ DOMAIN seen \subseteq Records
  BY RowFields, Context
<1>2. rows'[x] = v /\ \A r \in Records : r # x => rows'[r] = rows[r]
  BY <1>1
<1>3. \A k : Rows(k)' = Rows(k) \cup (IF seen[x].type = k THEN {x} ELSE {})
  BY <1>1, <1>2 DEF Rows
<1>4. \A k, p : RowsOf(k, p)' = RowsOf(k, p) \cup
                            (IF seen[x].type = k /\ seen[x].plateNo = p THEN {x} ELSE {})
  BY <1>3 DEF RowsOf
<1> QED
  BY <1>1, <1>2, <1>3, <1>4

\* ... and when a sighting is added.
LEMMA RowsOfOld ==
    ASSUME Typed, RowsMade, rows' = rows, NEW new, new \in Records, new \notin DOMAIN seen,
           DOMAIN seen' = DOMAIN seen \cup {new}, \A r \in DOMAIN seen : seen'[r] = seen[r]
    PROVE  /\ rows[new] = NoRow
           /\ \A k : /\ Rows(k)' = Rows(k)
                     /\ \A p : RowsOf(k, p)' = RowsOf(k, p)
                     /\ \A d : RowsOfDay(k, d)' = RowsOfDay(k, d)
<1>1. rows[new] = NoRow
  BY DEF RowsMade
<1>2. \A k : Rows(k)' = Rows(k)
  BY <1>1 DEF Rows
<1>3. \A k : Rows(k) \subseteq DOMAIN seen
  BY DEF Rows
<1>4. \A k, p : RowsOf(k, p)' = RowsOf(k, p)
  BY <1>2, <1>3 DEF RowsOf
<1>5. \A k, d : RowsOfDay(k, d)' = RowsOfDay(k, d)
  BY <1>2, <1>3 DEF RowsOfDay
<1> QED
  BY <1>1, <1>2, <1>4, <1>5

\* No record comes before the first one, in number or in time.
LEMMA FirstOfAll ==
    ASSUME Typed, Listed, Timed, listHead # << >>
    PROVE  /\ Time <= now /\ Time \in Times /\ Time \in Nat
           /\ \A x \in ToSet(listHead) : Record <= x /\ Time <= seen[x].time
<1>1. /\ 1 \in DOMAIN listHead /\ Record = listHead[1] /\ Record \in DOMAIN seen
      /\ DOMAIN listHead = 1 .. Len(listHead) /\ Len(listHead) \in Nat
  BY ListContext
<1>2. Time = seen[Record].time
  BY DEF Time
<1>3. ASSUME NEW x \in ToSet(listHead) PROVE Record <= x /\ Time <= seen[x].time
  <2>1. PICK n \in DOMAIN listHead : x = listHead[n]
    BY ListContext
  <2>2. x \in DOMAIN seen /\ x \in Nat /\ Record \in Nat
    BY <1>1, ListContext, Context
  <2>3. Record <= x
    BY <1>1, <2>1, <2>2 DEF Listed
  <2> QED
    BY <1>1, <1>2, <2>2, <2>3 DEF Timed
<1> QED
  BY <1>1, <1>2, <1>3, Context DEF Timed

LEMMA RowsMadeNext ==
    ASSUME Typed, Listed, Timed, RowsMade, Found, [Next]_vars
    PROVE  RowsMade'
<1>1. /\ now \in Nat /\ DOMAIN seen \subseteq Records
      /\ \A r \in DOMAIN seen : r \in Nat /\ seen[r].time \in Nat
      /\ Times \subseteq Nat
  BY Context
<1>2. CASE GetNextHandle \/ Look
  <2>1. ~Busy /\ UNCHANGED records /\ rows' = rows
    BY <1>2, GetNextResult, LookResult DEF tables
  <2> QED
    BY <2>1 DEF RowsMade, records, Times
<1>3. CASE Passes
  <2>1. UNCHANGED records /\ rows' = rows /\ Busy' /\ Record' = Record
        /\ (Has(todo', "add") => Has(todo, "add"))
    BY <1>3, AdvancesTo DEF Passes, Advances
  <2> QED
    BY <2>1 DEF RowsMade, records, Times
<1>4. CASE RowAdded
  <2>1. Busy /\ UNCHANGED records /\ Busy' /\ Record' = Record /\ ~Has(todo', "add")
    BY <1>4, AdvancesTo DEF RowAdded, Advances
  <2> DEFINE v == [by |-> Record, start |-> Time, end |-> Time]
  <2>2. Record \in DOMAIN seen /\ Record \in Records /\ listHead # << >>
    BY <2>1, BusyContext
  <2>3. v # NoRow
    BY <2>2, Context DEF NoRow
  <2>4. v.by = Record /\ v.start = Time /\ v.end = Time
    OBVIOUS
  <2> HIDE DEF v
  <2>5. rows'[Record] = v /\ \A r \in Records : r # Record => rows'[r] = rows[r]
    BY <1>4, <2>1, <2>2, <2>3, RowsChange DEF RowAdded, records, v
  <2>6. Time <= now /\ Time \in Times /\ \A x \in ToSet(listHead) : Time <= seen[x].time
    BY <2>2, FirstOfAll
  <2>7. UNCHANGED <<seen, now, listHead, station>>
    BY <2>1 DEF records
  <2>8. ASSUME NEW r \in Records, rows'[r] # NoRow
        PROVE  /\ r \in DOMAIN seen /\ rows'[r].by \in DOMAIN seen
               /\ rows'[r].start \in Times /\ rows'[r].end \in Times /\ rows'[r].start <= now
               /\ \A x \in ToSet(listHead) : rows'[r].start <= seen[x].time
               /\ r \in ToSet(listHead) => r = Record
    <3>1. CASE r = Record
      BY <2>2, <2>4, <2>5, <2>6, <3>1
    <3>2. CASE r # Record
      BY <2>5, <2>8, <3>2 DEF RowsMade
    <3> QED
      BY <3>1, <3>2
  <2> QED
    BY <2>1, <2>7, <2>8 DEF RowsMade, Times
<1>5. CASE RowSet
  <2>1. Busy /\ UNCHANGED records /\ Busy' /\ Record' = Record
        /\ (Has(todo', "add") => Has(todo, "add")) /\ Has(todo, "set")
    BY <1>5, AdvancesTo, BusyContext DEF RowSet, Advances, PlanFacts
  <2> DEFINE v == [by |-> Record, end |-> Time,
                   start |-> IF Kind \in {"Frontage", "Island"} THEN Time ELSE rows[info].start]
  <2>2. Record \in DOMAIN seen /\ Record \in Records /\ listHead # << >>
    BY <2>1, BusyContext
  <2>3. info \in DOMAIN seen /\ info # Record /\ rows[info] # NoRow
    BY <2>1 DEF Found, Rows
  <2>4. v # NoRow
    BY <2>2, Context DEF NoRow
  <2>5. v.by = Record /\ v.end = Time /\ v.start \in {Time, rows[info].start}
    OBVIOUS
  <2> HIDE DEF v
  <2>6. rows'[info] = v /\ \A r \in Records : r # info => rows'[r] = rows[r]
    <3>1. rows' = [rows EXCEPT ![info] = v] /\ seen' = seen
      BY <1>5, <2>1 DEF RowSet, records, v
    <3> QED
      BY <2>3, <2>4, <3>1, RowsChange
  <2>7. Time <= now /\ Time \in Times /\ \A x \in ToSet(listHead) : Time <= seen[x].time
    BY <2>2, FirstOfAll
  <2>8. UNCHANGED <<seen, now, listHead, station>>
    BY <2>1 DEF records
  <2>9. info \notin ToSet(listHead) /\ info \in Records
    BY <1>1, <2>3 DEF RowsMade
  <2>10. ASSUME NEW r \in Records, rows'[r] # NoRow
         PROVE  /\ r \in DOMAIN seen /\ rows'[r].by \in DOMAIN seen
                /\ rows'[r].start \in Times /\ rows'[r].end \in Times /\ rows'[r].start <= now
                /\ \A x \in ToSet(listHead) : rows'[r].start <= seen[x].time
                /\ r \in ToSet(listHead) => r = Record /\ ~Has(todo, "add")
    <3>1. CASE r = info
      <4>1. /\ rows[info].start \in Times /\ rows[info].start <= now
            /\ \A x \in ToSet(listHead) : rows[info].start <= seen[x].time
        BY <2>3, <2>9 DEF RowsMade
      <4> QED
        BY <2>2, <2>3, <2>5, <2>6, <2>7, <2>9, <3>1, <4>1
    <3>2. CASE r # info
      BY <2>6, <2>10, <3>2 DEF RowsMade
    <3> QED
      BY <3>1, <3>2
  <2> QED
    BY <2>1, <2>8, <2>10 DEF RowsMade, Times
<1>6. CASE DelHandle
  <2>1. /\ Busy /\ listHead' \in Seq(Records)
        /\ \A n \in DOMAIN listHead' : n + 1 \in DOMAIN listHead /\ listHead'[n] = listHead[n + 1]
        /\ ToSet(listHead) = ToSet(listHead') \cup {Record}
        /\ UNCHANGED <<station, now, seen, rows>>
    BY <1>6, DropsRecord
  <2>2. Record \notin ToSet(listHead')
    <3>1. SUFFICES ASSUME Record \in ToSet(listHead') PROVE FALSE
      OBVIOUS
    <3>2. PICK n \in DOMAIN listHead' : Record = listHead'[n]
      BY <3>1 DEF ToSet
    <3>3. n \in Nat /\ n >= 1 /\ n + 1 \in DOMAIN listHead /\ Record = listHead[n + 1]
      BY <2>1, <3>2
    <3>4. 1 \in DOMAIN listHead /\ Record = listHead[1] /\ Record \in Nat
      BY <1>1, <2>1, BusyContext
    <3>5. \A i, j \in DOMAIN listHead : i < j => listHead[i] < listHead[j]
      BY DEF Listed
    <3>6. 1 < n + 1
      BY <3>3
    <3>7. listHead[1] < listHead[n + 1]
      BY <3>3, <3>4, <3>5, <3>6
    <3> QED
      BY <3>3, <3>4, <3>7
  <2> QED
    BY <2>1, <2>2 DEF RowsMade, Times
<1>7. CASE \E kind \in Kinds, plate \in Plates \cup {NoPlate} : AddVehicleInfo(kind, plate)
  <2>0. PICK kind \in Kinds, plate \in Plates \cup {NoPlate} : AddVehicleInfo(kind, plate)
    BY <1>7
  <2> DEFINE new == Len(seen) + 1
  <2>1. /\ new \in Records
        /\ DOMAIN seen' = DOMAIN seen \cup {new} /\ new \notin DOMAIN seen
        /\ \A r \in DOMAIN seen : r < new /\ seen'[r] = seen[r]
        /\ seen'[new] = [type |-> kind, plateNo |-> plate, time |-> now]
        /\ ToSet(listHead') = ToSet(listHead) \cup {new}
        /\ listHead # << >> => Record' = Record
        /\ UNCHANGED <<station, now, todo, rows>>
    BY <2>0, AddsRecord
  <2>2. seen'[new].time = now
    BY <2>1
  <2> HIDE DEF new
  <2>3. ToSet(listHead) \subseteq DOMAIN seen /\ Busy' = Busy /\ (Busy => Record' = Record)
    BY <2>1, BusyContext, ListContext DEF Busy
  <2>4. ASSUME NEW r \in Records, rows[r] # NoRow
        PROVE  /\ r \in DOMAIN seen' /\ rows[r].by \in DOMAIN seen'
               /\ rows[r].start \in Times /\ rows[r].end \in Times /\ rows[r].start <= now
               /\ \A x \in ToSet(listHead') : rows[r].start <= seen'[x].time
               /\ r \in ToSet(listHead') => Busy /\ r = Record /\ ~Has(todo, "add")
    <3>1. /\ r \in DOMAIN seen /\ rows[r].by \in DOMAIN seen
          /\ rows[r].start \in Times /\ rows[r].end \in Times /\ rows[r].start <= now
          /\ \A x \in ToSet(listHead) : rows[r].start <= seen[x].time
          /\ r \in ToSet(listHead) => Busy /\ r = Record /\ ~Has(todo, "add")
      BY <2>4 DEF RowsMade
    <3>2. ASSUME NEW x \in ToSet(listHead') PROVE rows[r].start <= seen'[x].time
      <4>1. CASE x = new
        BY <2>2, <3>1, <4>1
      <4>2. CASE x \in ToSet(listHead)
        <5>1. x \in DOMAIN seen /\ seen'[x] = seen[x]
          BY <2>1, <2>3, <4>2
        <5>2. rows[r].start <= seen[x].time
          BY <3>1, <4>2
        <5> QED
          BY <5>1, <5>2
      <4> QED
        BY <2>1, <4>1, <4>2
    <3>3. r # new
      BY <2>1, <3>1
    <3> QED
      BY <2>1, <3>1, <3>2, <3>3
  <2> QED
    BY <2>1, <2>3, <2>4 DEF RowsMade, Times
<1>8. CASE VehicleDataAnalysisManageInit \/ Crash
  <2>1. listHead' = << >> /\ UNCHANGED <<station, now, seen, rows>>
    BY <1>8 DEF VehicleDataAnalysisManageInit, Crash, dataVars
  <2> QED
    BY <2>1, NoPlanSteps DEF RowsMade, Times
<1>9. CASE ThreadStart \/ ThreadRateOfProgress \/ PushMqttApiTask \/ UNCHANGED vars
  <2>1. UNCHANGED <<records, rows, todo>>
    BY <1>9, QuietSteps DEF tables
  <2> QED
    BY <2>1 DEF RowsMade, records, Times, Busy, Record
<1>10. CASE Tick
  <2>1. now' > now /\ now' \in Nat /\ UNCHANGED <<station, seen, listHead, rows, todo>>
    BY <1>10, Context DEF Tick, threadVars, dataVars
  <2> QED
    BY <1>1, <2>1 DEF RowsMade, Times, Busy, Record
<1>11. CASE Restart
  BY <1>11 DEF Restart, threadVars, dataVars, RowsMade, Times, Busy, Record
<1> QED
  BY <1>2, <1>3, <1>4, <1>5, <1>6, <1>7, <1>8, <1>9, <1>10, <1>11, ThreadSteps DEF Next

LEMMA FoundNext ==
    ASSUME Typed, RowsMade, Found, [Next]_vars
    PROVE  Found'
<1>1. DOMAIN seen \subseteq Records /\ NULL \notin Records
  BY Context
<1>2. \A k : Rows(k) \subseteq DOMAIN seen
  BY DEF Rows
<1>3. CASE GetNextHandle
  <2>1. /\ listHead # << >> /\ UNCHANGED records /\ Busy' /\ info' = NULL
        /\ ~Has(todo', "set") /\ ~Has(todo', "trajset")
        /\ \/ Kind = "Alarm"
           \/ Kind \in {"Entrance", "Wash"} /\ Plate = NoPlate /\ ~Has(todo', "add")
    BY <1>3, GetNextResult
  <2>2. Kind' = Kind /\ Plate' = Plate
    BY <2>1 DEF records, Kind, Plate, Record
  <2> QED
    BY <2>1, <2>2 DEF Found
<1>4. CASE Look
  <2>1. /\ ~Busy /\ listHead # << >> /\ UNCHANGED <<seen, listHead, rows>>
        /\ (info' # NULL => info' \in Rows(Kind) /\ (tied' \/ seen[info'].plateNo = Plate))
        /\ (Has(todo', "set") \/ Has(todo', "trajset") =>
               info' # NULL /\ Time - rows[info'].start <= Gap(Kind))
        /\ (Has(todo', "add") /\ Plate # NoPlate =>
               \/ Record \in misread'
               \/ \A q \in RowsOf(Kind, Plate) : Time - rows[q].start > Gap(Kind))
    BY <1>4, LookResult DEF records, tables
  <2>2. Kind' = Kind /\ Plate' = Plate /\ Time' = Time /\ Record' = Record
    BY <2>1 DEF Kind, Plate, Time, Record
  <2>3. Rows(Kind)' = Rows(Kind) /\ RowsOf(Kind, Plate)' = RowsOf(Kind, Plate)
    BY <2>1, <2>2 DEF Rows, RowsOf
  <2>4. Gap(Kind)' = Gap(Kind)
    BY <2>2 DEF Gap
  <2>5. info' # NULL => info' # Record
    <3>1. Record \in ToSet(listHead) /\ Record \in Records
      BY <1>1, <2>1, ListContext
    <3>2. rows[Record] = NoRow
      BY <2>1, <3>1 DEF RowsMade
    <3> QED
      BY <2>1, <3>2 DEF Rows
  <2> QED
    BY <2>1, <2>2, <2>3, <2>4, <2>5 DEF Found
<1>5. CASE Passes
  <2>1. /\ Busy /\ UNCHANGED <<seen, rows, info, misread, tied>>
        /\ \A s : Has(todo', s) => Has(todo, s)
        /\ Record' = Record /\ Kind' = Kind /\ Plate' = Plate /\ Time' = Time
    BY <1>5, AdvancesTo DEF Passes, Advances, records, findings
  <2>2. Rows(Kind)' = Rows(Kind) /\ RowsOf(Kind, Plate)' = RowsOf(Kind, Plate) /\ Gap(Kind)' = Gap(Kind)
    BY <2>1 DEF Rows, RowsOf, Gap
  <2> QED
    BY <2>1, <2>2 DEF Found
<1>6. CASE RowAdded
  <2>1. /\ Busy /\ UNCHANGED <<seen, info, misread, tied>> /\ Head(todo) = "add"
        /\ \A s : Has(todo', s) <=> Has(todo, s) /\ s # Head(todo)
        /\ Record' = Record /\ Kind' = Kind /\ Plate' = Plate /\ Time' = Time
    BY <1>6, AdvancesTo DEF RowAdded, Advances, records, findings
  <2>2. /\ Record \in DOMAIN seen /\ Record \in Records /\ Kind \in DEVICE_TYPES
        /\ ~Has(todo, "set") /\ ~Has(todo, "trajset")
    BY <2>1, BusyContext DEF PlanFacts
  <2> DEFINE v == [by |-> Record, start |-> Time, end |-> Time]
  <2>3. v # NoRow
    BY <2>2, Context DEF NoRow
  <2>4. rows' = [rows EXCEPT ![Record] = v]
    BY <1>6 DEF RowAdded
  <2> HIDE DEF v
  <2>5. Rows(Kind) \subseteq Rows(Kind)'
    <3>1. rows'[Record] = v /\ \A r \in DOMAIN seen : r # Record => rows'[r] = rows[r]
      BY <2>1, <2>2, <2>3, <2>4, RowsChange
    <3> QED
      BY <2>1, <2>2, <2>3, <2>4, <3>1 DEF Rows
  <2> QED
    BY <2>1, <2>2, <2>5 DEF Found
<1>7. CASE RowSet
  <2>1. /\ Busy /\ UNCHANGED <<seen, info, misread, tied>> /\ Head(todo) = "set"
        /\ \A s : Has(todo', s) <=> Has(todo, s) /\ s # Head(todo)
        /\ Record' = Record /\ Kind' = Kind /\ Plate' = Plate /\ Time' = Time
    BY <1>7, AdvancesTo DEF RowSet, Advances, records, findings
  <2>2. Record \in DOMAIN seen /\ Record \in Records /\ ~Has(todo, "add") /\ Has(todo, "set")
    BY <2>1, BusyContext DEF PlanFacts
  <2>3. info \in Rows(Kind) /\ info # NULL /\ info \in DOMAIN seen
    BY <1>2, <2>1, <2>2 DEF Found
  <2> DEFINE v == [by |-> Record, end |-> Time,
                   start |-> IF Kind \in {"Frontage", "Island"} THEN Time ELSE rows[info].start]
  <2>4. v # NoRow
    BY <2>2, Context DEF NoRow
  <2>5. rows' = [rows EXCEPT ![info] = v]
    BY <1>7 DEF RowSet
  <2> HIDE DEF v
  <2>6. Rows(Kind) \subseteq Rows(Kind)'
    <3>1. rows'[info] = v /\ \A r \in DOMAIN seen : r # info => rows'[r] = rows[r]
      BY <2>1, <2>3, <2>4, <2>5, RowsChange
    <3> QED
      BY <2>1, <2>3, <2>4, <2>5, <3>1 DEF Rows
  <2> QED
    BY <2>1, <2>2, <2>3, <2>6 DEF Found
<1>8. CASE DelHandle
  BY <1>8, DropsRecord DEF Found
<1>9. CASE \E kind \in Kinds, plate \in Plates \cup {NoPlate} : AddVehicleInfo(kind, plate)
  <2> DEFINE new == Len(seen) + 1
  <2>1. /\ new \in Records
        /\ DOMAIN seen' = DOMAIN seen \cup {new} /\ new \notin DOMAIN seen
        /\ \A r \in DOMAIN seen : seen'[r] = seen[r]
        /\ listHead # << >> => Record' = Record /\ Kind' = Kind /\ Plate' = Plate /\ Time' = Time
        /\ UNCHANGED <<todo, info, rows, misread, tied>>
    BY <1>9, AddsRecord
  <2> HIDE DEF new
  <2>2. \A k : Rows(k)' = Rows(k) /\ \A p : RowsOf(k, p)' = RowsOf(k, p)
    BY <2>1, RowsOfOld
  <2>3. SUFFICES ASSUME Busy' PROVE Found'
    BY DEF Found
  <2>4. Busy /\ Record' = Record /\ Kind' = Kind /\ Plate' = Plate /\ Time' = Time
    BY <2>1, <2>3, BusyContext DEF Busy
  <2>5. Rows(Kind)' = Rows(Kind)
    <3>1. Rows(Kind)' = {r \in DOMAIN seen' : seen'[r].type = Kind /\ rows'[r] # NoRow}
      BY <2>4 DEF Rows
    <3>2. {r \in DOMAIN seen' : seen'[r].type = Kind /\ rows'[r] # NoRow} = Rows(Kind)
      BY <2>2 DEF Rows
    <3> QED
      BY <3>1, <3>2
  <2>6. RowsOf(Kind, Plate)' = RowsOf(Kind, Plate)
    BY <1>2, <2>1, <2>4, <2>5 DEF RowsOf
  <2>7. Gap(Kind)' = Gap(Kind)
    BY <2>4 DEF Gap
  <2>8. info \in Rows(Kind) => seen'[info] = seen[info]
    BY <1>2, <2>1
  <2> QED
    BY <2>1, <2>4, <2>5, <2>6, <2>7, <2>8 DEF Found
<1>10. CASE VehicleDataAnalysisManageInit \/ Crash \/ Restart
  <2>1. ~Busy'
    BY <1>10, TypedHasParts
    DEF VehicleDataAnalysisManageInit, Crash, Restart, threadVars, Busy, TypedWork
  <2> QED
    BY <2>1 DEF Found
<1>11. CASE ThreadStart \/ ThreadRateOfProgress \/ PushMqttApiTask \/ UNCHANGED vars \/ Tick
  <2>1. UNCHANGED <<seen, listHead, rows, todo, info, misread, tied>>
    BY <1>11, QuietSteps DEF records, tables, findings, Tick, threadVars, dataVars, histVars
  <2> QED
    BY <2>1 DEF Found, Busy, Record, Kind, Plate, Time, Rows, RowsOf, Gap
<1> QED
  BY <1>3, <1>4, <1>5, <1>6, <1>7, <1>8, <1>9, <1>10, <1>11, ThreadSteps DEF Next
-----------------------------------------------------------------------------
(***************************************************************************)
(* Visits that are stored apart, and sightings that are stored.            *)
(***************************************************************************)

LEMMA GapIs == \A k \in DEVICE_TYPES \ {"Alarm"} : Gap(k) \in Nat
  BY DEF Gap, DEVICE_TYPES

\* Rows are not of records after the first one, nor dated later.
LEMMA RowsBefore ==
    ASSUME Typed, Listed, RowsMade, phase = "run", listHead # << >>
    PROVE  \A r \in Records : rows[r] # NoRow =>
              /\ r \in DOMAIN seen /\ rows[r].start \in Times /\ rows[r].start \in Nat
              /\ rows[r].start <= Time /\ r <= Record
              /\ ~Busy \/ Has(todo, "add") => r # Record
<1>1. TAKE r \in Records
<1>2. HAVE rows[r] # NoRow
<1>3. /\ r \in DOMAIN seen /\ rows[r].start \in Times
      /\ \A x \in ToSet(listHead) : rows[r].start <= seen[x].time
      /\ r \in ToSet(listHead) => Busy /\ r = Record /\ ~Has(todo, "add")
  BY <1>2 DEF RowsMade
<1>4. Record \in ToSet(listHead) /\ 1 \in DOMAIN listHead /\ Record = listHead[1] /\ Record \in DOMAIN seen
  BY ListContext
<1>5. rows[r].start <= Time /\ rows[r].start \in Nat /\ r \in Nat /\ Record \in Nat
  BY <1>3, <1>4, Context DEF Time
<1>6. r \in ToSet(listHead) \/ r \in done \cup early \cup dead
  BY <1>3 DEF Listed
<1>7. r \in done \cup early \cup dead => r < Record
  BY <1>4 DEF Listed
<1> QED
  BY <1>3, <1>4, <1>5, <1>6, <1>7

LEMMA VisitsApartNext ==
    ASSUME Typed, Listed, Timed, RowsMade, Found, VisitsApart, [Next]_vars
    PROVE  VisitsApart'
<1>1. /\ DOMAIN seen \subseteq Records /\ Records \subseteq Nat /\ NULL \notin Records
      /\ Kinds \subseteq DEVICE_TYPES
  BY Context
<1>2. (UNCHANGED <<station, seen, rows>> /\ misread \subseteq misread' /\ (tied => tied')) => VisitsApart'
  <2> SUFFICES ASSUME UNCHANGED <<station, seen, rows>>, misread \subseteq misread', tied => tied'
               PROVE  VisitsApart'
    OBVIOUS
  <2>1. Kinds' = Kinds /\ \A k, p : RowsOf(k, p)' = RowsOf(k, p)
    BY RowsSame DEF Kinds
  <2> QED
    BY <2>1 DEF VisitsApart
<1>3. CASE GetNextHandle \/ Look \/ Passes \/ DelHandle
  <2>1. UNCHANGED <<station, seen, rows>> /\ misread \subseteq misread' /\ (tied => tied')
    BY <1>3, GetNextResult, LookResult, DropsRecord DEF Passes, Advances, records, tables, findings
  <2> QED
    BY <1>2, <2>1
<1>4. CASE RowAdded
  <2>1. /\ Busy /\ Has(todo, "add") /\ UNCHANGED <<station, seen, misread, tied>>
        /\ rows' = [rows EXCEPT ![Record] = [by |-> Record, start |-> Time, end |-> Time]]
    BY <1>4, BusyContext DEF RowAdded, Advances, PlanFacts, records, findings
  <2>2. /\ phase = "run" /\ listHead # << >> /\ Record \in DOMAIN seen /\ Record \in Records
        /\ Time \in Nat
    BY <2>1, BusyContext
  <2> DEFINE v == [by |-> Record, start |-> Time, end |-> Time]
  <2>3. v # NoRow /\ v.by = Record /\ v.start = Time
    BY <2>2, Context DEF NoRow
  <2> HIDE DEF v
  <2>4. /\ rows'[Record] = v /\ \A r \in Records : r # Record => rows'[r] = rows[r]
        /\ \A k, p : RowsOf(k, p)' = RowsOf(k, p) \cup
                        (IF seen[Record].type = k /\ seen[Record].plateNo = p THEN {Record} ELSE {})
    BY <2>1, <2>2, <2>3, RowsChange DEF v
  <2>5. \A r \in Records : rows[r] # NoRow => r < Record
    <3>1. \A r \in Records : rows[r] # NoRow => r <= Record /\ r # Record
      BY <2>1, <2>2, RowsBefore
    <3>2. \A r \in Records : r \in Nat /\ Record \in Nat
      BY <1>1, <2>2
    <3> QED
      BY <3>1, <3>2
  <2>6. ASSUME NEW kind \in Kinds \ {"Alarm"}, NEW plate \in Plates,
               NEW q \in RowsOf(kind, plate)', NEW r \in RowsOf(kind, plate)', q < r
        PROVE  r \in misread \/ rows'[r].start - rows'[q].start > Gap(kind)
    <3>1. \A x \in RowsOf(kind, plate) : x \in Records /\ rows[x] # NoRow
      BY <1>1 DEF RowsOf, Rows
    <3>2. \A x \in RowsOf(kind, plate) : x < Record /\ rows'[x] = rows[x] /\ x \in Nat
      <4>1. \A x \in RowsOf(kind, plate) : x \in Nat /\ x < Record
        BY <1>1, <2>5, <3>1
      <4>2. \A x \in RowsOf(kind, plate) : x # Record
        BY <1>1, <2>2, <4>1
      <4> QED
        BY <2>4, <3>1, <4>1, <4>2
    <3>3. q \in RowsOf(kind, plate)
      <4>1. q \in RowsOf(kind, plate) \cup {Record} /\ r \in RowsOf(kind, plate) \cup {Record}
        BY <2>4
      <4>2. Record \in Nat
        BY <1>1, <2>2
      <4>3. q # Record
        BY <2>6, <3>2, <4>1, <4>2
      <4> QED
        BY <4>1, <4>3
    <3>4. CASE r = Record
      <4>0. r \notin RowsOf(kind, plate)
        BY <1>1, <2>2, <3>2, <3>4
      <4>1. Kind = kind /\ Plate = plate /\ Plate # NoPlate
        BY <2>4, <3>4, <4>0 DEF Kind, Plate, Plates, NoPlate
      <4>2. Record \in misread \/ Time - rows[q].start > Gap(kind)
        BY <2>1, <3>3, <4>1 DEF Found
      <4> QED
        BY <2>3, <2>4, <3>2, <3>3, <3>4, <4>2
    <3>5. CASE r # Record
      <4>1. r \in RowsOf(kind, plate)
        BY <2>4, <3>5
      <4> QED
        BY <2>6, <3>2, <3>3, <4>1 DEF VisitsApart
    <3> QED
      BY <3>4, <3>5
  <2>7. tied \/ \A r \in Records : rows'[r] # NoRow => seen[rows'[r].by].plateNo = seen[r].plateNo
    BY <2>3, <2>4 DEF VisitsApart
  <2> QED
    BY <2>1, <2>6, <2>7 DEF VisitsApart, Kinds
<1>5. CASE RowSet
  <2>1. /\ Busy /\ Has(todo, "set") /\ UNCHANGED <<station, seen, misread, tied>>
        /\ rows' = [rows EXCEPT ![info] =
                      [by |-> Record, end |-> Time,
                       start |-> IF Kind \in {"Frontage", "Island"} THEN Time ELSE rows[info].start]]
    BY <1>5, BusyContext DEF RowSet, Advances, PlanFacts, records, findings
  <2>2. /\ phase = "run" /\ listHead # << >> /\ Record \in DOMAIN seen /\ Record \in Records
        /\ Time \in Nat /\ Kind \in DEVICE_TYPES /\ Kind # "Alarm"
    BY <2>1, BusyContext DEF PlanFacts
  <2>3. /\ info \in Rows(Kind) /\ info \in DOMAIN seen /\ seen[info].type = Kind
        /\ rows[info] # NoRow /\ info \in Records
        /\ Time - rows[info].start <= Gap(Kind)
        /\ tied \/ seen[info].plateNo = Plate
    BY <1>1, <2>1 DEF Found, Rows
  <2> DEFINE v == [by |-> Record, end |-> Time,
                   start |-> IF Kind \in {"Frontage", "Island"} THEN Time ELSE rows[info].start]
  <2>4. v # NoRow /\ v.by = Record /\ v.start \in {Time, rows[info].start}
    BY <2>2, Context DEF NoRow
  <2>5. rows' = [rows EXCEPT ![info] = v]
    BY <2>1
  <2> HIDE DEF v
  <2>6. /\ rows'[info] = v /\ \A r \in Records : r # info => rows'[r] = rows[r]
        /\ \A k, p : RowsOf(k, p)' = RowsOf(k, p) \cup
                        (IF seen[info].type = k /\ seen[info].plateNo = p THEN {info} ELSE {})
    BY <2>1, <2>3, <2>4, <2>5, RowsChange
  <2>7. \A k, p : RowsOf(k, p)' = RowsOf(k, p)
    <3>1. \A k, p : seen[info].type = k /\ seen[info].plateNo = p => info \in RowsOf(k, p)
      BY <2>3 DEF RowsOf
    <3> QED
      BY <2>6, <3>1
  <2>8. \A r \in Records : rows[r] # NoRow => rows[r].start \in Nat /\ rows[r].start <= Time
    BY <2>2, RowsBefore
  <2>9. rows[info].start \in Nat /\ rows[info].start <= Time /\ Gap(Kind) \in Nat
    BY <2>2, <2>3, <2>8, GapIs
  <2>10. ASSUME NEW kind \in Kinds \ {"Alarm"}, NEW plate \in Plates,
                NEW q \in RowsOf(kind, plate), NEW r \in RowsOf(kind, plate), q < r
         PROVE  r \in misread \/ rows'[r].start - rows'[q].start > Gap(kind)
    <3>1. /\ q \in Records /\ rows[q] # NoRow /\ r \in Records /\ rows[r] # NoRow
          /\ seen[q].type = kind /\ seen[r].type = kind
      BY <1>1 DEF RowsOf, Rows
    <3>2. /\ rows[q].start \in Nat /\ rows[q].start <= Time
          /\ rows[r].start \in Nat /\ rows[r].start <= Time
      BY <2>8, <3>1
    <3>3. r \in misread \/ rows[r].start - rows[q].start > Gap(kind)
      BY <2>10 DEF VisitsApart
    <3>4. Gap(kind) \in Nat /\ q \in Nat /\ r \in Nat
      BY <1>1, <3>1, GapIs
    <3>5. CASE q = info
      <4>1. kind = Kind /\ r # info
        BY <2>3, <2>10, <3>1, <3>4, <3>5
      <4>2. r \in misread
        <5>1. Time - rows[q].start <= Gap(kind)
          BY <2>3, <3>5, <4>1
        <5>2. ~(rows[r].start - rows[q].start > Gap(kind))
          BY <2>2, <3>2, <3>4, <5>1
        <5> QED
          BY <3>3, <5>2
      <4> QED
        BY <4>2
    <3>6. CASE r = info
      <4>1. q # info
        BY <2>10, <3>4, <3>6
      <4>2. rows'[q] = rows[q] /\ rows'[r].start \in {Time, rows[r].start}
        BY <2>4, <2>6, <3>1, <3>6, <4>1
      <4> QED
        BY <2>2, <3>2, <3>3, <3>4, <4>2
    <3>7. CASE q # info /\ r # info
      BY <2>6, <3>1, <3>3, <3>7
    <3> QED
      BY <3>5, <3>6, <3>7
  <2>11. tied \/ \A r \in Records : rows'[r] # NoRow => seen[rows'[r].by].plateNo = seen[r].plateNo
    BY <2>3, <2>4, <2>6 DEF VisitsApart, Plate
  <2> QED
    BY <2>1, <2>7, <2>10, <2>11 DEF VisitsApart, Kinds
<1>6. CASE \E kind \in Kinds, plate \in Plates \cup {NoPlate} : AddVehicleInfo(kind, plate)
  <2> DEFINE new == Len(seen) + 1
  <2>1. /\ new \in Records
        /\ DOMAIN seen' = DOMAIN seen \cup {new} /\ new \notin DOMAIN seen
        /\ \A r \in DOMAIN seen : seen'[r] = seen[r]
        /\ UNCHANGED <<station, rows, misread, tied>>
    BY <1>6, AddsRecord
  <2> HIDE DEF new
  <2>2. Kinds' = Kinds /\ \A k, p : RowsOf(k, p)' = RowsOf(k, p)
    BY <2>1, RowsOfOld DEF Kinds
  <2>3. \A r \in Records : rows[r] # NoRow => seen'[rows[r].by] = seen[rows[r].by] /\ seen'[r] = seen[r]
    BY <2>1 DEF RowsMade
  <2> QED
    BY <2>1, <2>2, <2>3 DEF VisitsApart
<1>7. CASE \/ VehicleDataAnalysisManageInit \/ Crash \/ Restart \/ Tick \/ ThreadStart
           \/ ThreadRateOfProgress \/ PushMqttApiTask \/ UNCHANGED vars
  <2>1. UNCHANGED <<station, seen, rows, misread, tied>>
    BY <1>7
    DEF VehicleDataAnalysisManageInit, Crash, Restart, Tick, ThreadStart, ThreadRateOfProgress,
        PushMqttApiTask, vars, world, dataVars, histVars
  <2> QED
    BY <1>2, <2>1
<1> QED
  BY <1>3, <1>4, <1>5, <1>6, <1>7, ThreadSteps DEF Next

\* What a step never takes away.
LEMMA RowsGrow ==
    ASSUME Typed, Listed, RowsMade, Found, [Next]_vars
    PROVE  /\ DOMAIN seen \subseteq DOMAIN seen' /\ \A q \in DOMAIN seen : seen'[q] = seen[q]
           /\ noRow \subseteq noRow'
           /\ \A q \in DOMAIN seen : rows[q] # NoRow =>
                 /\ rows'[q] # NoRow
                 /\ rows[q].start \in Nat /\ rows'[q].start \in Nat /\ rows[q].start <= rows'[q].start
<1>1. DOMAIN seen \subseteq Records /\ Times \subseteq Nat
  BY Context
<1>2. \A q \in DOMAIN seen : rows[q] # NoRow => rows[q].start \in Nat
  BY <1>1 DEF RowsMade
<1>3. CASE GetNextHandle \/ Look \/ Passes \/ DelHandle
  <2>1. UNCHANGED <<seen, rows>> /\ noRow \subseteq noRow'
    BY <1>3, GetNextResult, LookResult, DropsRecord DEF Passes, Advances, records, tables
  <2> QED
    BY <1>2, <2>1
<1>4. CASE RowAdded
  <2>1. Busy /\ Has(todo, "add") /\ seen' = seen /\ noRow' = noRow
    BY <1>4, BusyContext DEF RowAdded, Advances, PlanFacts, records
  <2>2. phase = "run" /\ listHead # << >> /\ Record \in Records
    BY <2>1, BusyContext
  <2>3. \A q \in DOMAIN seen : rows[q] # NoRow => q # Record
    BY <1>1, <2>1, <2>2, RowsBefore
  <2>4. \A q \in DOMAIN seen : q # Record => rows'[q] = rows[q]
    BY <1>1, <1>4, RowFields DEF RowAdded
  <2> QED
    BY <1>2, <2>1, <2>3, <2>4
<1>5. CASE RowSet
  <2>1. Busy /\ Has(todo, "set") /\ seen' = seen /\ noRow' = noRow
    BY <1>5, BusyContext DEF RowSet, Advances, PlanFacts, records
  <2>2. phase = "run" /\ listHead # << >> /\ Record \in Records /\ Time \in Nat
    BY <2>1, BusyContext
  <2>3. info \in DOMAIN seen /\ rows[info] # NoRow /\ info \in Records
    BY <1>1, <2>1 DEF Found, Rows
  <2> DEFINE v == [by |-> Record, end |-> Time,
                   start |-> IF Kind \in {"Frontage", "Island"} THEN Time ELSE rows[info].start]
  <2>4. v # NoRow /\ v.start \in {Time, rows[info].start}
    BY <2>2, Context DEF NoRow
  <2>5. rows' = [rows EXCEPT ![info] = v]
    BY <1>5 DEF RowSet
  <2> HIDE DEF v
  <2>6. rows'[info] = v /\ \A q \in DOMAIN seen : q # info => rows'[q] = rows[q]
    BY <1>1, <2>3, <2>5, RowFields
  <2>7. rows[info].start \in Nat /\ rows[info].start <= Time
    BY <2>2, <2>3, RowsBefore
  <2>8. v.start \in Nat /\ rows[info].start <= v.start
    BY <2>2, <2>4, <2>7
  <2> QED
    BY <1>2, <2>1, <2>4, <2>6, <2>7, <2>8
<1>6. CASE \E kind \in Kinds, plate \in Plates \cup {NoPlate} : AddVehicleInfo(kind, plate)
  <2>1. /\ DOMAIN seen \subseteq DOMAIN seen' /\ \A q \in DOMAIN seen : seen'[q] = seen[q]
        /\ UNCHANGED <<rows, noRow>>
    BY <1>6, AddsRecord
  <2> QED
    BY <1>2, <2>1
<1>7. CASE \/ VehicleDataAnalysisManageInit \/ Crash \/ Restart \/ Tick \/ ThreadStart
           \/ ThreadRateOfProgress \/ PushMqttApiTask \/ UNCHANGED vars
  <2>1. UNCHANGED <<seen, rows, noRow>>
    BY <1>7
    DEF VehicleDataAnalysisManageInit, Crash, Restart, Tick, ThreadStart, ThreadRateOfProgress,
        PushMqttApiTask, vars, world, dataVars, histVars
  <2> QED
    BY <1>2, <2>1
<1> QED
  BY <1>3, <1>4, <1>5, <1>6, <1>7, ThreadSteps DEF Next

\* A stored sighting remains stored.
LEMMA StoredStays ==
    ASSUME Typed, Listed, RowsMade, Found, [Next]_vars, NEW r \in DOMAIN seen, Stored(r)
    PROVE  Stored(r)'
<1>1. /\ DOMAIN seen \subseteq DOMAIN seen' /\ \A q \in DOMAIN seen : seen'[q] = seen[q]
      /\ noRow \subseteq noRow'
      /\ \A q \in DOMAIN seen : rows[q] # NoRow =>
            /\ rows'[q] # NoRow
            /\ rows[q].start \in Nat /\ rows'[q].start \in Nat /\ rows[q].start <= rows'[q].start
  BY RowsGrow
<1>2. seen'[r] = seen[r]
  BY <1>1
<1>3. CASE r \in noRow \/ (seen[r].plateNo = NoPlate /\ seen[r].type \in {"Entrance", "Wash"})
           \/ (seen[r].type = "Alarm" /\ rows[r] # NoRow)
  BY <1>1, <1>2, <1>3 DEF Stored
<1>4. CASE /\ seen[r].type # "Alarm"
           /\ \E q \in RowsOf(seen[r].type, seen[r].plateNo) :
                 q <= r /\ seen[r].time - rows[q].start <= Gap(seen[r].type)
  <2>1. PICK q \in RowsOf(seen[r].type, seen[r].plateNo) :
                 q <= r /\ seen[r].time - rows[q].start <= Gap(seen[r].type)
    BY <1>4
  <2>2. q \in DOMAIN seen /\ rows[q] # NoRow /\ seen[q].type = seen[r].type
        /\ seen[q].plateNo = seen[r].plateNo
    BY DEF RowsOf, Rows
  <2>3. q \in RowsOf(seen[r].type, seen[r].plateNo)'
    BY <1>1, <1>2, <2>2 DEF RowsOf, Rows
  <2>4. seen[r].time \in Nat /\ Gap(seen[r].type) \in Nat
    BY <1>4, Context, GapIs
  <2>5. seen[r].time - rows'[q].start <= Gap(seen[r].type)
    BY <1>1, <2>1, <2>2, <2>4
  <2>6. Gap(seen[r].type)' = Gap(seen[r].type)
    BY <1>2 DEF Gap
  <2> QED
    BY <1>2, <1>4, <2>1, <2>3, <2>5, <2>6 DEF Stored
<1> QED
  BY <1>3, <1>4 DEF Stored

LEMMA StoredNext ==
    ASSUME Typed, Listed, Timed, RowsMade, Found, StoredInv, [Next]_vars
    PROVE  StoredInv'
<1>1. \A r \in DOMAIN seen : Stored(r) => Stored(r)'
  BY StoredStays
<1>2. done \subseteq DOMAIN seen /\ DOMAIN seen \subseteq Records
  BY Context DEF Listed
<1>3. \A r \in done : Stored(r)'
  BY <1>1, <1>2 DEF StoredInv
<1>4. CASE GetNextHandle
  <2>1. /\ listHead # << >> /\ UNCHANGED records
        /\ \/ Has(todo', "add")
           \/ Kind \in {"Entrance", "Wash"} /\ Plate = NoPlate
    BY <1>4, GetNextResult
  <2>2. Record' = Record /\ Kind' = Kind /\ Plate' = Plate /\ done' = done
    BY <2>1 DEF records, Record, Kind, Plate
  <2>3. Has(todo', "add") \/ Stored(Record)'
    BY <2>1, <2>2 DEF Stored, Kind, Plate
  <2> QED
    BY <1>3, <2>2, <2>3 DEF StoredInv
<1>5. CASE Look
  <2>1. /\ phase = "run" /\ ~Busy /\ listHead # << >> /\ UNCHANGED <<seen, listHead, done, rows>>
        /\ Has(todo', "add") \/ \E q \in RowsOf(Kind, Plate) : Time - rows[q].start <= Gap(Kind)
        /\ Kind # "Alarm"
    BY <1>5, LookResult DEF records, tables
  <2>2. Record' = Record /\ Record \in DOMAIN seen
    BY <2>1, ListContext DEF Record
  <2>3. ~Has(todo', "add") => Stored(Record)
    <3>1. SUFFICES ASSUME NEW q \in RowsOf(Kind, Plate), Time - rows[q].start <= Gap(Kind)
                   PROVE  Stored(Record)
      BY <2>1
    <3>2. q \in Records /\ rows[q] # NoRow
      BY <1>2 DEF RowsOf, Rows
    <3>3. q <= Record
      BY <2>1, <3>2, RowsBefore
    <3> QED
      BY <2>1, <3>1, <3>3 DEF Stored, Kind, Plate, Time
  <2>4. ~Has(todo', "add") => Stored(Record)'
    BY <1>1, <2>2, <2>3
  <2> QED
    BY <1>3, <2>1, <2>2, <2>4 DEF StoredInv
<1>6. CASE Passes
  <2>1. /\ Busy /\ UNCHANGED records /\ Record' = Record
        /\ (Has(todo, "add") => Has(todo', "add") \/ Head(todo) = "add")
        /\ noRow' = IF Head(todo) = "add" THEN noRow \cup {Record} ELSE noRow
    BY <1>6, AdvancesTo DEF Passes, Advances
  <2>2. Record \in DOMAIN seen /\ done' = done
    BY <2>1, BusyContext DEF records
  <2>3. Has(todo', "add") \/ Stored(Record)'
    <3>1. CASE Head(todo) = "add"
      BY <2>1, <3>1 DEF Stored
    <3>2. CASE Head(todo) # "add"
      BY <1>1, <2>1, <2>2, <3>2 DEF StoredInv
    <3> QED
      BY <3>1, <3>2
  <2> QED
    BY <1>3, <2>1, <2>2, <2>3 DEF StoredInv
<1>7. CASE RowAdded
  <2>1. Busy /\ UNCHANGED records /\ Record' = Record
    BY <1>7, AdvancesTo DEF RowAdded, Advances
  <2>2. /\ Record \in DOMAIN seen /\ Record \in Records /\ done' = done /\ seen' = seen
        /\ Kind \in DEVICE_TYPES /\ Time \in Nat
    BY <2>1, BusyContext DEF records
  <2> DEFINE v == [by |-> Record, start |-> Time, end |-> Time]
  <2>3. v # NoRow /\ v.start = Time
    BY <2>2, Context DEF NoRow
  <2>4. rows' = [rows EXCEPT ![Record] = v]
    BY <1>7 DEF RowAdded
  <2> HIDE DEF v
  <2>5. rows'[Record] = v
    BY <2>2, <2>4, RowFields
  <2>6. Kind = seen[Record].type /\ Time = seen[Record].time
    BY DEF Kind, Time
  <2>7. CASE Kind = "Alarm"
    BY <1>3, <2>1, <2>2, <2>3, <2>5, <2>6, <2>7 DEF StoredInv, Stored
  <2>8. CASE Kind # "Alarm"
    <3>1. Record \in RowsOf(seen[Record].type, seen[Record].plateNo)'
      BY <2>1, <2>2, <2>3, <2>5 DEF RowsOf, Rows
    <3>2. Time - v.start <= Gap(Kind) /\ Record <= Record
      BY <1>2, <2>2, <2>3, <2>8, GapIs, Context
    <3>3. Gap(seen[Record].type)' = Gap(Kind)
      BY <2>1, <2>2, <2>6 DEF Gap
    <3>4. Stored(Record)'
      BY <2>1, <2>2, <2>5, <2>6, <2>8, <3>1, <3>2, <3>3 DEF Stored
    <3> QED
      BY <1>3, <2>1, <2>2, <3>4 DEF StoredInv
  <2> QED
    BY <2>7, <2>8
<1>8. CASE RowSet
  <2>1. Busy /\ UNCHANGED records /\ Record' = Record /\ Head(todo) = "set"
    BY <1>8, AdvancesTo DEF RowSet, Advances
  <2>2. Record \in DOMAIN seen /\ done' = done /\ ~Has(todo, "add")
    BY <2>1, BusyContext DEF records, PlanFacts
  <2> QED
    BY <1>1, <1>3, <2>1, <2>2 DEF StoredInv
<1>9. CASE DelHandle
  <2>1. Busy /\ todo = <<"end">> /\ done' = done \cup {Record} /\ ~Busy'
    BY <1>9, DropsRecord
  <2>2. PICK x \in DOMAIN seen : x = Record
    BY <2>1, BusyContext
  <2>3. ~Has(todo, "add")
    BY <2>1, HasIn1
  <2>4. Stored(x)'
    BY <1>1, <2>1, <2>2, <2>3 DEF StoredInv
  <2>5. done' = done \cup {x}
    BY <2>1, <2>2
  <2> QED
    BY <1>3, <2>1, <2>4, <2>5 DEF StoredInv
<1>10. CASE \E kind \in Kinds, plate \in Plates \cup {NoPlate} : AddVehicleInfo(kind, plate)
  <2>1. UNCHANGED <<todo, done>> /\ (listHead # << >> => Record' = Record)
    BY <1>10, AddsRecord
  <2>2. Busy => Record \in DOMAIN seen /\ Record' = Record
    BY <2>1, BusyContext
  <2> QED
    BY <1>1, <1>3, <2>1, <2>2 DEF StoredInv, Busy
<1>11. CASE VehicleDataAnalysisManageInit \/ Crash \/ Restart
  <2>1. ~Busy' /\ done' = done
    BY <1>11, TypedHasParts
    DEF VehicleDataAnalysisManageInit, Crash, Restart, threadVars, histVars, Busy, TypedWork
  <2> QED
    BY <1>3, <2>1 DEF StoredInv
<1>12. CASE ThreadStart \/ ThreadRateOfProgress \/ PushMqttApiTask \/ UNCHANGED vars \/ Tick
  <2>1. UNCHANGED <<listHead, todo, done>>
    BY <1>12, QuietSteps DEF records, Tick, threadVars, histVars
  <2>2. Busy' = Busy /\ Record' = Record /\ (Busy => Record \in DOMAIN seen)
    BY <2>1, BusyContext DEF Busy, Record
  <2> QED
    BY <1>1, <1>3, <2>1, <2>2 DEF StoredInv
<1> QED
  BY <1>4, <1>5, <1>6, <1>7, <1>8, <1>9, <1>10, <1>11, <1>12, ThreadSteps DEF Next
-----------------------------------------------------------------------------
(***************************************************************************)
(* Trajectories.                                                           *)
(***************************************************************************)
Visits == Rows("Entrance") \cup Rows("Wash")

NoIdNoDate == \A r \in Records : traj[r].id = NULL => traj[r].start = Never
Due(r) == \/ Busy /\ r = Record /\ Has(todo, "trajadd")
          \/ Busy /\ r = info /\ Head(todo) = "trajset"
VisitTold == \A r \in Visits : r \in noTraj \/ Tells(r) \/ Due(r)
AddDue == Busy /\ Has(todo, "trajadd") /\ rows[Record] # NoRow =>
              rows[Record] = [by |-> Record, start |-> Time, end |-> Time]
EndDue == Busy /\ Head(todo) = "trajset" =>
              info \in noTraj \/ (rows[info].end = Time /\ traj[info].start = rows[info].start)

LEMMA TellingParts == Telling <=> NoIdNoDate /\ VisitTold /\ AddDue /\ EndDue
  BY DEF Telling, NoIdNoDate, VisitTold, AddDue, EndDue, Visits, Due

LEMMA TellingNextParts ==
    ASSUME NoIdNoDate', VisitTold', AddDue', EndDue'
    PROVE  Telling'
  BY DEF Telling, NoIdNoDate, VisitTold, AddDue, EndDue, Visits, Due

LEMMA TrajFields ==
    ASSUME Typed
    PROVE  /\ DOMAIN traj = Records
           /\ \A r \in Records : traj[r] \in [id : Records \cup {NULL}, start : Dates, end : Dates]
  BY TypedHasParts DEF TypedTables

\* What is told of a visit whose rows are not touched.
LEMMA TellsSame ==
    ASSUME NEW r, seen'[r] = seen[r], rows'[r] = rows[r], traj'[r] = traj[r]
    PROVE  Tells(r)' <=> Tells(r)
  BY DEF Tells

LEMMA TellingNext ==
    ASSUME Typed, Listed, RowsMade, Found, Telling, [Next]_vars
    PROVE  Telling'
<1>1. NoIdNoDate /\ VisitTold /\ AddDue /\ EndDue
  BY TellingParts
<1>2. /\ DOMAIN seen \subseteq Records /\ NULL \notin Records /\ Times \subseteq Nat
      /\ Visits \subseteq DOMAIN seen
  BY Context DEF Visits, Rows
<1>3. \A r \in Visits : rows[r] # NoRow /\ seen[r].type \in {"Entrance", "Wash"}
  BY DEF Visits, Rows
<1>4. CASE GetNextHandle \/ Look
  <2>1. /\ ~Busy /\ listHead # << >> /\ Busy' /\ Head(todo') # "trajset"
        /\ UNCHANGED <<seen, listHead, rows, traj, noTraj>>
    BY <1>4, GetNextResult, LookResult DEF records, tables
  <2>2. rows[Record] = NoRow /\ Record' = Record
    <3>1. Record \in ToSet(listHead) /\ Record \in Records
      BY <1>2, <2>1, ListContext
    <3> QED
      BY <2>1, <3>1 DEF RowsMade, Record
  <2>3. NoIdNoDate' /\ AddDue' /\ EndDue'
    BY <1>1, <2>1, <2>2 DEF NoIdNoDate, AddDue, EndDue
  <2>4. VisitTold'
    BY <1>1, <2>1 DEF VisitTold, Due, Visits, Rows, Tells
  <2> QED
    BY <2>3, <2>4, TellingNextParts
<1>5. CASE LoadTotal \/ StoreTotal \/ PushMqttMsg \/ (AddInfo /\ Passes)
  <2>1. /\ Advances({"load", "count", "push", "tell", "add"})
        /\ UNCHANGED <<rows, traj, noTraj>>
    BY <1>5, CountsAdvance, AddInfoAdvances DEF tables, Passes, Advances
  <2>2. /\ Busy /\ Head(todo) \in {"load", "count", "push", "tell", "add"}
        /\ UNCHANGED <<seen, listHead, info>>
        /\ \A s : Has(todo', s) <=> Has(todo, s) /\ s # Head(todo)
        /\ Record' = Record /\ Time' = Time /\ Busy' /\ PlanFacts(Kind, todo')
    BY <2>1, AdvancesTo DEF Advances, records, findings
  <2>3. PlanFacts(Kind, todo)
    BY <2>2, BusyContext
  <2>4. Head(todo') # "trajset" /\ (Has(todo', "trajadd") <=> Has(todo, "trajadd"))
    BY <2>2, <2>3 DEF PlanFacts
  <2>5. NoIdNoDate' /\ AddDue' /\ EndDue'
    BY <1>1, <2>1, <2>2, <2>4 DEF NoIdNoDate, AddDue, EndDue
  <2>6. VisitTold'
    BY <1>1, <2>1, <2>2, <2>4 DEF VisitTold, Due, Visits, Rows, Tells
  <2> QED
    BY <2>5, <2>6, TellingNextParts
<1>6. CASE RowAdded
  <2>1. /\ Busy /\ Head(todo) = "add"
        /\ UNCHANGED <<seen, listHead, info, traj, noTraj>>
        /\ \A s : Has(todo', s) <=> Has(todo, s) /\ s # Head(todo)
        /\ Record' = Record /\ Time' = Time /\ Busy' /\ PlanFacts(Kind, todo')
    BY <1>6, AdvancesTo DEF RowAdded, Advances, records, findings
  <2>2. PlanFacts(Kind, todo) /\ Record \in DOMAIN seen /\ Record \in Records
    BY <2>1, BusyContext
  <2>3. /\ Head(todo') # "trajset" /\ (Has(todo', "trajadd") <=> Has(todo, "trajadd"))
        /\ (Kind \in {"Entrance", "Wash"} => Has(todo', "trajadd"))
    BY <2>1, <2>2 DEF PlanFacts
  <2> DEFINE v == [by |-> Record, start |-> Time, end |-> Time]
  <2>4. v # NoRow
    BY <2>2, Context DEF NoRow
  <2>5. rows' = [rows EXCEPT ![Record] = v]
    BY <1>6 DEF RowAdded
  <2>6. AddDue'
    BY <2>1, <2>2, <2>5, RowFields DEF AddDue
  <2> HIDE DEF v
  <2>7. NoIdNoDate' /\ EndDue'
    BY <1>1, <2>1, <2>3 DEF NoIdNoDate, EndDue
  <2>8. /\ \A r \in DOMAIN seen : r # Record => rows'[r] = rows[r]
    BY <2>1, <2>2, <2>4, <2>5, RowsChange
  <2>9. ASSUME NEW r \in Visits' PROVE r \in noTraj' \/ Tells(r)' \/ Due(r)'
    <3>0. r \in DOMAIN seen /\ seen[r].type \in {"Entrance", "Wash"} /\ rows'[r] # NoRow
      BY <2>1 DEF Visits, Rows
    <3>1. CASE r = Record
      BY <2>1, <2>3, <3>0, <3>1 DEF Due, Kind
    <3>2. CASE r # Record
      <4>1. rows'[r] = rows[r] /\ r \in Visits
        BY <2>8, <3>0, <3>2 DEF Visits, Rows
      <4>2. r \in noTraj \/ Tells(r)
        BY <1>1, <2>1, <3>2, <4>1 DEF VisitTold, Due
      <4> QED
        BY <2>1, <4>1, <4>2, TellsSame
    <3> QED
      BY <3>1, <3>2
  <2>10. VisitTold'
    BY <2>9 DEF VisitTold
  <2> QED
    BY <2>6, <2>7, <2>10, TellingNextParts
<1>7. CASE SetInfo
  <2>1. /\ Busy /\ Head(todo) = "set"
        /\ UNCHANGED <<seen, listHead, info, traj>>
        /\ \A s : Has(todo', s) <=> Has(todo, s) /\ s # Head(todo)
        /\ Record' = Record /\ Kind' = Kind /\ Time' = Time /\ Busy' /\ PlanFacts(Kind, todo')
        /\ todo' = Tail(todo)
    BY <1>7, SetInfoAdvances, AdvancesTo DEF Advances, records, findings
  <2>2. /\ PlanFacts(Kind, todo) /\ Record \in DOMAIN seen /\ Record \in Records
        /\ Time \in Times
    BY <2>1, BusyContext
  <2>3. /\ Has(todo, "set") /\ ~Has(todo, "trajadd") /\ ~Has(todo', "trajadd")
        /\ Head(todo') = "trajset" <=> Kind \in {"Entrance", "Wash"}
    BY <2>1, <2>2, HasIn1 DEF PlanFacts
  <2>4. info \in DOMAIN seen /\ seen[info].type = Kind /\ rows[info] # NoRow /\ info \in Records
    BY <1>2, <2>1, <2>3 DEF Found, Rows
  <2>5. NoIdNoDate' /\ AddDue'
    BY <1>1, <2>1, <2>3 DEF NoIdNoDate, AddDue
  <2>6. Kind \in {"Entrance", "Wash"} => info \in noTraj \/ traj[info].start = rows[info].start
    <3>1. SUFFICES ASSUME Kind \in {"Entrance", "Wash"}
                   PROVE  info \in noTraj \/ traj[info].start = rows[info].start
      OBVIOUS
    <3>2. info \in Visits
      BY <2>4, <3>1 DEF Visits, Rows
    <3> QED
      BY <1>1, <2>1, <2>3, <3>2 DEF VisitTold, Due, Tells
  <2>7. CASE rows' = rows /\ noTraj' = noTraj \cup {info}
    <3>1. EndDue'
      BY <2>1, <2>7 DEF EndDue
    <3>2. VisitTold'
      BY <1>1, <2>1, <2>3, <2>7 DEF VisitTold, Due, Visits, Rows, Tells
    <3> QED
      BY <2>5, <3>1, <3>2, TellingNextParts
  <2> DEFINE start == IF Kind \in {"Frontage", "Island"} THEN Time ELSE rows[info].start
             v == [by |-> Record, end |-> Time, start |-> start]
  <2>8. CASE rows' = [rows EXCEPT ![info] = v] /\ noTraj' = noTraj
    <3>1. v # NoRow /\ v.end = Time
      BY <2>2, Context DEF NoRow
    <3>2. Kind \in {"Entrance", "Wash"} => v.start = rows[info].start
      OBVIOUS
    <3> HIDE DEF v, start
    <3>3. rows'[info] = v /\ \A r \in DOMAIN seen : r # info => rows'[r] = rows[r]
      BY <2>1, <2>4, <2>8, <3>1, RowsChange
    <3>4. EndDue'
      BY <2>1, <2>3, <2>6, <2>8, <3>1, <3>2, <3>3 DEF EndDue
    <3>5. ASSUME NEW r \in Visits' PROVE r \in noTraj' \/ Tells(r)' \/ Due(r)'
      <4>0. r \in DOMAIN seen /\ seen[r].type \in {"Entrance", "Wash"} /\ rows'[r] # NoRow
        BY <2>1 DEF Visits, Rows
      <4>1. CASE r = info
        BY <2>1, <2>3, <2>4, <4>0, <4>1 DEF Due
      <4>2. CASE r # info
        <5>1. rows'[r] = rows[r] /\ r \in Visits
          BY <3>3, <4>0, <4>2 DEF Visits, Rows
        <5>2. r \in noTraj \/ Tells(r)
          BY <1>1, <2>1, <2>3, <4>2, <5>1 DEF VisitTold, Due
        <5> QED
          BY <2>1, <2>8, <5>1, <5>2, TellsSame
      <4> QED
        BY <4>1, <4>2
    <3>6. VisitTold'
      BY <3>5 DEF VisitTold
    <3> QED
      BY <2>5, <3>4, <3>6, TellingNextParts
  <2> QED
    BY <1>7, <2>7, <2>8, SetInfoAdvances
<1>8. CASE AddTrajectoryInfo
  <2>1. /\ Busy /\ Head(todo) = "trajadd"
        /\ UNCHANGED <<seen, listHead, info, rows>>
        /\ \A s : Has(todo', s) <=> Has(todo, s) /\ s # Head(todo)
        /\ Record' = Record /\ Busy' /\ todo' = Tail(todo)
    BY <1>8, AddTrajectoryAdvances, AdvancesTo DEF Advances, records, findings
  <2>2. /\ PlanFacts(Kind, todo) /\ Record \in DOMAIN seen /\ Record \in Records
        /\ Time \in Times /\ Time \in Nat
    BY <2>1, BusyContext
  <2>3. /\ Has(todo, "trajadd") /\ ~Has(todo', "trajadd") /\ Head(todo') = "end"
        /\ Kind \in {"Entrance", "Wash"}
    <3>1. todo' = <<"end">>
      BY <2>1, <2>2 DEF PlanFacts
    <3> QED
      BY <2>1, <2>2, <3>1 DEF PlanFacts
  <2>4. AddDue' /\ EndDue'
    BY <2>1, <2>3 DEF AddDue, EndDue
  <2> DEFINE end == IF Kind = "Wash" THEN Never ELSE Time
             v == [id |-> Record, start |-> Time, end |-> end]
  <2>5. CASE traj' = traj /\ noTraj' = noTraj \cup {Record}
    <3>1. VisitTold'
      BY <1>1, <2>1, <2>5 DEF VisitTold, Due, Visits, Rows, Tells
    <3>2. NoIdNoDate'
      BY <1>1, <2>5 DEF NoIdNoDate
    <3> QED
      BY <2>4, <3>1, <3>2, TellingNextParts
  <2>6. CASE traj' = [traj EXCEPT ![Record] = v] /\ noTraj' = noTraj
    <3>1. v.id = Record /\ v.start = Time /\ v.end = end
      OBVIOUS
    <3> HIDE DEF v
    <3>2. traj'[Record] = v /\ \A r \in Records : r # Record => traj'[r] = traj[r]
      BY <2>2, <2>6, TrajFields
    <3>3. NoIdNoDate'
      BY <1>1, <1>2, <2>2, <3>1, <3>2 DEF NoIdNoDate
    <3>4. ASSUME NEW r \in Visits' PROVE r \in noTraj' \/ Tells(r)'
      <4>1. r \in Visits /\ r \in Records
        BY <1>2, <2>1 DEF Visits, Rows
      <4>2. CASE r = Record
        <5>1. rows[r] = [by |-> Record, start |-> Time, end |-> Time]
          BY <1>1, <1>3, <2>1, <2>3, <4>1, <4>2 DEF AddDue
        <5>2. rows[r].by = Record /\ rows[r].start = Time /\ rows[r].end = Time
          BY <5>1
        <5>3. seen[r].type = Kind
          BY <4>2 DEF Kind
        <5> QED
          BY <2>1, <3>1, <3>2, <4>2, <5>2, <5>3 DEF Tells
      <4>3. CASE r # Record
        <5>1. r \in noTraj \/ Tells(r)
          BY <1>1, <2>1, <4>1, <4>3 DEF VisitTold, Due
        <5> QED
          BY <2>1, <2>6, <3>2, <4>1, <4>3, <5>1, TellsSame
      <4> QED
        BY <4>2, <4>3
    <3>5. VisitTold'
      BY <3>4 DEF VisitTold
    <3> QED
      BY <2>4, <3>3, <3>5, TellingNextParts
  <2> QED
    BY <1>8, <2>5, <2>6, AddTrajectoryAdvances
<1>9. CASE UpdateTrajectoryInfo
  <2>1. /\ Busy /\ Head(todo) = "trajset"
        /\ UNCHANGED <<seen, listHead, info, rows>>
        /\ \A s : Has(todo', s) <=> Has(todo, s) /\ s # Head(todo)
        /\ Record' = Record /\ Busy' /\ todo' = Tail(todo)
    BY <1>9, UpdateTrajectoryAdvances, AdvancesTo DEF Advances, records, findings
  <2>2. PlanFacts(Kind, todo) /\ Time \in Times
    BY <2>1, BusyContext
  <2>3. /\ Has(todo, "trajset") /\ ~Has(todo, "trajadd") /\ ~Has(todo', "trajadd")
        /\ Head(todo') = "end"
    <3>1. todo' = <<"end">>
      BY <2>1, <2>2 DEF PlanFacts
    <3> QED
      BY <2>1, <2>2, <3>1 DEF PlanFacts
  <2>4. AddDue' /\ EndDue'
    BY <2>1, <2>3 DEF AddDue, EndDue
  <2>5. info \in DOMAIN seen /\ rows[info] # NoRow /\ info \in Records
    BY <1>2, <2>1, <2>3 DEF Found, Rows
  <2> DEFINE old == traj[info]
             good == IF old.id = NULL THEN old ELSE [old EXCEPT !.end = Time]
             bad == IF old.id = NULL THEN old ELSE [old EXCEPT !.start = Never, !.end = Time]
  <2>6. old \in [id : Records \cup {NULL}, start : Dates, end : Dates]
    BY <2>5, TrajFields
  <2> HIDE DEF old
  <2>7. /\ old.id = NULL => good = old /\ bad = old
        /\ old.id # NULL => /\ good.id = old.id /\ bad.id = old.id
                            /\ good.start = old.start /\ good.end = Time
    BY <2>6
  <2> HIDE DEF good, bad
  <2>8. ASSUME NEW v \in {old, good, bad}, traj' = [traj EXCEPT ![info] = v]
        PROVE  /\ traj'[info] = v /\ \A r \in Records : r # info => traj'[r] = traj[r]
               /\ NoIdNoDate'
    <3>1. traj'[info] = v /\ \A r \in Records : r # info => traj'[r] = traj[r]
      BY <2>5, <2>8, TrajFields
    <3>2. old.id = NULL => old.start = Never
      BY <1>1, <2>5 DEF NoIdNoDate, old
    <3>3. v.id = NULL => v.start = Never
      BY <2>7, <2>8, <3>2
    <3> QED
      BY <1>1, <3>1, <3>3 DEF NoIdNoDate
  <2>9. traj = [traj EXCEPT ![info] = old]
    BY <2>5, TypedHasParts DEF old, TypedTables
  <2>10. CASE noTraj' = noTraj \cup {info} /\ \E v \in {old, bad} : traj' = [traj EXCEPT ![info] = v]
    <3>1. NoIdNoDate' /\ \A r \in Records : r # info => traj'[r] = traj[r]
      BY <2>8, <2>10
    <3>2. ASSUME NEW r \in Visits' PROVE r \in noTraj' \/ Tells(r)'
      <4>1. r \in Visits /\ r \in Records
        BY <1>2, <2>1 DEF Visits, Rows
      <4>2. CASE r = info
        BY <2>10, <4>2
      <4>3. CASE r # info
        <5>1. r \in noTraj \/ Tells(r)
          BY <1>1, <2>1, <2>3, <4>1, <4>3 DEF VisitTold, Due
        <5> QED
          BY <2>1, <2>10, <3>1, <4>1, <4>3, <5>1, TellsSame
      <4> QED
        BY <4>2, <4>3
    <3>3. VisitTold'
      BY <3>2 DEF VisitTold
    <3> QED
      BY <2>4, <3>1, <3>3, TellingNextParts
  <2>11. CASE noTraj' = noTraj /\ traj' = [traj EXCEPT ![info] = good]
    <3>1. /\ NoIdNoDate' /\ traj'[info] = good
          /\ \A r \in Records : r # info => traj'[r] = traj[r]
      BY <2>8, <2>11
    <3>2. info \in noTraj \/ Tells(info)'
      <4>1. SUFFICES ASSUME info \notin noTraj PROVE Tells(info)'
        OBVIOUS
      <4>2. rows[info].end = Time /\ old.start = rows[info].start
        BY <1>1, <2>1, <4>1 DEF EndDue, old
      <4>3. rows[info].start # Never
        BY <1>2, <2>5 DEF RowsMade, Never
      <4>4. old.id # NULL
        BY <1>1, <2>5, <4>2, <4>3 DEF NoIdNoDate, old
      <4>5. good.start = rows[info].start /\ good.end = rows[info].end
        BY <2>7, <4>2, <4>4
      <4> QED
        BY <2>1, <3>1, <4>5 DEF Tells
    <3>3. ASSUME NEW r \in Visits' PROVE r \in noTraj' \/ Tells(r)'
      <4>1. r \in Visits /\ r \in Records
        BY <1>2, <2>1 DEF Visits, Rows
      <4>2. CASE r = info
        BY <2>1, <2>11, <3>2, <4>2 DEF Tells
      <4>3. CASE r # info
        <5>1. r \in noTraj \/ Tells(r)
          BY <1>1, <2>1, <2>3, <4>1, <4>3 DEF VisitTold, Due
        <5> QED
          BY <2>1, <2>11, <3>1, <4>1, <4>3, <5>1, TellsSame
      <4> QED
        BY <4>2, <4>3
    <3>4. VisitTold'
      BY <3>3 DEF VisitTold
    <3> QED
      BY <2>4, <3>1, <3>4, TellingNextParts
  <2> QED
    BY <1>9, <2>9, <2>10, <2>11, UpdateTrajectoryAdvances DEF good, bad, old
<1>10. CASE DelHandle
  <2>1. Busy /\ todo = <<"end">> /\ ~Busy' /\ UNCHANGED <<seen, rows, traj, noTraj>>
    BY <1>10, DropsRecord
  <2>2. ~Has(todo, "trajadd") /\ Head(todo) = "end"
    BY <2>1, HasIn1
  <2>3. NoIdNoDate' /\ AddDue' /\ EndDue'
    BY <1>1, <2>1 DEF NoIdNoDate, AddDue, EndDue
  <2>4. VisitTold'
    BY <1>1, <2>1, <2>2 DEF VisitTold, Due, Visits, Rows, Tells
  <2> QED
    BY <2>3, <2>4, TellingNextParts
<1>11. CASE \E kind \in Kinds, plate \in Plates \cup {NoPlate} : AddVehicleInfo(kind, plate)
  <2> DEFINE new == Len(seen) + 1
  <2>1. /\ new \in Records
        /\ DOMAIN seen' = DOMAIN seen \cup {new} /\ new \notin DOMAIN seen
        /\ \A r \in DOMAIN seen : seen'[r] = seen[r]
        /\ listHead # << >> => Record' = Record /\ Time' = Time
        /\ UNCHANGED <<todo, info, rows, traj, noTraj>>
    BY <1>11, AddsRecord
  <2> HIDE DEF new
  <2>2. Visits' = Visits
    <3>1. \A k : Rows(k)' = Rows(k)
      BY <2>1, RowsOfOld
    <3>2. Rows("Entrance")' = Rows("Entrance") /\ Rows("Wash")' = Rows("Wash")
      BY <3>1
    <3> QED
      BY <3>2 DEF Visits
  <2>3. Busy' = Busy /\ (Busy => Record' = Record /\ Time' = Time)
    BY <2>1, BusyContext DEF Busy
  <2>4. NoIdNoDate' /\ AddDue' /\ EndDue'
    BY <1>1, <2>1, <2>3 DEF NoIdNoDate, AddDue, EndDue
  <2>5. \A r \in Visits : (Tells(r) => Tells(r)') /\ (Due(r) => Due(r)')
    BY <1>2, <2>1, <2>3 DEF Tells, Due
  <2>6. VisitTold'
    BY <1>1, <2>1, <2>2, <2>5 DEF VisitTold
  <2> QED
    BY <2>4, <2>6, TellingNextParts
<1>12. CASE VehicleDataAnalysisManageInit \/ Restart
  <2>1. ~Busy /\ ~Busy' /\ UNCHANGED <<seen, rows, traj, noTraj>>
    BY <1>12, TypedHasParts
    DEF VehicleDataAnalysisManageInit, Restart, threadVars, dataVars, histVars, Busy, TypedWork
  <2>2. NoIdNoDate' /\ AddDue' /\ EndDue'
    BY <1>1, <2>1 DEF NoIdNoDate, AddDue, EndDue
  <2>3. VisitTold'
    BY <1>1, <2>1 DEF VisitTold, Due, Visits, Rows, Tells
  <2> QED
    BY <2>2, <2>3, TellingNextParts
<1>13. CASE Crash
  <2>1. /\ ~Busy' /\ UNCHANGED <<seen, rows, traj>> /\ noTraj \subseteq noTraj'
        /\ (Busy => {Record, info} \subseteq noTraj')
    BY <1>13, TypedHasParts DEF Crash, dataVars, Busy, TypedWork
  <2>2. NoIdNoDate' /\ AddDue' /\ EndDue'
    BY <1>1, <2>1 DEF NoIdNoDate, AddDue, EndDue
  <2>3. VisitTold'
    BY <1>1, <2>1 DEF VisitTold, Due, Visits, Rows, Tells
  <2> QED
    BY <2>2, <2>3, TellingNextParts
<1>14. CASE ThreadStart \/ ThreadRateOfProgress \/ PushMqttApiTask \/ UNCHANGED vars \/ Tick
  <2>1. UNCHANGED <<seen, listHead, todo, info, rows, traj, noTraj>>
    BY <1>14, QuietSteps DEF records, tables, findings, Tick, threadVars, dataVars, histVars
  <2> QED
    BY <2>1 DEF Telling, Busy, Record, Kind, Time, Rows, Tells
<1> QED
  <2>1. AddInfo => RowAdded \/ (AddInfo /\ Passes)
    <3>1. SUFFICES ASSUME AddInfo PROVE RowAdded \/ Passes
      OBVIOUS
    <3>2. Advances({"add"})
      BY <3>1, AddInfoAdvances
    <3>3. Head(todo) = "add" /\ Advances(Steps \ {"end"})
      BY <3>2 DEF Advances, Steps
    <3> QED
      BY <3>1, <3>3, AddInfoAdvances DEF RowAdded, Passes
  <2> QED
    BY <1>4, <1>5, <1>6, <1>7, <1>8, <1>9, <1>10, <1>11, <1>12, <1>13, <1>14, <2>1
    DEF Next, RecordThread
-----------------------------------------------------------------------------
(***************************************************************************)
(* Totals.                                                                 *)
(***************************************************************************)

LEMMA DayIs == \A t : Day(t) \in {0, 1}
  BY DEF Day

LEMMA DayGrows == \A s, t \in Int : s <= t => Day(s) <= Day(t)
  BY DEF Day, Midnight

LEMMA TotalsBoundedNext ==
    ASSUME Typed, Listed, RowsMade, TotalsBounded, [Next]_vars
    PROVE  TotalsBounded'
<1>1. /\ Len(seen) \in Nat /\ DOMAIN seen = 1 .. Len(seen) /\ total \in [Counted -> 0 .. MaxEvents]
      /\ MaxEvents \in Nat /\ count \in Nat
      /\ DOMAIN listHead = 1 .. Len(listHead) /\ Len(listHead) \in Nat
      /\ \A n \in DOMAIN listHead : listHead[n] \in DOMAIN seen
  BY Context, ListContext, TypedHasParts DEF TypedTotals
<1>2. \A k \in Counted : total[k] \in Nat
  BY <1>1
<1>3. CASE GetNextHandle \/ Look
  <2>1. ~Busy /\ UNCHANGED <<seen, listHead, total>> /\ Head(todo') # "count"
    BY <1>3, GetNextResult, LookResult DEF records
  <2> QED
    BY <2>1 DEF TotalsBounded
<1>4. CASE LoadTotal
  <2>1. /\ Busy /\ Head(todo) = "load" /\ UNCHANGED <<seen, listHead, total>>
        /\ count' = total[Kind] /\ Record' = Record
    BY <1>4 DEF LoadTotal, Step, Busy, world, Record
  <2>2. Record = listHead[1] /\ 1 \in DOMAIN listHead /\ Has(todo, "count") /\ Kind \in Counted
    BY <2>1, BusyContext DEF PlanFacts
  <2>3. \A k \in Counted, n \in DOMAIN listHead : total[k] < listHead[n]
    BY <2>2 DEF TotalsBounded
  <2> QED
    BY <2>1, <2>2, <2>3 DEF TotalsBounded
<1>5. CASE StoreTotal
  <2>1. /\ Busy /\ Head(todo) = "count" /\ UNCHANGED <<seen, listHead>>
        /\ total' = [total EXCEPT ![Kind] = count + 1]
        /\ Advances({"load", "count", "push", "tell"})
    BY <1>5, CountsAdvance DEF StoreTotal, Step, Busy, world
  <2>2. /\ Record = listHead[1] /\ 1 \in DOMAIN listHead /\ Has(todo, "count") /\ Kind \in Counted
        /\ Record \in DOMAIN seen
    BY <2>1, BusyContext DEF PlanFacts
  <2>3. /\ \A k \in Counted, n \in DOMAIN listHead : total[k] < listHead[n]
        /\ count < Record
    BY <2>1, <2>2 DEF TotalsBounded
  <2>4. Busy' /\ ~Has(todo', "count") /\ PlanFacts(Kind, todo')
    BY <2>1, AdvancesTo
  <2>5. Head(todo') # "count"
    BY <2>4 DEF PlanFacts
  <2>6. ASSUME NEW k \in Counted
        PROVE  /\ total'[k] <= Len(seen)
               /\ \A n \in DOMAIN listHead : total'[k] < listHead[n] \/ (n = 1 /\ total'[k] <= listHead[n])
    <3>1. CASE k = Kind
      <4>1. total'[k] = count + 1
        BY <1>1, <2>1, <2>2, <3>1
      <4>2. count + 1 <= Record /\ Record <= Len(seen) /\ Record \in Nat
        BY <1>1, <2>2, <2>3
      <4>3. \A n \in DOMAIN listHead : n # 1 => Record < listHead[n]
        BY <1>1, <2>2 DEF Listed
      <4>4. \A n \in DOMAIN listHead : listHead[n] \in Nat
        BY <1>1
      <4> QED
        BY <1>1, <2>2, <4>1, <4>2, <4>3, <4>4
    <3>2. CASE k # Kind
      <4>1. total'[k] = total[k]
        BY <1>1, <2>1, <3>2
      <4> QED
        BY <2>3, <4>1 DEF TotalsBounded
    <3> QED
      BY <3>1, <3>2
  <2> QED
    BY <2>1, <2>4, <2>5, <2>6 DEF TotalsBounded
<1>6. CASE PushMqttMsg \/ AddInfo \/ SetInfo \/ AddTrajectoryInfo \/ UpdateTrajectoryInfo
  <2>1. /\ Advances(Steps \ {"load", "count", "end"}) /\ total' = total
    <3>1. CASE PushMqttMsg
      <4>1. Head(todo) \in {"push", "tell"} /\ Advances({"load", "count", "push", "tell"})
        BY <3>1, CountsAdvance DEF PushMqttMsg, Step
      <4> QED
        BY <3>1, <4>1 DEF PushMqttMsg, Advances, Steps
    <3>2. CASE AddInfo
      BY <3>2, AddInfoAdvances DEF Advances, Steps
    <3>3. CASE SetInfo
      BY <3>3, SetInfoAdvances DEF Advances, Steps
    <3>4. CASE AddTrajectoryInfo
      BY <3>4, AddTrajectoryAdvances DEF Advances, Steps
    <3>5. CASE UpdateTrajectoryInfo
      BY <3>5, UpdateTrajectoryAdvances DEF Advances, Steps
    <3> QED
      BY <1>6, <3>1, <3>2, <3>3, <3>4, <3>5
  <2>2. /\ Busy /\ Busy' /\ Head(todo) \notin {"load", "count"} /\ UNCHANGED <<seen, listHead>>
        /\ \A s : Has(todo', s) => Has(todo, s)
        /\ PlanFacts(Kind, todo')
    BY <2>1, AdvancesTo DEF Advances, records
  <2>3. ~Has(todo, "count")
    BY <2>2, BusyContext DEF PlanFacts
  <2>4. Head(todo') # "count" /\ ~Has(todo', "count")
    BY <2>2, <2>3 DEF PlanFacts
  <2> QED
    BY <2>1, <2>2, <2>4 DEF TotalsBounded
<1>7. CASE DelHandle
  <2>1. /\ ~Busy' /\ listHead' \in Seq(Records)
        /\ \A n \in DOMAIN listHead' : n + 1 \in DOMAIN listHead /\ listHead'[n] = listHead[n + 1]
        /\ UNCHANGED <<seen, total>>
    BY <1>7, DropsRecord
  <2>2. ASSUME NEW k \in Counted, NEW n \in DOMAIN listHead' PROVE total[k] < listHead'[n]
    <3>1. n \in Nat /\ n + 1 # 1 /\ n + 1 \in DOMAIN listHead /\ listHead'[n] = listHead[n + 1]
      BY <2>1
    <3>2. total[k] < listHead[n + 1]
      BY <3>1 DEF TotalsBounded
    <3> QED
      BY <3>1, <3>2
  <2> QED
    BY <2>1, <2>2 DEF TotalsBounded
<1>8. CASE \E kind \in Kinds, plate \in Plates \cup {NoPlate} : AddVehicleInfo(kind, plate)
  <2> DEFINE new == Len(seen) + 1
  <2>1. /\ Len(seen') = new
        /\ listHead' \in Seq(Records) /\ Len(listHead') = Len(listHead) + 1
        /\ \A n \in DOMAIN listHead : listHead'[n] = listHead[n]
        /\ listHead'[Len(listHead) + 1] = new
        /\ listHead # << >> => Record' = Record
        /\ UNCHANGED <<todo, count, total>>
    BY <1>8, AddsRecord
  <2>2. new \in Nat /\ new > Len(seen)
    BY <1>1
  <2> HIDE DEF new
  <2>3. DOMAIN listHead' = DOMAIN listHead \cup {Len(listHead) + 1}
    BY <1>1, <2>1
  <2>4. Busy' = Busy /\ (Busy => Record' = Record)
    BY <2>1, BusyContext DEF Busy
  <2>5. ASSUME NEW k \in Counted
        PROVE  /\ total[k] <= new
               /\ \A n \in DOMAIN listHead' :
                     \/ total[k] < listHead'[n]
                     \/ n = 1 /\ Busy /\ ~Has(todo, "count") /\ total[k] <= listHead'[n]
    <3>1. total[k] < new
      BY <1>1, <1>2, <2>2 DEF TotalsBounded
    <3>2. ASSUME NEW n \in DOMAIN listHead
          PROVE  \/ total[k] < listHead'[n]
                 \/ n = 1 /\ Busy /\ ~Has(todo, "count") /\ total[k] <= listHead'[n]
      BY <2>1 DEF TotalsBounded
    <3> QED
      BY <1>2, <2>1, <2>2, <2>3, <3>1, <3>2
  <2>6. Busy' /\ Head(todo') = "count" => count' < Record'
    BY <2>1, <2>4 DEF TotalsBounded
  <2> QED
    BY <2>1, <2>4, <2>5, <2>6 DEF TotalsBounded
<1>9. CASE VehicleDataAnalysisManageInit
  <2>1. listHead' = << >> /\ seen' = seen /\ ~Busy'
    BY <1>9, TypedHasParts DEF VehicleDataAnalysisManageInit, threadVars, Busy, TypedWork
  <2> DEFINE today == [k \in Counted |-> Cardinality(RowsOfDay(k, Day(now)))]
  <2>2. \A k \in Counted : today[k] \in Nat /\ today[k] <= Len(seen)
    BY DayCounts
  <2>3. DOMAIN today = Counted
    OBVIOUS
  <2>4. total' = today \/ \E k \in Counted : total' = [today EXCEPT ![k] = 0]
    BY <1>9 DEF VehicleDataAnalysisManageInit
  <2> HIDE DEF today
  <2>5. \A k \in Counted : total'[k] <= Len(seen)
    BY <1>1, <2>2, <2>3, <2>4
  <2>6. DOMAIN listHead' = {}
    BY <2>1
  <2> QED
    BY <2>1, <2>5, <2>6 DEF TotalsBounded
<1>10. CASE ThreadRateOfProgress
  <2>1. total' = [k \in Counted |-> 0] /\ UNCHANGED <<seen, listHead, todo, count>>
    BY <1>10 DEF ThreadRateOfProgress, world, threadVars
  <2>2. Busy' = Busy /\ Record' = Record
    BY <2>1 DEF Busy, Record
  <2>3. \A n \in DOMAIN listHead : 0 < listHead[n]
    BY <1>1
  <2> QED
    BY <1>1, <2>1, <2>2, <2>3 DEF TotalsBounded
<1>11. CASE ThreadStart \/ PushMqttApiTask \/ UNCHANGED vars \/ Tick \/ Restart
  <2>1. UNCHANGED <<seen, listHead, todo, count, total>>
    BY <1>11 DEF ThreadStart, PushMqttApiTask, vars, Tick, Restart, world, threadVars
  <2> QED
    BY <2>1 DEF TotalsBounded, Busy, Record
<1>12. CASE Crash
  <2>1. listHead' = << >> /\ seen' = seen /\ ~Busy' /\ total' = [k \in Counted |-> 0]
    BY <1>12 DEF Crash, Busy
  <2>2. DOMAIN listHead' = {}
    BY <2>1
  <2> QED
    BY <1>1, <2>1, <2>2 DEF TotalsBounded
<1> QED
  BY <1>3, <1>4, <1>5, <1>6, <1>7, <1>8, <1>9, <1>10, <1>11, <1>12 DEF Next, RecordThread

\* The parts of DaysKept that hold as long as nothing crossed midnight.
RowsToDate == \A k \in Counted : \A r \in Rows(k) : Day(rows[r].start) <= totalDay
AddToDate == Busy /\ Kind \in Counted /\ Has(todo, "add") /\ ~Has(todo, "load") => Day(Time) <= totalDay
CountToDate == Busy /\ Head(todo) = "count" => Day(Time) = totalDay
Kept == (day # Never => day = totalDay) /\ RowsToDate /\ AddToDate /\ CountToDate

LEMMA DaysParts ==
    /\ DaysKept <=> /\ totalDay <= Day(now) /\ (phase # "run" => day = Never)
                    /\ ~offDay => Kept
    /\ DaysKept' <=> /\ totalDay' <= Day(now') /\ (phase' # "run" => day' = Never)
                     /\ ~offDay' => Kept'
<1>1. DaysKept <=> /\ totalDay <= Day(now) /\ (phase # "run" => day = Never)
                   /\ ~offDay => Kept
  BY DEF DaysKept, Kept, RowsToDate, AddToDate, CountToDate
<1>2. DaysKept' <=> /\ totalDay' <= Day(now') /\ (phase' # "run" => day' = Never)
                    /\ ~offDay' => Kept'
  BY DEF DaysKept, Kept, RowsToDate, AddToDate, CountToDate
<1> QED
  BY <1>1, <1>2

\* Changes of the row of a counted kind leave it on its day, or are noticed.
LEMMA SetKeepsDays ==
    ASSUME Typed, RowsMade, Found, RowSet, ~offDay'
    PROVE  /\ info \in DOMAIN seen /\ rows[info] # NoRow /\ ~offDay
           /\ \A k \in Counted : /\ Rows(k)' = Rows(k)
                                 /\ \A r \in Rows(k) : Day(rows'[r].start) = Day(rows[r].start)
<1>1. /\ Busy /\ Head(todo) = "set" /\ seen' = seen
      /\ ~offDay /\ ~(Kind = "Frontage" /\ Day(rows[info].start) # Day(Time))
  BY DEF RowSet, Advances, records
<1>2. Has(todo, "set") /\ Record \in Records
  BY <1>1, BusyContext DEF PlanFacts
<1>3. info \in DOMAIN seen /\ seen[info].type = Kind /\ rows[info] # NoRow
  BY <1>1, <1>2 DEF Found, Rows
<1> DEFINE start == IF Kind \in {"Frontage", "Island"} THEN Time ELSE rows[info].start
           v == [by |-> Record, end |-> Time, start |-> start]
<1>4. v # NoRow /\ v.start = start
  BY <1>2, Context DEF NoRow
<1>5. rows' = [rows EXCEPT ![info] = v]
  BY DEF RowSet
<1>6. Kind \in Counted => Day(start) = Day(rows[info].start)
  BY <1>1 DEF Counted
<1> HIDE DEF v, start
<1>7. rows'[info] = v /\ \A r \in DOMAIN seen : r # info => rows'[r] = rows[r]
  BY <1>1, <1>3, <1>4, <1>5, RowsChange
<1>8. ASSUME NEW k \in Counted
      PROVE  /\ Rows(k)' = Rows(k)
             /\ \A r \in Rows(k) : Day(rows'[r].start) = Day(rows[r].start)
  <2>1. Rows(k)' = Rows(k)
    BY <1>1, <1>3, <1>4, <1>7 DEF Rows
  <2>2. ASSUME NEW r \in Rows(k) PROVE Day(rows'[r].start) = Day(rows[r].start)
    <3>1. r \in DOMAIN seen /\ seen[r].type = k
      BY DEF Rows
    <3>2. CASE r = info
      BY <1>3, <1>4, <1>6, <1>7, <3>1, <3>2
    <3>3. CASE r # info
      BY <1>7, <3>1, <3>3
    <3> QED
      BY <3>2, <3>3
  <2> QED
    BY <2>1, <2>2
<1> QED
  BY <1>1, <1>3, <1>8

\* Nothing is dated after now.
LEMMA DatedToNow ==
    ASSUME Typed, Listed, Timed, RowsMade
    PROVE  /\ \A k : \A r \in Rows(k) : Day(rows[r].start) <= Day(now)
           /\ Busy => Day(Time) <= Day(now)
<1>1. DOMAIN seen \subseteq Records /\ now \in Int /\ Times \subseteq Int
  BY Context
<1>2. ASSUME NEW k, NEW r \in Rows(k) PROVE Day(rows[r].start) <= Day(now)
  <2>1. rows[r].start \in Int /\ rows[r].start <= now
    BY <1>1 DEF Rows, RowsMade
  <2> QED
    BY <1>1, <2>1, DayGrows
<1>3. Busy => Day(Time) <= Day(now)
  <2>1. Busy => Time <= now /\ Time \in Int
    BY BusyContext, FirstOfAll
  <2> QED
    BY <1>1, <2>1, DayGrows
<1> QED
  BY <1>2, <1>3

LEMMA DaysNext ==
    ASSUME Typed, Listed, Timed, RowsMade, Found, DaysKept, [Next]_vars
    PROVE  DaysKept'
<1>1. totalDay <= Day(now) /\ (phase # "run" => day = Never) /\ (~offDay => Kept)
  BY DaysParts
<1>2. totalDay \in {0, 1} /\ offDay \in BOOLEAN /\ now \in Int
  BY TypedHasParts, Context DEF TypedTotals
<1>3. CASE GetNextHandle \/ Look
  <2>1. /\ UNCHANGED <<records, rows, day, totalDay, offDay>>
        /\ Head(todo') # "count"
        /\ Kind \in Counted /\ Has(todo', "add") => Head(todo') = "load"
        /\ todo' \in Plans(Kind) /\ Kind \in DEVICE_TYPES
    <3>1. CASE GetNextHandle
      <4>1. Kind = "Alarm" \/ ~Has(todo', "add")
        BY <3>1, GetNextResult
      <4>2. Kind = "Alarm" => Kind \notin Counted
        BY DEF Counted
      <4>3. listHead # << >>
        BY <3>1, GetNextResult
      <4>4. Kind \in DEVICE_TYPES
        BY <4>3, ListContext, Context DEF Kind
      <4> QED
        BY <3>1, <4>1, <4>2, <4>4, GetNextResult DEF tables
    <3>2. CASE Look
      <4>1. Kind \in DEVICE_TYPES
        BY <3>2, LookResult, ListContext, Context DEF Kind
      <4> QED
        BY <3>2, <4>1, LookResult DEF tables
    <3> QED
      BY <1>3, <3>1, <3>2
  <2>2. UNCHANGED <<seen, now, phase>> /\ Kind' = Kind /\ Time' = Time
    BY <2>1 DEF records, Kind, Time, Record
  <2>3. Head(todo') = "load" => Has(todo', "load")
    BY <2>1, PlansGood DEF PlanFacts
  <2>4. ~offDay => Kept'
    <3>1. SUFFICES ASSUME Kept PROVE Kept'
      BY <1>1
    <3>2. AddToDate' /\ CountToDate'
      BY <2>1, <2>2, <2>3 DEF AddToDate, CountToDate
    <3>3. RowsToDate'
      BY <2>1, <2>2, <3>1 DEF Kept, RowsToDate, Rows
    <3> QED
      BY <2>1, <3>1, <3>2, <3>3 DEF Kept
  <2> QED
    BY <1>1, <2>1, <2>2, <2>4, DaysParts
<1>4. CASE LoadTotal
  <2>1. /\ UNCHANGED <<records, rows, day, totalDay>>
        /\ offDay' = (offDay \/ Day(Time) # totalDay)
    BY <1>4, CountsAdvance DEF LoadTotal, Advances, tables
  <2>2. UNCHANGED <<seen, now, phase>> /\ Time' = Time
    BY <2>1 DEF records, Time, Record
  <2>3. ~offDay' => Kept'
    <3>1. SUFFICES ASSUME Kept, Day(Time) = totalDay PROVE Kept'
      BY <1>1, <1>2, <2>1
    <3>2. AddToDate' /\ CountToDate'
      BY <1>2, <2>1, <2>2, <3>1 DEF AddToDate, CountToDate
    <3>3. RowsToDate'
      BY <2>1, <2>2, <3>1 DEF Kept, RowsToDate, Rows
    <3> QED
      BY <2>1, <3>1, <3>2, <3>3 DEF Kept
  <2> QED
    BY <1>1, <2>1, <2>2, <2>3, DaysParts
<1>5. CASE \/ StoreTotal \/ PushMqttMsg \/ (AddInfo /\ rows' = rows) \/ (SetInfo /\ rows' = rows)
           \/ AddTrajectoryInfo \/ UpdateTrajectoryInfo \/ RowAdded \/ RowSet
  <2>1. /\ Advances(Steps \ {"load", "end"})
        /\ UNCHANGED <<day, totalDay>> /\ (offDay => offDay')
        /\ rows' = rows \/ RowAdded \/ RowSet
    <3>1. CASE StoreTotal \/ PushMqttMsg
      <4>1. Head(todo) # "load" /\ Advances({"load", "count", "push", "tell"})
        BY <3>1, CountsAdvance DEF StoreTotal, PushMqttMsg, Step
      <4> QED
        BY <3>1, <4>1 DEF StoreTotal, PushMqttMsg, Advances, Steps, dataVars, histVars
    <3>2. CASE AddInfo /\ rows' = rows
      BY <3>2, AddInfoAdvances DEF Advances, Steps
    <3>3. CASE SetInfo /\ rows' = rows
      <4>1. \/ offDay' = (offDay \/ (Kind = "Frontage" /\ Day(rows[info].start) # Day(Time)))
            \/ offDay' = offDay
        BY <3>3, SetInfoAdvances
      <4>2. offDay => offDay'
        BY <4>1
      <4>3. Advances({"set"}) /\ UNCHANGED <<day, totalDay>>
        BY <3>3, SetInfoAdvances
      <4> QED
        BY <3>3, <4>2, <4>3 DEF Advances, Steps
    <3>4. CASE AddTrajectoryInfo
      BY <3>4, AddTrajectoryAdvances DEF Advances, Steps
    <3>5. CASE UpdateTrajectoryInfo
      BY <3>5, UpdateTrajectoryAdvances DEF Advances, Steps
    <3>6. CASE RowAdded
      BY <3>6 DEF RowAdded, Advances, Steps
    <3>7. CASE RowSet
      BY <3>7 DEF RowSet, Advances, Steps
    <3> QED
      BY <1>5, <3>1, <3>2, <3>3, <3>4, <3>5, <3>6, <3>7
  <2>2. /\ Busy /\ Busy' /\ UNCHANGED <<seen, now, phase>> /\ Head(todo) # "load"
        /\ \A s : Has(todo', s) <=> Has(todo, s) /\ s # Head(todo)
        /\ Kind' = Kind /\ Time' = Time /\ Record' = Record /\ PlanFacts(Kind, todo')
    BY <2>1, AdvancesTo DEF Advances, records
  <2>3. PlanFacts(Kind, todo) /\ Record \in DOMAIN seen /\ Record \in Records
    BY <2>2, BusyContext
  <2>4. ~Has(todo, "load") /\ Head(todo') # "count"
    BY <2>2, <2>3 DEF PlanFacts
  <2>5. ~offDay' => Kept'
    <3>1. SUFFICES ASSUME Kept, ~offDay' PROVE Kept'
      BY <1>1, <1>2, <2>1
    <3>2. AddToDate' /\ CountToDate'
      BY <2>1, <2>2, <2>4, <3>1 DEF Kept, AddToDate, CountToDate
    <3>3. RowsToDate'
      <4>1. CASE rows' = rows
        BY <2>1, <2>2, <3>1, <4>1 DEF Kept, RowsToDate, Rows
      <4>2. CASE RowAdded
        <5> DEFINE v == [by |-> Record, start |-> Time, end |-> Time]
        <5>1. v # NoRow /\ v.start = Time
          BY <2>3, Context DEF NoRow
        <5>2. rows' = [rows EXCEPT ![Record] = v] /\ Head(todo) = "add"
          BY <4>2 DEF RowAdded, Advances
        <5> HIDE DEF v
        <5>3. rows'[Record] = v /\ \A r \in DOMAIN seen : r # Record => rows'[r] = rows[r]
          BY <2>2, <2>3, <5>1, <5>2, RowsChange
        <5>4. Kind \in Counted => Day(Time) <= totalDay
          BY <2>2, <2>3, <2>4, <3>1, <5>2 DEF Kept, AddToDate, PlanFacts
        <5>5. ASSUME NEW k \in Counted, NEW r \in Rows(k)' PROVE Day(rows'[r].start) <= totalDay
          <6>1. r \in DOMAIN seen /\ seen[r].type = k /\ rows'[r] # NoRow
            BY <2>2 DEF Rows
          <6>2. CASE r = Record
            BY <5>1, <5>3, <5>4, <6>1, <6>2 DEF Kind
          <6>3. CASE r # Record
            <7>1. rows'[r] = rows[r] /\ r \in Rows(k)
              BY <5>3, <6>1, <6>3 DEF Rows
            <7> QED
              BY <3>1, <7>1 DEF Kept, RowsToDate
          <6> QED
            BY <6>2, <6>3
        <5> QED
          BY <2>1, <5>5 DEF RowsToDate
      <4>3. CASE RowSet
        <5>1. \A k \in Counted : /\ Rows(k)' = Rows(k)
                                 /\ \A r \in Rows(k) : Day(rows'[r].start) = Day(rows[r].start)
          BY <3>1, <4>3, SetKeepsDays
        <5>2. ASSUME NEW k \in Counted, NEW r \in Rows(k)' PROVE Day(rows'[r].start) <= totalDay
          BY <3>1, <5>1 DEF Kept, RowsToDate
        <5> QED
          BY <2>1, <5>2 DEF RowsToDate
      <4> QED
        BY <2>1, <4>1, <4>2, <4>3
    <3> QED
      BY <2>1, <3>1, <3>2, <3>3 DEF Kept
  <2> QED
    BY <1>1, <2>1, <2>2, <2>5, DaysParts
<1>6. CASE DelHandle \/ Crash \/ Restart
  <2>1. /\ ~Busy' /\ UNCHANGED <<now, seen, rows, totalDay, offDay>>
        /\ day' \in {day, Never} /\ (phase' = phase \/ day' = Never)
    <3>1. CASE DelHandle
      BY <3>1, DropsRecord
    <3>2. CASE Crash
      BY <3>2 DEF Crash, Busy, dataVars
    <3>3. CASE Restart
      BY <1>1, <3>3, TypedHasParts DEF Restart, Busy, dataVars, histVars, threadVars, TypedWork
    <3> QED
      BY <1>6, <3>1, <3>2, <3>3
  <2>2. ~offDay => Kept'
    BY <1>1, <2>1 DEF Kept, RowsToDate, AddToDate, CountToDate, Rows
  <2> QED
    BY <1>1, <2>1, <2>2, DaysParts
<1>7. CASE \E kind \in Kinds, plate \in Plates \cup {NoPlate} : AddVehicleInfo(kind, plate)
  <2> DEFINE new == Len(seen) + 1
  <2>1. /\ new \in Records
        /\ DOMAIN seen' = DOMAIN seen \cup {new} /\ new \notin DOMAIN seen
        /\ \A r \in DOMAIN seen : seen'[r] = seen[r]
        /\ listHead # << >> => Kind' = Kind /\ Time' = Time
        /\ UNCHANGED <<now, phase, todo, day, rows, totalDay, offDay>>
    BY <1>7, AddsRecord
  <2> HIDE DEF new
  <2>2. Busy' = Busy /\ (Busy => Kind' = Kind /\ Time' = Time)
    BY <2>1, BusyContext DEF Busy
  <2>3. \A k : Rows(k)' = Rows(k)
    BY <2>1, RowsOfOld
  <2>4. ~offDay => Kept'
    BY <1>1, <2>1, <2>2, <2>3 DEF Kept, RowsToDate, AddToDate, CountToDate
  <2> QED
    BY <1>1, <2>1, <2>4, DaysParts
<1>8. CASE VehicleDataAnalysisManageInit
  <2>1. /\ phase = "cameras" /\ ~Busy' /\ UNCHANGED <<now, seen, rows, day>>
        /\ phase' = "run" /\ totalDay' = Day(now)
    BY <1>8, TypedHasParts
    DEF VehicleDataAnalysisManageInit, threadVars, dataVars, Busy, TypedWork
  <2>2. Kept'
    BY <1>1, <2>1, DatedToNow DEF Kept, RowsToDate, AddToDate, CountToDate, Rows
  <2>3. totalDay' <= Day(now')
    BY <2>1, DayIs
  <2> QED
    BY <2>1, <2>2, <2>3, DaysParts
<1>9. CASE ThreadStart
  <2>1. /\ UNCHANGED <<now, seen, phase, listHead, todo, rows, totalDay>>
        /\ phase = "run" /\ day' = Day(now) /\ offDay' = (offDay \/ Day(now) # totalDay)
    BY <1>9 DEF ThreadStart, world, threadVars, dataVars
  <2>2. ~offDay' => Kept'
    BY <1>1, <1>2, <2>1 DEF Kept, RowsToDate, AddToDate, CountToDate, Rows, Busy, Kind, Time, Record
  <2> QED
    BY <1>1, <2>1, <2>2, DaysParts
<1>10. CASE ThreadRateOfProgress
  <2>1. /\ UNCHANGED <<now, seen, phase, listHead, todo, rows>>
        /\ phase = "run" /\ day' = Day(now) /\ totalDay' = Day(now)
        /\ offDay' = (offDay \/ Step("count"))
    BY <1>10 DEF ThreadRateOfProgress, world, threadVars, dataVars
  <2>2. Busy' = Busy /\ Time' = Time /\ Kind' = Kind
    BY <2>1 DEF Busy, Kind, Time, Record
  <2>3. ~offDay' => ~(Busy /\ Head(todo) = "count")
    BY <1>2, <2>1 DEF Step, Busy
  <2>4. ~offDay' => Kept'
    BY <2>1, <2>2, <2>3, DatedToNow DEF Kept, RowsToDate, AddToDate, CountToDate, Rows
  <2>5. totalDay' <= Day(now')
    BY <2>1, DayIs
  <2> QED
    BY <2>1, <2>4, <2>5, DaysParts
<1>11. CASE PushMqttApiTask \/ UNCHANGED vars \/ Tick
  <2>1. /\ UNCHANGED <<seen, phase, listHead, todo, day, rows, totalDay, offDay>>
        /\ now' \in Int /\ now <= now'
    <3>1. CASE Tick
      BY <3>1, <1>2, Context DEF Tick, threadVars, dataVars, histVars
    <3>2. CASE PushMqttApiTask \/ UNCHANGED vars
      BY <1>2, <3>2 DEF PushMqttApiTask, vars, world, threadVars, dataVars, histVars
    <3> QED
      BY <1>11, <3>1, <3>2
  <2>2. ~offDay => Kept'
    BY <1>1, <2>1 DEF Kept, RowsToDate, AddToDate, CountToDate, Rows, Busy, Kind, Time, Record
  <2>3. totalDay' <= Day(now')
    <3>1. Day(now) <= Day(now') /\ Day(now) \in {0, 1} /\ Day(now') \in {0, 1}
      BY <1>2, <2>1, DayGrows, DayIs
    <3> QED
      BY <1>1, <1>2, <2>1, <3>1
  <2> QED
    BY <1>1, <2>1, <2>2, <2>3, DaysParts
<1> QED
  <2>1. AddInfo => rows' = rows \/ RowAdded
    BY AddInfoAdvances DEF RowAdded
  <2>2. SetInfo => rows' = rows \/ RowSet
    BY SetInfoAdvances DEF RowSet
  <2> QED
    BY <1>3, <1>4, <1>5, <1>6, <1>7, <1>8, <1>9, <1>10, <1>11, <2>1, <2>2 DEF Next, RecordThread

\* The parts of TotalsKept.
Good == phase = "run" /\ noRow = {} /\ ~offDay
TotalsAre == \A k \in Counted : total[k] = Cardinality(RowsOfDay(k, totalDay))
                                              + (IF Ahead(k) THEN 1 ELSE 0)
CountIs == Busy /\ Head(todo) = "count" => count = total[Kind]

LEMMA KeptParts ==
    /\ TotalsKept <=> (Good => TotalsAre /\ CountIs)
    /\ TotalsKept' <=> (Good' => TotalsAre' /\ CountIs')
  BY DEF TotalsKept, Good, TotalsAre, CountIs

\* Steps that change neither totals, rows, nor the record that is ahead.
LEMMA TotalsSame ==
    ASSUME TotalsAre, total' = total, totalDay' = totalDay,
           \A k \in Counted : /\ RowsOfDay(k, totalDay)' = RowsOfDay(k, totalDay)
                              /\ Ahead(k)' <=> Ahead(k)
    PROVE  TotalsAre'
  BY DEF TotalsAre

LEMMA TotalsKeptNext ==
    ASSUME Typed, Listed, Timed, RowsMade, Found, DaysKept, TotalsKept, [Next]_vars
    PROVE  TotalsKept'
<1>1. /\ totalDay <= Day(now) /\ (phase # "run" => day = Never) /\ (~offDay => Kept)
      /\ Good => TotalsAre /\ CountIs
  BY DaysParts, KeptParts
<1>2. /\ totalDay \in {0, 1} /\ offDay \in BOOLEAN /\ total \in [Counted -> 0 .. MaxEvents]
      /\ MaxEvents \in Nat /\ noRow \subseteq Records
  BY TypedHasParts, Context DEF TypedTotals, TypedWork
<1>3. CASE GetNextHandle \/ Look
  <2>1. /\ ~Busy /\ UNCHANGED <<records, rows, noRow, total, totalDay, offDay>>
        /\ Head(todo') # "count"
        /\ Kind \in Counted /\ Has(todo', "add") => Head(todo') = "load"
        /\ todo' \in Plans(Kind) /\ Kind \in DEVICE_TYPES
    <3>1. CASE GetNextHandle
      <4>1. Kind = "Alarm" \/ ~Has(todo', "add")
        BY <3>1, GetNextResult
      <4>2. Kind = "Alarm" => Kind \notin Counted
        BY DEF Counted
      <4>3. listHead # << >>
        BY <3>1, GetNextResult
      <4>4. Kind \in DEVICE_TYPES
        BY <4>3, ListContext, Context DEF Kind
      <4> QED
        BY <3>1, <4>1, <4>2, <4>4, GetNextResult DEF tables
    <3>2. CASE Look
      <4>1. Kind \in DEVICE_TYPES
        BY <3>2, LookResult, ListContext, Context DEF Kind
      <4> QED
        BY <3>2, <4>1, LookResult DEF tables
    <3> QED
      BY <1>3, <3>1, <3>2
  <2>2. UNCHANGED <<seen, phase>> /\ Kind' = Kind
    BY <2>1 DEF records, Kind, Record
  <2>3. Head(todo') = "load" => Has(todo', "count")
    BY <2>1, PlansGood DEF PlanFacts
  <2>4. \A k \in Counted : ~Ahead(k) /\ ~Ahead(k)'
    BY <2>1, <2>2, <2>3 DEF Ahead
  <2>5. \A k \in Counted : RowsOfDay(k, totalDay)' = RowsOfDay(k, totalDay)
    BY <2>1, <2>2 DEF RowsOfDay, Rows
  <2>6. Good' => Good
    BY <2>1, <2>2 DEF Good
  <2>7. Good' => TotalsAre'
    BY <1>1, <2>1, <2>4, <2>5, <2>6, TotalsSame
  <2>8. CountIs'
    BY <2>1 DEF CountIs
  <2> QED
    BY <2>7, <2>8, KeptParts
<1>4. CASE LoadTotal
  <2>1. /\ Advances({"load", "count", "push", "tell"}) /\ Head(todo) = "load"
        /\ UNCHANGED <<rows, noRow, total, totalDay>>
        /\ offDay' = (offDay \/ Day(Time) # totalDay) /\ count' = total[Kind]
    BY <1>4, CountsAdvance DEF LoadTotal, Step, tables
  <2>2. /\ Busy /\ Busy' /\ UNCHANGED <<seen, phase>> /\ Kind' = Kind /\ PlanFacts(Kind, todo')
        /\ \A s : Has(todo', s) <=> Has(todo, s) /\ s # Head(todo)
    BY <2>1, AdvancesTo DEF Advances, records
  <2>3. PlanFacts(Kind, todo)
    BY <2>2, BusyContext
  <2>4. Has(todo, "count") /\ Has(todo', "count")
    BY <2>1, <2>2, <2>3 DEF PlanFacts
  <2>5. \A k \in Counted : ~Ahead(k) /\ ~Ahead(k)'
    BY <2>4 DEF Ahead
  <2>6. \A k \in Counted : RowsOfDay(k, totalDay)' = RowsOfDay(k, totalDay)
    BY <2>1, <2>2 DEF RowsOfDay, Rows
  <2>7. Good' => Good
    BY <1>2, <2>1, <2>2 DEF Good
  <2>8. Good' => TotalsAre'
    BY <1>1, <2>1, <2>5, <2>6, <2>7, TotalsSame
  <2>9. CountIs'
    BY <2>1, <2>2 DEF CountIs
  <2> QED
    BY <2>8, <2>9, KeptParts
<1>5. CASE StoreTotal
  <2>1. /\ Advances({"load", "count", "push", "tell"}) /\ Head(todo) = "count"
        /\ UNCHANGED <<rows, noRow, totalDay, offDay>>
        /\ total' = [total EXCEPT ![Kind] = count + 1]
    BY <1>5, CountsAdvance DEF StoreTotal, Step, tables, histVars
  <2>2. /\ Busy /\ Busy' /\ UNCHANGED <<seen, phase>> /\ Kind' = Kind /\ Time' = Time
        /\ PlanFacts(Kind, todo')
        /\ \A s : Has(todo', s) <=> Has(todo, s) /\ s # Head(todo)
    BY <2>1, AdvancesTo DEF Advances, records
  <2>3. PlanFacts(Kind, todo)
    BY <2>2, BusyContext
  <2>4. /\ Has(todo, "count") /\ ~Has(todo', "count") /\ Has(todo', "add") /\ Kind \in Counted
        /\ Head(todo') # "count"
    BY <2>1, <2>2, <2>3 DEF PlanFacts
  <2>5. \A k \in Counted : RowsOfDay(k, totalDay)' = RowsOfDay(k, totalDay)
    BY <2>1, <2>2 DEF RowsOfDay, Rows
  <2>6. CountIs'
    BY <2>4 DEF CountIs
  <2>7. SUFFICES ASSUME Good' PROVE TotalsAre'
    BY <2>6, KeptParts
  <2>8. Good /\ TotalsAre /\ count = total[Kind] /\ Day(Time) = totalDay
    BY <1>1, <2>1, <2>2, <2>7 DEF Good, CountIs, Kept, CountToDate
  <2>9. ASSUME NEW k \in Counted
        PROVE  total'[k] = Cardinality(RowsOfDay(k, totalDay)) + (IF Ahead(k)' THEN 1 ELSE 0)
    <3>1. ~Ahead(k) /\ (Ahead(k)' <=> k = Kind)
      BY <2>1, <2>2, <2>4, <2>8 DEF Ahead
    <3>2. total[k] = Cardinality(RowsOfDay(k, totalDay)) /\ total[k] \in Nat
      <4>1. total[k] = Cardinality(RowsOfDay(k, totalDay)) + 0
        BY <2>8, <3>1 DEF TotalsAre
      <4>2. Cardinality(RowsOfDay(k, totalDay)) \in Nat
        BY DayCounts
      <4> QED
        BY <4>1, <4>2
    <3>3. CASE k = Kind
      <4>1. total'[k] = total[k] + 1
        BY <1>2, <2>1, <2>8, <3>3
      <4> QED
        BY <3>1, <3>2, <3>3, <4>1
    <3>4. CASE k # Kind
      <4>1. total'[k] = total[k]
        BY <1>2, <2>1, <3>4
      <4> QED
        BY <3>1, <3>2, <3>4, <4>1
    <3> QED
      BY <3>3, <3>4
  <2> QED
    BY <2>5, <2>9 DEF TotalsAre
<1>6. CASE AddInfo /\ rows' = rows /\ ~RowAdded
  <2>1. noRow' # {}
    BY <1>6, AddInfoAdvances DEF RowAdded
  <2> QED
    BY <2>1 DEF TotalsKept
<1>7. CASE RowAdded
  <2>1. /\ Busy /\ Busy' /\ UNCHANGED <<seen, phase, noRow, total, totalDay, offDay>>
        /\ Head(todo) = "add" /\ PlanFacts(Kind, todo')
        /\ \A s : Has(todo', s) <=> Has(todo, s) /\ s # Head(todo)
        /\ Kind' = Kind /\ Time' = Time
    BY <1>7, AdvancesTo DEF RowAdded, Advances, records
  <2>2. /\ PlanFacts(Kind, todo) /\ Record \in DOMAIN seen /\ Record \in Records
        /\ phase = "run" /\ listHead # << >>
    BY <2>1, BusyContext
  <2>3. /\ Has(todo, "add") /\ ~Has(todo', "add") /\ ~Has(todo, "count") /\ Head(todo') # "count"
    BY <2>1, <2>2 DEF PlanFacts
  <2> DEFINE v == [by |-> Record, start |-> Time, end |-> Time]
  <2>4. v # NoRow /\ v.start = Time
    BY <2>2, Context DEF NoRow
  <2>5. rows' = [rows EXCEPT ![Record] = v]
    BY <1>7 DEF RowAdded
  <2> HIDE DEF v
  <2>6. rows'[Record] = v /\ \A r \in DOMAIN seen : r # Record => rows'[r] = rows[r]
    BY <2>1, <2>2, <2>4, <2>5, RowsChange
  <2>7. rows[Record] = NoRow
    BY <2>2, <2>3, RowsBefore
  <2>8. CountIs'
    BY <2>3 DEF CountIs
  <2>9. SUFFICES ASSUME Good' PROVE TotalsAre'
    BY <2>8, KeptParts
  <2>10. Good /\ TotalsAre
    BY <1>1, <2>1, <2>9 DEF Good
  <2>11. ASSUME NEW k \in Counted
         PROVE  total[k] = Cardinality(RowsOfDay(k, totalDay)')
    <3> DEFINE old == RowsOfDay(k, totalDay)
    <3>1. total[k] = Cardinality(old) + (IF Ahead(k) THEN 1 ELSE 0)
      BY <2>10 DEF TotalsAre
    <3>2. IsFiniteSet(old) /\ Cardinality(old) \in Nat
      BY DayCounts
    <3>3. Record \notin old
      BY <2>7 DEF RowsOfDay, Rows
    <3>4. Ahead(k) <=> Kind = k /\ Day(Time) = totalDay
      BY <2>1, <2>3 DEF Ahead
    <3>5. RowsOfDay(k, totalDay)' = IF Kind = k /\ Day(Time) = totalDay THEN old \cup {Record} ELSE old
      BY <2>1, <2>2, <2>4, <2>6, <2>7 DEF RowsOfDay, Rows, Kind
    <3> HIDE DEF old
    <3>6. Cardinality(old \cup {Record}) = Cardinality(old) + 1
      BY <3>2, <3>3, FS_AddElement
    <3> QED
      BY <3>1, <3>2, <3>4, <3>5, <3>6
  <2>12. \A k \in Counted : ~Ahead(k)'
    BY <2>3 DEF Ahead
  <2>13. \A k \in Counted : total[k] \in Nat
    BY <1>2
  <2>14. \A k \in Counted : total[k] = Cardinality(RowsOfDay(k, totalDay)') + 0
    BY <2>11, <2>13
  <2> QED
    BY <2>1, <2>12, <2>14 DEF TotalsAre
<1>8. CASE PushMqttMsg \/ SetInfo \/ AddTrajectoryInfo \/ UpdateTrajectoryInfo
  <2>1. /\ Advances(Steps \ {"load", "count", "add", "end"})
        /\ UNCHANGED <<noRow, total, totalDay>>
        /\ (rows' = rows /\ (offDay => offDay')) \/ RowSet
    <3>1. CASE PushMqttMsg
      <4>1. Head(todo) \in {"push", "tell"} /\ Advances({"load", "count", "push", "tell"})
        BY <3>1, CountsAdvance DEF PushMqttMsg, Step
      <4> QED
        BY <3>1, <4>1 DEF PushMqttMsg, Advances, Steps, dataVars, histVars
    <3>2. CASE SetInfo
      <4>1. Advances({"set"}) /\ UNCHANGED <<noRow, total, totalDay>>
        BY <3>2, SetInfoAdvances
      <4>2. RowSet \/ (rows' = rows /\ offDay' = offDay)
        BY <3>2, SetInfoAdvances DEF RowSet
      <4> QED
        BY <4>1, <4>2 DEF Advances, Steps
    <3>3. CASE AddTrajectoryInfo
      BY <3>3, AddTrajectoryAdvances DEF Advances, Steps
    <3>4. CASE UpdateTrajectoryInfo
      BY <3>4, UpdateTrajectoryAdvances DEF Advances, Steps
    <3> QED
      BY <1>8, <3>1, <3>2, <3>3, <3>4
  <2>2. /\ Busy /\ Busy' /\ UNCHANGED <<seen, phase>>
        /\ Head(todo) \notin {"load", "count", "add"} /\ PlanFacts(Kind, todo')
        /\ \A s : Has(todo', s) <=> Has(todo, s) /\ s # Head(todo)
        /\ Kind' = Kind /\ Time' = Time
    BY <2>1, AdvancesTo DEF Advances, records
  <2>3. PlanFacts(Kind, todo)
    BY <2>2, BusyContext
  <2>4. /\ Has(todo', "add") <=> Has(todo, "add")
        /\ Has(todo', "count") <=> Has(todo, "count")
        /\ Head(todo') # "count"
    BY <2>2, <2>3 DEF PlanFacts
  <2>5. \A k \in Counted : Ahead(k)' <=> Ahead(k)
    BY <2>1, <2>2, <2>4 DEF Ahead
  <2>6. CountIs'
    BY <2>4 DEF CountIs
  <2>7. SUFFICES ASSUME Good' PROVE TotalsAre'
    BY <2>6, KeptParts
  <2>8. ~offDay /\ \A k \in Counted : RowsOfDay(k, totalDay)' = RowsOfDay(k, totalDay)
    <3>1. CASE rows' = rows /\ (offDay => offDay')
      BY <2>1, <2>2, <2>7, <3>1 DEF RowsOfDay, Rows, Good
    <3>2. CASE RowSet
      <4>1. /\ ~offDay
            /\ \A k \in Counted : /\ Rows(k)' = Rows(k)
                                  /\ \A r \in Rows(k) : Day(rows'[r].start) = Day(rows[r].start)
        BY <2>7, <3>2, SetKeepsDays DEF Good
      <4>2. ASSUME NEW k \in Counted PROVE RowsOfDay(k, totalDay)' = RowsOfDay(k, totalDay)
        BY <2>1, <4>1 DEF RowsOfDay
      <4> QED
        BY <4>1, <4>2
    <3> QED
      BY <2>1, <3>1, <3>2
  <2>9. Good /\ TotalsAre
    BY <1>1, <2>1, <2>2, <2>7, <2>8 DEF Good
  <2> QED
    BY <2>1, <2>5, <2>8, <2>9, TotalsSame
<1>9. CASE DelHandle
  <2>1. Busy /\ todo = <<"end">> /\ ~Busy' /\ UNCHANGED <<seen, phase, rows, noRow, total, totalDay, offDay>>
    BY <1>9, DropsRecord
  <2>2. \A k \in Counted : ~Ahead(k) /\ ~Ahead(k)'
    BY <2>1, HasIn1 DEF Ahead
  <2>3. \A k \in Counted : RowsOfDay(k, totalDay)' = RowsOfDay(k, totalDay)
    BY <2>1 DEF RowsOfDay, Rows
  <2>4. Good' => TotalsAre'
    BY <1>1, <2>1, <2>2, <2>3, TotalsSame DEF Good
  <2>5. CountIs'
    BY <2>1 DEF CountIs
  <2> QED
    BY <2>4, <2>5, KeptParts
<1>10. CASE \E kind \in Kinds, plate \in Plates \cup {NoPlate} : AddVehicleInfo(kind, plate)
  <2> DEFINE new == Len(seen) + 1
  <2>1. /\ new \in Records
        /\ DOMAIN seen' = DOMAIN seen \cup {new} /\ new \notin DOMAIN seen
        /\ \A r \in DOMAIN seen : seen'[r] = seen[r]
        /\ listHead # << >> => Kind' = Kind /\ Time' = Time
        /\ UNCHANGED <<phase, todo, count, rows, noRow, total, totalDay, offDay>>
    BY <1>10, AddsRecord
  <2> HIDE DEF new
  <2>2. Busy' = Busy /\ (Busy => Kind' = Kind /\ Time' = Time)
    BY <2>1, BusyContext DEF Busy
  <2>3. \A k \in Counted : RowsOfDay(k, totalDay)' = RowsOfDay(k, totalDay)
    <3>1. \A k, d : RowsOfDay(k, d)' = RowsOfDay(k, d)
      BY <2>1, RowsOfOld
    <3>2. TAKE k \in Counted
    <3>3. RowsOfDay(k, totalDay)' = {r \in Rows(k)' : Day(rows'[r].start) = totalDay}
      BY <2>1 DEF RowsOfDay
    <3>4. Rows(k)' = Rows(k)
      BY <2>1, RowsOfOld
    <3> QED
      BY <2>1, <3>3, <3>4 DEF RowsOfDay
  <2>4. \A k \in Counted : Ahead(k)' <=> Ahead(k)
    BY <2>1, <2>2 DEF Ahead
  <2>5. Good' => TotalsAre'
    BY <1>1, <2>1, <2>3, <2>4, TotalsSame DEF Good
  <2>6. Good' => CountIs'
    BY <1>1, <2>1, <2>2 DEF Good, CountIs
  <2> QED
    BY <2>5, <2>6, KeptParts
<1>11. CASE VehicleDataAnalysisManageInit
  <2>1. ~Busy' /\ UNCHANGED <<now, seen, rows>> /\ totalDay' = Day(now)
    BY <1>11, TypedHasParts
    DEF VehicleDataAnalysisManageInit, threadVars, dataVars, Busy, TypedWork
  <2>2. CountIs'
    BY <2>1 DEF CountIs
  <2>3. SUFFICES ASSUME ~offDay' PROVE TotalsAre'
    BY <2>2, KeptParts DEF Good
  <2>4. total' = [k \in Counted |-> Cardinality(RowsOfDay(k, Day(now)))]
    BY <1>11, <2>3 DEF VehicleDataAnalysisManageInit
  <2>5. \A k \in Counted : ~Ahead(k)'
    BY <2>1 DEF Ahead
  <2>6. ASSUME NEW k \in Counted
        PROVE  /\ RowsOfDay(k, totalDay)' = RowsOfDay(k, Day(now))
               /\ total'[k] = Cardinality(RowsOfDay(k, Day(now)))
               /\ Cardinality(RowsOfDay(k, Day(now))) \in Nat
    <3>1. RowsOfDay(k, totalDay)' = RowsOfDay(k, Day(now))
      BY <2>1 DEF RowsOfDay, Rows
    <3> QED
      BY <2>4, <3>1, DayCounts
  <2>7. \A k \in Counted : total'[k] = Cardinality(RowsOfDay(k, totalDay)') + 0
    BY <2>6
  <2> QED
    BY <2>5, <2>7 DEF TotalsAre
<1>12. CASE ThreadRateOfProgress
  <2>1. /\ UNCHANGED <<seen, phase, listHead, todo, rows, noRow>>
        /\ day \notin {Never, Day(now)} /\ phase = "run"
        /\ total' = [k \in Counted |-> 0] /\ totalDay' = Day(now)
        /\ offDay' = (offDay \/ Step("count"))
    BY <1>12 DEF ThreadRateOfProgress, world, threadVars, dataVars
  <2>2. Busy' = Busy /\ Time' = Time /\ Kind' = Kind
    BY <2>1 DEF Busy, Kind, Time, Record
  <2>3. SUFFICES ASSUME Good' PROVE TotalsAre' /\ CountIs'
    BY KeptParts
  <2>4. Kept /\ ~(Busy /\ Head(todo) = "count")
    BY <1>1, <1>2, <2>1, <2>3 DEF Good, Step, Busy
  <2>5. CountIs'
    BY <2>1, <2>2, <2>4 DEF CountIs
  <2>6. totalDay = 0 /\ Day(now) = 1
    <3>1. day = totalDay /\ Day(now) \in {0, 1}
      BY <2>1, <2>4, DayIs DEF Kept
    <3> QED
      BY <1>1, <1>2, <2>1, <3>1
  <2>7. ASSUME NEW k \in Counted PROVE RowsOfDay(k, totalDay)' = {} /\ ~Ahead(k)'
    <3>1. RowsOfDay(k, totalDay)' = {r \in Rows(k) : Day(rows[r].start) = 1}
      BY <2>1, <2>6 DEF RowsOfDay, Rows
    <3>2. \A r \in Rows(k) : ~(Day(rows[r].start) = 1)
      BY <2>4, <2>6 DEF Kept, RowsToDate
    <3>3. ~Ahead(k)'
      <4>1. SUFFICES ASSUME Ahead(k)' PROVE FALSE
        OBVIOUS
      <4>2. Busy /\ Kind = k /\ Has(todo, "add") /\ ~Has(todo, "count") /\ Day(Time) = 1
        BY <2>1, <2>2, <2>6, <4>1 DEF Ahead
      <4>3. ~Has(todo, "load")
        BY <4>2, BusyContext DEF PlanFacts
      <4> QED
        BY <2>4, <2>6, <4>2, <4>3 DEF Kept, AddToDate
    <3> QED
      BY <3>1, <3>2, <3>3
  <2>8. \A k \in Counted : total'[k] = Cardinality(RowsOfDay(k, totalDay)') + 0
    <3>1. Cardinality({}) = 0
      BY FS_EmptySet
    <3> QED
      BY <2>1, <2>7, <3>1
  <2>9. TotalsAre'
    BY <2>7, <2>8 DEF TotalsAre
  <2> QED
    BY <2>5, <2>9
<1>13. CASE ThreadStart \/ PushMqttApiTask \/ UNCHANGED vars \/ Tick
  <2>1. /\ UNCHANGED <<seen, phase, listHead, todo, count, rows, noRow, total, totalDay>>
        /\ offDay => offDay'
    <3>1. CASE ThreadStart
      <4>1. offDay' = (offDay \/ Day(now) # totalDay)
        BY <3>1 DEF ThreadStart
      <4>2. offDay => offDay'
        BY <4>1
      <4> QED
        BY <3>1, <4>2 DEF ThreadStart, world, threadVars, dataVars
    <3>2. CASE PushMqttApiTask \/ UNCHANGED vars \/ Tick
      BY <3>2 DEF PushMqttApiTask, vars, Tick, world, threadVars, dataVars, histVars
    <3> QED
      BY <1>13, <3>1, <3>2
  <2>2. Busy' = Busy /\ Time' = Time /\ Kind' = Kind
    BY <2>1 DEF Busy, Kind, Time, Record
  <2>3. \A k \in Counted : /\ RowsOfDay(k, totalDay)' = RowsOfDay(k, totalDay)
                           /\ Ahead(k)' <=> Ahead(k)
    BY <2>1, <2>2 DEF RowsOfDay, Rows, Ahead
  <2>4. Good' => Good
    BY <2>1 DEF Good
  <2>5. Good' => TotalsAre'
    BY <1>1, <2>1, <2>3, <2>4, TotalsSame
  <2>6. Good' => CountIs'
    BY <1>1, <2>1, <2>2, <2>4 DEF CountIs
  <2> QED
    BY <2>5, <2>6, KeptParts
<1>14. CASE Crash \/ Restart
  BY <1>14 DEF TotalsKept, Crash, Restart
<1> QED
  <2>1. AddInfo => (AddInfo /\ rows' = rows /\ ~RowAdded) \/ RowAdded
    BY AddInfoAdvances DEF RowAdded
  <2> QED
    BY <1>3, <1>4, <1>5, <1>6, <1>7, <1>8, <1>9, <1>10, <1>11, <1>12, <1>13, <1>14, <2>1
    DEF Next, RecordThread
-----------------------------------------------------------------------------
(***************************************************************************)
(* The invariant, and what follows from it.                                *)
(***************************************************************************)

LEMMA VehicleInvInit == Init => VehicleInv
<1> SUFFICES ASSUME Init PROVE VehicleInv
  OBVIOUS
<1>1. Typed
  BY TypedInit
<1>2. /\ seen = << >> /\ listHead = << >> /\ ~Busy /\ phase = "cameras" /\ done = {} /\ early = {}
      /\ dead = {} /\ day = Never /\ totalDay = 0
      /\ rows = [r \in Records |-> NoRow] /\ traj = [r \in Records |-> NoTraj]
      /\ total = [k \in Counted |-> 0]
  BY DEF Init, Busy
<1>3. DOMAIN seen = {} /\ DOMAIN listHead = {} /\ ToSet(listHead) = {} /\ Len(seen) = 0
  BY <1>2, NoPlanSteps
<1>4. \A k : Rows(k) = {} /\ \A p : RowsOf(k, p) = {}
  BY <1>3 DEF Rows, RowsOf
<1>5. \A r \in Records : rows[r] = NoRow /\ traj[r].start = Never
  BY <1>2 DEF NoTraj
<1>6. Listed /\ Timed /\ Found
  BY <1>2, <1>3 DEF Listed, Timed, Found
<1>7. RowsMade
  BY <1>5 DEF RowsMade
<1>8. VisitsApart
  BY <1>4, <1>5 DEF VisitsApart
<1>9. StoredInv /\ Telling
  BY <1>2, <1>4, <1>5 DEF StoredInv, Telling
<1>10. TotalsBounded
  BY <1>2, <1>3 DEF TotalsBounded
<1>11. DaysKept
  BY <1>2, <1>4, DayIs DEF DaysKept
<1>12. TotalsKept
  BY <1>2 DEF TotalsKept
<1> QED
  BY <1>1, <1>6, <1>7, <1>8, <1>9, <1>10, <1>11, <1>12 DEF VehicleInv

LEMMA VehicleInvNext ==
    ASSUME VehicleInv, [Next]_vars
    PROVE  VehicleInv'
<1>1. Typed' /\ Listed' /\ Timed' /\ RowsMade' /\ Found'
  BY TypedNext, ListedNext, TimedNext, RowsMadeNext, FoundNext DEF VehicleInv
<1>2. VisitsApart' /\ StoredInv' /\ Telling'
  BY VisitsApartNext, StoredNext, TellingNext DEF VehicleInv
<1>3. TotalsBounded' /\ DaysKept' /\ TotalsKept'
  BY TotalsBoundedNext, DaysNext, TotalsKeptNext DEF VehicleInv
<1> QED
  BY <1>1, <1>2, <1>3 DEF VehicleInv

(***************************************************************************)
(* The inductive invariant, for any stations, cars and number of events.   *)
(***************************************************************************)
THEOREM VehicleInvHolds == Spec => []VehicleInv
<1>1. Init => VehicleInv
  BY VehicleInvInit
<1>2. VehicleInv /\ [Next]_vars => VehicleInv'
  BY VehicleInvNext
<1> QED
  BY <1>1, <1>2, PTL DEF Spec

(***************************************************************************)
(* Every record of a sighting is in the list, worked off, or lost before   *)
(* the list was initialised or with the process; none is handled twice,    *)
(* and they are handled in their order.  (AddVehicleInfo,                  *)
(* HandleManageGetNextHandle, HandleManageDelHandle.)                      *)
(***************************************************************************)
THEOREM AllAccountedHolds == Spec => []AllAccounted
<1>1. VehicleInv => AllAccounted
  <2> SUFFICES ASSUME VehicleInv PROVE AllAccounted
    OBVIOUS
  <2>1. Typed /\ Listed
    BY DEF VehicleInv
  <2>2. ToSet(listHead) \cap (done \cup dead) = {}
    <3>1. CASE phase = "run"
      <4>1. SUFFICES ASSUME NEW x \in ToSet(listHead), x \in done \cup dead PROVE FALSE
        OBVIOUS
      <4>2. PICK n \in DOMAIN listHead : x = listHead[n]
        BY <2>1, ListContext
      <4>3. x < x /\ x \in Nat
        BY <2>1, <3>1, <4>1, <4>2, ListContext, Context DEF Listed
      <4> QED
        BY <4>3
    <3>2. CASE phase = "cameras"
      BY <2>1, <3>2 DEF Listed
    <3>3. CASE phase = "down"
      BY <2>1, <3>3, NoPlanSteps DEF Listed
    <3> QED
      BY <2>1, <3>1, <3>2, <3>3 DEF Typed, TypeOK
  <2> QED
    BY <2>1, <2>2 DEF AllAccounted, Listed, Typed
<1> QED
  BY <1>1, VehicleInvHolds, PTL

(***************************************************************************)
(* Two stored visits of a car are more than the gap of their kind apart,   *)
(* and a visit ends with a sighting of the same car, whatever statements   *)
(* failed and however often the process died, but for the searches that    *)
(* failed or found rows of several cars.  (MemoryDataToDatabasePro.)       *)
(***************************************************************************)
THEOREM VisitsApartHolds == Spec => []VisitsApart
<1>1. VehicleInv => VisitsApart
  BY DEF VehicleInv
<1> QED
  BY <1>1, VehicleInvHolds, PTL

(***************************************************************************)
(* A sighting that was worked off is in the tables: it began a visit, or   *)
(* belongs to one that began at most the gap before.                       *)
(* (MemoryDataToDatabasePro, pAdd...Info, pSet...Info.)                    *)
(***************************************************************************)
THEOREM SeenIsStoredHolds == Spec => []SeenIsStored
<1>1. VehicleInv => SeenIsStored
  BY DEF VehicleInv, StoredInv, Stored, SeenIsStored
<1> QED
  BY <1>1, VehicleInvHolds, PTL

(***************************************************************************)
(* Between two records the totals that the web page shows are the numbers  *)
(* of rows of their day, over midnight, deaths and restarts, unless        *)
(* something was counted or dated across midnight or could not be counted. *)
(* (VehicleDataAnalysisManageInit, ThreadRateOfProgress.)                  *)
(***************************************************************************)
THEOREM TotalIsTodayHolds == Spec => []TotalIsToday
<1>1. VehicleInv => TotalIsToday
  <2> SUFFICES ASSUME VehicleInv, phase = "run" /\ todo = << >> /\ noRow = {} /\ ~offDay,
                      NEW kind \in Counted \cap Kinds
               PROVE  total[kind] = Cardinality(RowsOfDay(kind, totalDay))
    BY DEF TotalIsToday
  <2>1. Typed /\ TotalsKept /\ ~Ahead(kind)
    BY DEF VehicleInv, Ahead, Busy
  <2>2. total[kind] = Cardinality(RowsOfDay(kind, totalDay)) + 0
    BY <2>1 DEF TotalsKept
  <2>3. Cardinality(RowsOfDay(kind, totalDay)) \in Nat
    BY <2>1, DayCounts
  <2> QED
    BY <2>2, <2>3
<1> QED
  BY <1>1, VehicleInvHolds, PTL

(***************************************************************************)
(* The trajectory of a visit tells the same as its row, once the record is *)
(* done, except where a statement failed or the process died in between.   *)
(* (pAddTrajectoryInfo, pGetTrajectoryInfo, pUpdateTrajectoryInfo.)        *)
(***************************************************************************)
THEOREM TrajectoryTellsVisitHolds == Spec => []TrajectoryTellsVisit
<1>1. VehicleInv => TrajectoryTellsVisit
  BY DEF VehicleInv, Telling, Tells, Busy, TrajectoryTellsVisit
<1> QED
  BY <1>1, VehicleInvHolds, PTL

(***************************************************************************)
(* No step takes a row out of a table or dates it back: not an update for  *)
(* a car that is seen again, not a failed statement, not a death of the    *)
(* process.                                                                *)
(***************************************************************************)
THEOREM RowsStay ==
    Spec => [][\A q \in DOMAIN seen : rows[q] # NoRow =>
                  rows'[q] # NoRow /\ rows[q].start <= rows'[q].start]_vars
<1>1. VehicleInv /\ [Next]_vars =>
         [\A q \in DOMAIN seen : rows[q] # NoRow =>
             rows'[q] # NoRow /\ rows[q].start <= rows'[q].start]_vars
  BY RowsGrow DEF VehicleInv
<1> QED
  BY <1>1, VehicleInvHolds, PTL DEF Spec
=============================================================================
