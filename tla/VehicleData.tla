------------------------------ MODULE VehicleData ------------------------------
(***************************************************************************)
(* Modules/VehicleDataAnalysis/vehicledataanalysis.c: what the cameras     *)
(* see.  Callbacks of the camera SDK put a record of each sighting into a  *)
(* list; one thread takes the records, decides whether a car that was seen *)
(* is on the same visit as before, stores that, and tells the web page by  *)
(* MQTT (App/MqttAPI/mqttapi.c).  A second thread sets the totals of the   *)
(* day to 0 at midnight.  Statements may fail, the process may die.        *)
(*                                                                         *)
(* Time is in minutes from an hour before midnight; the cameras' clocks    *)
(* are right.                                                              *)
(***************************************************************************)
EXTENDS Integers, Sequences, FiniteSets, SequencesExt, FiniteSetsExt

CONSTANTS
    Stations,    \* stations: the kinds of their cameras, the minutes of sightings
    NPlates,     \* number of cars, whose number plates are numbers here
    MaxEvents    \* bound: sightings, failed statements and deaths of the process

DEVICE_TYPES == {"Frontage", "Entrance", "Wash", "Island", "Alarm"}
Midnight == 60
Day(time) == IF time < Midnight THEN 0 ELSE 1

ASSUME VehicleAssumption ==
    /\ \A s \in Stations : /\ s.kinds \subseteq DEVICE_TYPES
                           /\ s.times \subseteq Nat /\ s.times # {}
    /\ NPlates \in Nat /\ MaxEvents \in Nat

Plates == 1 .. NPlates
NoPlate == 0         \* the plate could not be read
Records == 1 .. MaxEvents
NULL == 0

\* A sighting of that kind later than this after the last one is a new visit.
Gap(kind) == CASE kind = "Frontage" -> 30
               [] kind = "Entrance" -> 60
               [] kind = "Wash" -> 60
               [] kind = "Island" -> 8

VARIABLES
    station,     \* the station
    now,         \* the time
    seen,        \* DataAtt_T of each record so far
    phase,       \* "down"; "cameras": SDK callbacks run, the module does not yet; "run"
    listHead,    \* the list of records
    todo,        \* what MemoryDataToDatabasePro has still to do for the first record
    info,        \* the row that it has found for the record, or NULL
    count,       \* the total that it has read and will write back
    total,       \* VehicleCount
    day,         \* the day that ThreadRateOfProgress has seen last, Never before it runs
    rows,        \* rows of the tables, by the record they were made for (snapToken)
    traj,        \* rows of the table of trajectories, by snapToken
    g_pushStatus,\* the push connection: "new", "connected" or "failed"
    trouble,     \* failed statements and deaths so far
    done,        \* history: records that were worked off
    early,       \* history: records put into the list before it was initialised
    dead,        \* history: records in the list when the process died
    noRow,       \* history: records whose row could not be inserted
    misread,     \* history: records for which the search for the last row failed
    tied,        \* history: the search found rows of several cars
    noTraj,      \* history: rows with a trajectory or an end that was not stored
    totalDay,    \* history: the day that the totals are of
    offDay       \* history: something was counted, or dated, across midnight, or
                 \* could not be counted

Kinds == station.kinds
Times == station.times

dataVars == <<rows, traj>>
threadVars == <<todo, info, count>>
histVars == <<done, early, dead, noRow, misread, tied, noTraj, totalDay, offDay>>
vars == <<station, now, seen, phase, listHead, threadVars, total, day, dataVars, g_pushStatus,
          trouble, histVars>>

Steps == {"load", "count", "push", "tell", "add", "set", "trajadd", "trajset",
          "end"}
Counted == {"Frontage", "Entrance"}
Never == -1         \* a date of zeros
NoRow == [by |-> NULL, start |-> Never, end |-> Never]
NoTraj == [id |-> NULL, start |-> Never, end |-> Never]

TypeOK ==
    /\ station \in Stations
    /\ now \in Times
    /\ Len(seen) + trouble \leq MaxEvents
    /\ \A r \in DOMAIN seen :
           seen[r] \in [type : Kinds, plateNo : Plates \cup {NoPlate}, time : Times]
    /\ phase \in {"down", "cameras", "run"}
    /\ ToSet(listHead) \subseteq DOMAIN seen
    /\ ToSet(todo) \subseteq Steps
    /\ todo # << >> => phase = "run" /\ listHead # << >>
    /\ info \in Records \cup {NULL}
    /\ rows \in [Records -> [by : Records \cup {NULL}, start : Times \cup {Never},
                             end : Times \cup {Never}]]
    /\ traj \in [Records -> [id : Records \cup {NULL}, start : Times \cup {Never},
                             end : Times \cup {Never}]]
    /\ g_pushStatus \in {"new", "connected", "failed"}
    /\ trouble \in Nat
    /\ total \in [Counted -> 0 .. MaxEvents]
    /\ day \in {Never, 0, 1} /\ count \in 0 .. MaxEvents
    /\ done \cup early \cup dead \subseteq DOMAIN seen

Init ==
    /\ station \in Stations
    /\ now = Min(station.times)
    /\ seen = << >>
    /\ phase = "cameras"
    /\ listHead = << >>
    /\ todo = << >>
    /\ info = NULL
    /\ count = 0
    /\ total = [k \in Counted |-> 0]
    /\ day = Never
    /\ rows = [r \in Records |-> NoRow]
    /\ traj = [r \in Records |-> NoTraj]
    /\ g_pushStatus = "new"
    /\ trouble = 0
    /\ done = {} /\ early = {} /\ dead = {} /\ noRow = {} /\ noTraj = {}
    /\ misread = {} /\ tied = FALSE /\ offDay = FALSE /\ totalDay = 0
-----------------------------------------------------------------------------
Rows(kind) == {r \in DOMAIN seen : seen[r].type = kind /\ rows[r] # NoRow}
RowsOf(kind, plate) == {r \in Rows(kind) : seen[r].plateNo = plate}

\* MySqlCtrlGetLatest...Info: the last of the rows, of whatever plate, that have
\* the latest date that the plate has.
Latest(kind, plate) ==
    IF plate = NoPlate \/ RowsOf(kind, plate) = {}
    THEN {NULL}
    ELSE LET date == Max({rows[r].start : r \in RowsOf(kind, plate)})
         IN  {r \in Rows(kind) : rows[r].start = date}

\* What is done for a new visit.  (The two messages about a car at the entrance
\* are one step here.)
New(kind) == CASE kind = "Frontage" -> <<"load", "count", "push", "add", "end">>
               [] kind = "Entrance" -> <<"load", "count", "add", "push", "trajadd", "end">>
               [] kind = "Wash" -> <<"add", "trajadd", "end">>
               [] kind = "Island" -> <<"add", "end">>
               [] kind = "Alarm" -> <<"add", "tell", "end">>

\* What is done for a car that is still there.
Again(kind) == IF kind \in {"Entrance", "Wash"} THEN <<"set", "trajset", "end">> ELSE <<"set", "end">>

\* A bug: the gaps are taken for hours.
Mut_GapInHours(r, last) ==
    LET kind == seen[r].type
    IN  IF last = NULL \/ seen[r].time - rows[last].start > 60 * Gap(kind)
        THEN New(kind) ELSE Again(kind)

\* A bug: a car that is seen again is a new visit after five minutes.
Mut_Decide(r, last) ==
    LET kind == seen[r].type
    IN  IF last = NULL \/ seen[r].time - rows[last].start > 5
        THEN New(kind) ELSE Again(kind)

(***************************************************************************)
(* MemoryDataToDatabasePro, by kinds: what is to be done with record r     *)
(* when the last row is last.  The second sighting of a car at the         *)
(* entrance counts within five minutes only; later ones count when they    *)
(* are more than five minutes after the end that is stored.                *)
(***************************************************************************)
Decide(r, last) ==
    LET kind == seen[r].type
        time == seen[r].time
    IN  IF last = NULL \/ time - rows[last].start > Gap(kind)
        THEN New(kind)
        ELSE IF \/ kind # "Entrance"
                \/ rows[last].start = rows[last].end /\ time - rows[last].start < 5
                \/ rows[last].start # rows[last].end /\ time - rows[last].end > 5
             THEN Again(kind)
             ELSE <<"end">>

Record == Head(listHead)
Kind == seen[Record].type
Plate == seen[Record].plateNo
Time == seen[Record].time
Step(s) == phase = "run" /\ todo # << >> /\ Head(todo) = s

\* MysqlExecute, MysqlSelect: the statement fails.
Fails == Len(seen) + trouble < MaxEvents /\ trouble' = trouble + 1

world == <<station, now, seen, phase>>   \* what the record thread never changes

\* HandleManageGetNextHandle: the thread turns to the first record.  Alarms need
\* no search, and cars without a plate get none at the entrance and the wash.
GetNextHandle ==
    /\ phase = "run"
    /\ todo = << >> /\ listHead # << >>
    /\ \/ Kind = "Alarm" /\ todo' = New(Kind)
       \/ Kind \in {"Entrance", "Wash"} /\ Plate = NoPlate /\ todo' = <<"end">>
    /\ UNCHANGED <<world, listHead, info, count, total, day, dataVars, g_pushStatus,
                   trouble, histVars>>

\* The search for the last row, and what follows from it.  (Nobody else writes
\* the tables.)  When the search fails it returns KEY_TRUE with a date of zeros,
\* and the sighting is a new visit.
Look ==
    /\ phase = "run"
    /\ todo = << >> /\ listHead # << >>
    /\ Kind \in {"Frontage", "Island"} \/ (Kind \in {"Entrance", "Wash"} /\ Plate # NoPlate)
    /\ \/ \E last \in Latest(Kind, Plate) :
              /\ info' = last
              /\ todo' = Decide(Record, last)
              /\ tied' = (tied \/ Cardinality(Latest(Kind, Plate)) > 1)
              /\ UNCHANGED <<trouble, misread>>
       \/ /\ Plate # NoPlate
          /\ Fails
          /\ info' = NULL
          /\ todo' = New(Kind)
          /\ misread' = misread \cup {Record}
          /\ UNCHANGED tied
    /\ UNCHANGED <<world, listHead, count, total, day, dataVars, g_pushStatus,
                   done, early, dead, noRow, noTraj, totalDay, offDay>>

\* fd->EntranceTotal++: a reading of the total ...
LoadTotal ==
    /\ Step("load")
    /\ count' = total[Kind]
    /\ todo' = Tail(todo)
    /\ offDay' = (offDay \/ Day(Time) # totalDay)
    /\ UNCHANGED <<world, listHead, info, total, day, dataVars, g_pushStatus, trouble,
                   done, early, dead, noRow, misread, tied, noTraj, totalDay>>

\* ... and a writing.
StoreTotal ==
    /\ Step("count")
    /\ total' = [total EXCEPT ![Kind] = count + 1]
    /\ count' = 0
    /\ todo' = Tail(todo)
    /\ UNCHANGED <<world, listHead, info, day, dataVars, g_pushStatus, trouble,
                   histVars>>

\* A bug: the loop waits for a connection that has not been tried.
Mut_PushMqttMsg ==
    /\ \/ Step("push") /\ g_pushStatus = "new"
       \/ Step("tell") /\ g_pushStatus = "new"
    /\ todo' = Tail(todo)
    /\ UNCHANGED <<world, listHead, info, count, total, day, dataVars, g_pushStatus,
                   trouble, histVars>>

\* pushMqttMsg waits in a loop until the push connection is there.  Of an alarm
\* it is not told as long as MqttStart has not registered MqttHighTempFunc.
PushMqttMsg ==
    /\ \/ Step("push") /\ g_pushStatus = "connected"
       \/ Step("tell") /\ g_pushStatus \in {"new", "connected"}
    /\ todo' = Tail(todo)
    /\ UNCHANGED <<world, listHead, info, count, total, day, dataVars, g_pushStatus,
                   trouble, histVars>>

\* pAdd...Info: an insert.  What it returns is not looked at.
AddInfo ==
    /\ Step("add")
    /\ \/ /\ rows' = [rows EXCEPT ![Record] = [by |-> Record, start |-> Time, end |-> Time]]
          /\ UNCHANGED <<trouble, noRow>>
       \/ Fails /\ noRow' = noRow \cup {Record} /\ UNCHANGED rows
    /\ todo' = Tail(todo)
    /\ UNCHANGED <<world, listHead, info, count, total, day, traj, g_pushStatus,
                   done, early, dead, misread, tied, noTraj, totalDay, offDay>>

\* pSet...Info: an update of the row that was found: of its only date in two of
\* the tables, of its end in the others.
SetInfo ==
    /\ Step("set")
    /\ \/ /\ rows' = [rows EXCEPT ![info] =
                        [by |-> Record, end |-> Time,
                         start |-> IF Kind \in {"Frontage", "Island"} THEN Time ELSE @.start]]
          /\ offDay' = (offDay \/ (Kind = "Frontage" /\ Day(rows[info].start) # Day(Time)))
          /\ UNCHANGED <<trouble, noTraj>>
       \/ /\ Fails
          /\ noTraj' = noTraj \cup {info}
          /\ UNCHANGED <<rows, offDay>>
    /\ todo' = Tail(todo)
    /\ UNCHANGED <<world, listHead, info, count, total, day, traj, g_pushStatus,
                   done, early, dead, noRow, misread, tied, totalDay>>

\* pAddTrajectoryInfo; that of a wash has no end yet.
AddTrajectoryInfo ==
    /\ Step("trajadd")
    /\ \/ /\ traj' = [traj EXCEPT ![Record] =
                        [id |-> Record, start |-> Time,
                         end |-> IF Kind = "Wash" THEN Never ELSE Time]]
          /\ UNCHANGED <<trouble, noTraj>>
       \/ Fails /\ noTraj' = noTraj \cup {Record} /\ UNCHANGED traj
    /\ todo' = Tail(todo)
    /\ UNCHANGED <<world, listHead, info, count, total, day, rows, g_pushStatus,
                   done, early, dead, noRow, misread, tied, totalDay, offDay>>

\* A bug: the trajectory is written without having been read.
Mut_UpdateTrajectoryInfo ==
    /\ Step("trajset")
    /\ traj' = [traj EXCEPT ![info] = [id |-> @.id, start |-> Never, end |-> Time]]
    /\ todo' = Tail(todo)
    /\ UNCHANGED <<world, listHead, info, count, total, day, rows, g_pushStatus, trouble,
                   histVars>>

\* pGetTrajectoryInfo and pUpdateTrajectoryInfo.  When the first of them fails, the
\* second one stores zeros for the dates that should have been read.
UpdateTrajectoryInfo ==
    /\ Step("trajset")
    /\ \/ /\ traj' = [traj EXCEPT ![info] = IF @.id = NULL THEN @ ELSE [@ EXCEPT !.end = Time]]
          /\ UNCHANGED <<trouble, noTraj>>
       \/ /\ Fails
          /\ noTraj' = noTraj \cup {info}
          /\ \/ UNCHANGED traj
             \/ traj' = [traj EXCEPT ![info] =
                           IF @.id = NULL THEN @ ELSE [@ EXCEPT !.start = Never, !.end = Time]]
    /\ todo' = Tail(todo)
    /\ UNCHANGED <<world, listHead, info, count, total, day, rows, g_pushStatus,
                   done, early, dead, noRow, misread, tied, totalDay, offDay>>

\* HandleManageDelHandle and free.
DelHandle ==
    /\ Step("end")
    /\ done' = done \cup {Record}
    /\ listHead' = Tail(listHead)
    /\ todo' = << >>
    /\ info' = NULL
    /\ UNCHANGED <<world, count, total, day, dataVars, g_pushStatus, trouble,
                   early, dead, noRow, misread, tied, noTraj, totalDay, offDay>>

RecordThread ==
    \/ GetNextHandle \/ Look \/ LoadTotal \/ StoreTotal \/ PushMqttMsg \/ AddInfo
    \/ SetInfo \/ AddTrajectoryInfo \/ UpdateTrajectoryInfo \/ DelHandle
-----------------------------------------------------------------------------
\* The cars are numbered in the order in which they are seen first.
InOrder(plate) == plate = NoPlate \/ \A p \in 1 .. plate - 1 :
                                        \E r \in DOMAIN seen : seen[r].plateNo = p

\* A bug: a new record is put in front (HandleManageAddHandle1).
Mut_AddVehicleInfo(kind, plate) ==
    /\ phase # "down"
    /\ Len(seen) + trouble < MaxEvents
    /\ InOrder(plate)
    /\ seen' = Append(seen, [type |-> kind, plateNo |-> plate, time |-> now])
    /\ listHead' = IF todo = << >> THEN <<Len(seen')>> \o listHead
                   ELSE <<Head(listHead), Len(seen')>> \o Tail(listHead)
    /\ early' = IF phase = "cameras" THEN early \cup {Len(seen')} ELSE early
    /\ UNCHANGED <<station, now, phase, threadVars, total, day, dataVars, g_pushStatus, trouble,
                   done, dead, noRow, misread, tied, noTraj, totalDay, offDay>>

\* AddVehicleInfo, from a callback of the SDK.
AddVehicleInfo(kind, plate) ==
    /\ phase # "down"
    /\ Len(seen) + trouble < MaxEvents
    /\ InOrder(plate)
    /\ seen' = Append(seen, [type |-> kind, plateNo |-> plate, time |-> now])
    /\ listHead' = Append(listHead, Len(seen'))
    /\ early' = IF phase = "cameras" THEN early \cup {Len(seen')} ELSE early
    /\ UNCHANGED <<station, now, phase, threadVars, total, day, dataVars, g_pushStatus, trouble,
                   done, dead, noRow, misread, tied, noTraj, totalDay, offDay>>

RowsOfDay(kind, d) == {r \in Rows(kind) : Day(rows[r].start) = d}

\* VehicleDataAnalysisManageInit: the list is made empty, whatever the cameras,
\* which were started before, have put into it, and the totals are counted; a
\* counting that fails gives 0.
VehicleDataAnalysisManageInit ==
    /\ phase = "cameras"
    /\ phase' = "run"
    /\ listHead' = << >>
    /\ LET today == [k \in Counted |-> Cardinality(RowsOfDay(k, Day(now)))]
       IN  \/ total' = today /\ UNCHANGED <<trouble, offDay>>
           \/ /\ Fails
              /\ \E k \in Counted : total' = [today EXCEPT ![k] = 0]
              /\ offDay' = TRUE
    /\ totalDay' = Day(now)
    /\ UNCHANGED <<station, now, seen, threadVars, day, dataVars, g_pushStatus,
                   done, early, dead, noRow, misread, tied, noTraj>>

\* ThreadRateOfProgress: its first look at the clock.
ThreadStart ==
    /\ phase = "run" /\ day = Never
    /\ day' = Day(now)
    /\ offDay' = (offDay \/ Day(now) # totalDay)
    /\ UNCHANGED <<world, listHead, threadVars, total, dataVars, g_pushStatus, trouble,
                   done, early, dead, noRow, misread, tied, noTraj, totalDay>>

\* A bug: the other total is left as it is.
Mut_ThreadRateOfProgress ==
    /\ phase = "run" /\ day \notin {Never, Day(now)}
    /\ day' = Day(now)
    /\ total' = [total EXCEPT !["Entrance"] = 0]
    /\ totalDay' = Day(now)
    /\ offDay' = (offDay \/ Step("count"))
    /\ UNCHANGED <<world, listHead, threadVars, dataVars, g_pushStatus, trouble,
                   done, early, dead, noRow, misread, tied, noTraj>>

\* Its later ones.  A total that the other thread has read already is written
\* back.
ThreadRateOfProgress ==
    /\ phase = "run" /\ day \notin {Never, Day(now)}
    /\ day' = Day(now)
    /\ total' = [k \in Counted |-> 0]
    /\ totalDay' = Day(now)
    /\ offDay' = (offDay \/ Step("count"))
    /\ UNCHANGED <<world, listHead, threadVars, dataVars, g_pushStatus, trouble,
                   done, early, dead, noRow, misread, tied, noTraj>>

\* PushMqttApiTask: one attempt, whose outcome stays.
PushMqttApiTask ==
    /\ phase = "run" /\ g_pushStatus = "new"
    /\ g_pushStatus' \in {"connected", "failed"}
    /\ UNCHANGED <<world, listHead, threadVars, total, day, dataVars, trouble, histVars>>

Tick ==
    /\ \E time \in Times : time > now /\ now' = time
    /\ UNCHANGED <<station, seen, phase, listHead, threadVars, total, day, dataVars, g_pushStatus,
                   trouble, histVars>>

\* The process dies; what is in the tables stays.
Crash ==
    /\ phase # "down"
    /\ Fails
    /\ phase' = "down"
    /\ listHead' = << >>
    /\ dead' = dead \cup (ToSet(listHead) \ early)
    /\ noTraj' = IF phase = "run" /\ todo # << >>
                 THEN noTraj \cup {Record, info} ELSE noTraj
    /\ todo' = << >> /\ info' = NULL /\ count' = 0
    /\ total' = [k \in Counted |-> 0] /\ day' = Never
    /\ g_pushStatus' = "new"
    /\ UNCHANGED <<station, now, seen, dataVars, done, early, noRow, misread, tied, totalDay, offDay>>

\* The process is started again: first of all its cameras.
Restart ==
    /\ phase = "down"
    /\ phase' = "cameras"
    /\ UNCHANGED <<station, now, seen, listHead, threadVars, total, day, dataVars, g_pushStatus,
                   trouble, histVars>>

Next ==
    \/ RecordThread
    \/ \E kind \in Kinds, plate \in Plates \cup {NoPlate} : AddVehicleInfo(kind, plate)
    \/ VehicleDataAnalysisManageInit
    \/ ThreadStart
    \/ ThreadRateOfProgress
    \/ PushMqttApiTask
    \/ Tick
    \/ Crash
    \/ Restart

\* The process is kept running and its threads are scheduled; nothing makes the
\* cameras see anything, statements fail or the connection succeed.
Spec ==
    /\ Init /\ [][Next]_vars
    /\ WF_vars(RecordThread) /\ WF_vars(VehicleDataAnalysisManageInit)
    /\ WF_vars(ThreadStart) /\ WF_vars(ThreadRateOfProgress)
    /\ WF_vars(PushMqttApiTask) /\ WF_vars(Restart)
-----------------------------------------------------------------------------
(***************************************************************************)
(* Every record is in the list, worked off, or lost for one of the two     *)
(* reasons there are: it came before the list was initialised, or the      *)
(* process died.  None is handled twice, and they are handled in the order *)
(* in which they came.  (HandleManageAddHandle by the callbacks,           *)
(* HandleManageGetNextHandle and HandleManageDelHandle by the thread.)     *)
(***************************************************************************)
AllAccounted ==
    /\ TypeOK
    /\ DOMAIN seen = ToSet(listHead) \cup done \cup early \cup dead
    /\ ToSet(listHead) \cap (done \cup dead) = {}
    /\ done \cap (early \cup dead) = {}
    /\ \A i, j \in DOMAIN listHead : i < j => listHead[i] < listHead[j]
    /\ phase = "run" => \A q \in done, i \in DOMAIN listHead : q < listHead[i]

(***************************************************************************)
(* Two visits of a car that are stored apart are more than the gap of      *)
(* their kind apart, however often a statement failed, unless that was the *)
(* search for the last visit, for the second of them.  The end of a visit  *)
(* is that of a sighting of the same car, unless a search has found rows   *)
(* of several cars, which have the same date to the second.                *)
(***************************************************************************)
VisitsApart ==
    /\ \A kind \in Kinds \ {"Alarm"}, plate \in Plates :
        \A q, r \in RowsOf(kind, plate) :
            q < r => \/ r \in misread
                     \/ rows[r].start - rows[q].start > Gap(kind)
    /\ tied \/ \A r \in Records :
                  rows[r] # NoRow => seen[rows[r].by].plateNo = seen[r].plateNo

(***************************************************************************)
(* What a camera saw and the thread has worked off is in the tables: the   *)
(* visit with that sighting was begun by it or by an earlier one, and its  *)
(* date is at most the gap before it.  Alarms have a row each.  Cars       *)
(* without a plate are not stored at the entrance and at the wash.         *)
(***************************************************************************)
SeenIsStored ==
    \A r \in done :
        LET kind == seen[r].type
            plate == seen[r].plateNo
        IN  \/ r \in noRow
            \/ plate = NoPlate /\ kind \in {"Entrance", "Wash"}
            \/ kind = "Alarm" /\ rows[r] # NoRow
            \/ /\ kind # "Alarm"
               /\ \E q \in RowsOf(kind, plate) :
                      q \leq r /\ seen[r].time - rows[q].start \leq Gap(kind)

(***************************************************************************)
(* Between two records the totals that the web page shows are the numbers  *)
(* of rows of the day, over midnight, deaths and restarts of the process,  *)
(* except that a record was counted, or the date of a row moved, across    *)
(* midnight, an insert failed after it had been counted, or the counting   *)
(* at the start failed.                                                    *)
(***************************************************************************)
TotalIsToday ==
    phase = "run" /\ todo = << >> /\ noRow = {} /\ ~offDay =>
        \A kind \in Counted \cap Kinds :
            total[kind] = Cardinality(RowsOfDay(kind, totalDay))

(***************************************************************************)
(* The trajectory of a visit to the entrance or the wash tells the same as *)
(* the row of the visit, once the record is done, except where a statement *)
(* failed or the process died in between.                                  *)
(***************************************************************************)
TrajectoryTellsVisit ==
    \A r \in Rows("Entrance") \cup Rows("Wash") :
        \/ r \in noTraj
        \/ todo # << >> /\ r \in {Record, info}
        \/ /\ traj[r].start = rows[r].start
           /\ \/ traj[r].end = rows[r].end
              \/ seen[r].type = "Wash" /\ rows[r].by = r /\ traj[r].end = Never

(***************************************************************************)
(* Once the push connection is there, the records in the list are worked   *)
(* off, unless the process dies.  (When the only attempt at the connection *)
(* fails, pushMqttMsg never returns and the thread handles no record any   *)
(* more.)                                                                  *)
(***************************************************************************)
RecordsHandled ==
    g_pushStatus = "connected" ~> phase # "run" \/ listHead = << >>
=============================================================================
