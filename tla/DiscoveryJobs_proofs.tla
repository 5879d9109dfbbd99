------------------------- MODULE DiscoveryJobs_proofs -------------------------
(* Proofs about the scheduler endpoints and about the jobs that the plugin  *)
(* makes of their schedules.                                                *)
EXTENDS DiscoveryJobs, TLAPS

(* ---- The scheduler endpoints (module Schedules). ----                    *)

(* The endpoints start with an empty table.                                *)
LEMMA SchedulesTypeInit == Init => TypeOK
BY ScheduleAssumption DEF Init, TypeOK, NoCall, Create, Schedule

(* Each request, up to its next commit, keeps the types.                   *)
LEMMA SchedulesTypeStep == TypeOK /\ [Next]_apiVars => TypeOK'
<1> SUFFICES ASSUME TypeOK, [Next]_apiVars PROVE TypeOK'
  OBVIOUS
<1> USE ScheduleAssumption DEF TypeOK
<1>1. ASSUME NEW w \in Worker, CreateRead(w) PROVE TypeOK'
  <2>1. PICK B \in SUBSET Bus \ {{}}, s \in Status, f \in Frequency :
          call' = [call EXCEPT ![w] = [wanted |-> B, status |-> s, freq |-> f,
                                       taken |-> Taken]]
    BY <1>1 DEF CreateRead
  <2>2. Taken \in SUBSET Bus
    BY DEF Taken, BusesOf, Active, Schedule
  <2>3. [wanted |-> B, status |-> s, freq |-> f, taken |-> Taken] \in Create
    BY <2>2 DEF Create
  <2> QED BY <1>1, <2>1, <2>3 DEF CreateRead
<1>2. ASSUME NEW w \in Worker, CreateInsert(w) PROVE TypeOK'
  <2>1. call[w] \in Create
    BY <1>2 DEF CreateInsert, Ready
  <2>2. rows' \in SUBSET Schedule /\ nextRow' \in Nat
    BY <1>2, <2>1 DEF CreateInsert, Create, Schedule
  <2> QED BY <1>2, <2>2 DEF CreateInsert
<1>3. ASSUME NEW w \in Worker, NEW from, NEW to \in Status, SetStatus(w, from, to)
      PROVE TypeOK'
  BY <1>3 DEF SetStatus, Schedule
<1>4. ASSUME NEW w \in Worker, Delete(w) PROVE TypeOK'
  BY <1>4 DEF Delete
<1>5. ASSUME NEW w \in Worker, Abandon(w) PROVE TypeOK'
  BY <1>5 DEF Abandon
<1>6. CASE UNCHANGED apiVars
  BY <1>6 DEF apiVars
<1>7. "Active" \in Status /\ "Inactive" \in Status
  BY DEF Status
<1> QED
  BY <1>1, <1>2, <1>3, <1>4, <1>5, <1>6, <1>7 DEF Next, Activate, Deactivate

(* The table and the requests in progress are type correct, for any number *)
(* of workers.                                                             *)
THEOREM SchedulesTyped == Spec => []TypeOK
<1>1. Init => TypeOK BY SchedulesTypeInit
<1>2. TypeOK /\ [Next]_apiVars => TypeOK' BY SchedulesTypeStep
<1> QED BY <1>1, <1>2, PTL DEF Spec
-----------------------------------------------------------------------------
(* The invariant holds of the empty table.                                 *)
LEMMA SerialInit == Init => SerialInv
<1> SUFFICES ASSUME Init PROVE SerialInv
  OBVIOUS
<1>1. TypeOK
  BY SchedulesTypeInit
<1> QED
  BY <1>1 DEF Init, SerialInv, Ready, OverlapsWereActivated, Active

(* create_scheduler reads: nothing but the request changes.                *)
LEMMA SerialRead ==
  ASSUME \A v, u \in Worker : v = u, SerialInv, NEW w \in Worker, CreateRead(w)
  PROVE  SerialInv'
<1> USE DEF SerialInv
<1>1. TypeOK'
  BY SchedulesTypeStep DEF Next
<1>2. PICK B \in SUBSET Bus \ {{}}, s \in Status, f \in Frequency :
        call' = [call EXCEPT ![w] = [wanted |-> B, status |-> s, freq |-> f,
                                     taken |-> Taken]]
  BY DEF CreateRead
<1>3. call'[w].taken = Taken
  BY <1>2 DEF TypeOK
<1>4. Taken' = Taken
  BY DEF CreateRead, Taken, BusesOf, Active
<1>5. \A v \in Worker : Taken' \subseteq call'[v].taken
  BY <1>3, <1>4
<1>6. OverlapsWereActivated'
  BY DEF CreateRead, OverlapsWereActivated, Overlap, Active
<1> QED BY <1>1, <1>5, <1>6 DEF CreateRead

(* create_scheduler inserts: with one worker the buses it found free are   *)
(* free, so the new row overlaps no active one.                            *)
LEMMA SerialInsert ==
  ASSUME \A v, u \in Worker : v = u, SerialInv, NEW w \in Worker, CreateInsert(w)
  PROVE  SerialInv'
<1> USE DEF SerialInv
<1>1. TypeOK'
  BY SchedulesTypeStep DEF Next
<1>2. \A v \in Worker : Ready(v)'
  BY DEF CreateInsert, Ready, TypeOK
<1>3. CASE rows' = rows /\ nextRow' = nextRow
  <2>1. OverlapsWereActivated'
    BY <1>3 DEF CreateInsert, OverlapsWereActivated, Overlap, Active
  <2> QED BY <1>1, <1>2, <1>3, <2>1
<1>4. ASSUME NEW new \in Schedule, new.id = nextRow,
             new.buses = call[w].wanted \ call[w].taken,
             rows' = rows \cup {new}, nextRow' = nextRow + 1
      PROVE  SerialInv'
  <2>1. \A r \in rows' : r.id < nextRow'
    BY <1>4 DEF TypeOK, Schedule
  <2>2. \A q, r \in rows' : q.id = r.id => q = r
    BY <1>4 DEF TypeOK, Schedule
  <2>3. \A r \in Active : r.buses \cap new.buses = {}
    <3>1. Taken \subseteq call[w].taken
      BY DEF CreateInsert
    <3> QED BY <3>1, <1>4 DEF Taken, BusesOf
  <2>4. Active' \subseteq Active \cup {new}
    BY <1>4 DEF Active
  <2>5. ASSUME NEW q \in Active', NEW r \in Active', Overlap(q, r)
        PROVE  {q.id, r.id} \cap activated' # {}
    <3>1. q \in Active /\ r \in Active
      BY <2>3, <2>4, <2>5 DEF Overlap
    <3> QED BY <3>1, <2>5 DEF OverlapsWereActivated, CreateInsert
  <2> QED BY <1>1, <1>2, <2>1, <2>2, <2>5 DEF OverlapsWereActivated, Overlap
<1>5. CASE call[w].wanted \ call[w].taken # {} /\ ~UNCHANGED <<rows, nextRow>>
  <2> DEFINE new == [id |-> nextRow, buses |-> call[w].wanted \ call[w].taken,
                     status |-> call[w].status, freq |-> call[w].freq]
  <2>1. rows' = rows \cup {new} /\ nextRow' = nextRow + 1
    BY <1>5 DEF CreateInsert
  <2>2. new \in Schedule
    BY <1>1, <2>1 DEF TypeOK
  <2>3. new.id = nextRow /\ new.buses = call[w].wanted \ call[w].taken
    OBVIOUS
  <2> HIDE DEF new
  <2> QED BY <2>1, <2>2, <2>3, <1>4
<1> QED BY <1>3, <1>5 DEF CreateInsert

(* activate_scheduler and deactivate_scheduler: a row that becomes active  *)
(* is recorded in activated, one that becomes inactive only leaves.        *)
LEMMA SerialStatus ==
  ASSUME \A v, u \in Worker : v = u, SerialInv, NEW w \in Worker,
         Activate(w) \/ Deactivate(w)
  PROVE  SerialInv'
<1> USE DEF SerialInv
<1>1. TypeOK'
  BY SchedulesTypeStep DEF Next
<1>2. PICK to \in Status, r \in rows :
        /\ rows' = (rows \ {r}) \cup {[r EXCEPT !.status = to]}
        /\ activated' = IF to = "Active" THEN activated \cup {r.id} ELSE activated
        /\ nextRow' = nextRow /\ call' = call /\ Ready(w)
  BY DEF Activate, Deactivate, SetStatus, Status
<1> DEFINE new == [r EXCEPT !.status = to]
<1>3. new.id = r.id /\ new.buses = r.buses /\ new.status = to
  BY DEF TypeOK, Schedule
<1>4. rows' = (rows \ {r}) \cup {new}
  BY <1>2
<1> HIDE DEF new
<1>5. \A q \in rows' : q.id < nextRow'
  BY <1>2, <1>3, <1>4
<1>6. \A p, q \in rows' : p.id = q.id => p = q
  BY <1>2, <1>3, <1>4
<1>7. \A v \in Worker : Ready(v)'
  BY <1>2 DEF Ready
<1>8. ASSUME NEW p \in Active', NEW q \in Active', Overlap(p, q)
      PROVE  {p.id, q.id} \cap activated' # {}
  <2>1. CASE p = new \/ q = new
    <3>1. to = "Active"
      BY <2>1, <1>3 DEF Active
    <3> QED BY <3>1, <2>1, <1>2, <1>3
  <2>2. CASE p # new /\ q # new
    <3>1. p \in Active /\ q \in Active
      BY <2>2, <1>4 DEF Active
    <3> QED BY <3>1, <1>2, <1>8 DEF OverlapsWereActivated
  <2> QED BY <2>1, <2>2
<1> QED BY <1>1, <1>5, <1>6, <1>7, <1>8 DEF OverlapsWereActivated, Overlap

(* delete_scheduler_by_id, and a request that is given up.                 *)
LEMMA SerialDrop ==
  ASSUME \A v, u \in Worker : v = u, SerialInv, NEW w \in Worker,
         Delete(w) \/ Abandon(w)
  PROVE  SerialInv'
<1> USE DEF SerialInv
<1>1. TypeOK'
  BY SchedulesTypeStep DEF Next
<1>2. rows' \subseteq rows /\ nextRow' = nextRow /\ activated' = activated
  BY DEF Delete, Abandon
<1>3. \A v \in Worker : Ready(v)'
  BY DEF Delete, Abandon, Ready, TypeOK
<1>4. Active' \subseteq Active
  BY <1>2 DEF Active
<1>5. OverlapsWereActivated'
  BY <1>2, <1>4 DEF OverlapsWereActivated, Overlap
<1> QED BY <1>1, <1>2, <1>3, <1>5

(* With one worker, create_scheduler never lets two active schedules share *)
(* a bus: when two do, one of them was activated.                          *)
THEOREM SerialOverlaps ==
  ASSUME \A v, u \in Worker : v = u
  PROVE  Spec => []OverlapsWereActivated
<1>1. Init => SerialInv
  BY SerialInit
<1>2. SerialInv /\ [Next]_apiVars => SerialInv'
  <2> SUFFICES ASSUME SerialInv, [Next]_apiVars PROVE SerialInv'
    OBVIOUS
  <2>1. CASE UNCHANGED apiVars
    BY <2>1 DEF apiVars, SerialInv, TypeOK, Taken, BusesOf, Active, Ready,
                OverlapsWereActivated, Overlap
  <2>2. ASSUME NEW w \in Worker,
               \/ CreateRead(w) \/ CreateInsert(w) \/ Activate(w)
               \/ Deactivate(w) \/ Delete(w) \/ Abandon(w)
        PROVE  SerialInv'
    BY <2>2, SerialRead, SerialInsert, SerialStatus, SerialDrop
  <2> QED BY <2>1, <2>2 DEF Next
<1>3. SerialInv => OverlapsWereActivated
  BY DEF SerialInv
<1> QED BY <1>1, <1>2, <1>3, PTL DEF Spec
-----------------------------------------------------------------------------
(* ---- The jobs of the plugin. ----                                       *)

(* The inductive invariant: OneJobPerBus with the types of both sides.      *)
JobsInv == JobsTypeOK /\ OneJobPerBus

(* The plugin starts with no job and an empty reference.                   *)
LEMMA JobsInvInit == JobsInit => JobsInv
<1> SUFFICES ASSUME JobsInit PROVE JobsInv
  OBVIOUS
<1>1. TypeOK
  BY SchedulesTypeInit DEF JobsInit
<1>2. reference = Nothing /\ jobs = <<>> /\ todo = {} /\ token = "valid" /\ restarts = 0
  BY DEF JobsInit
<1> QED
  BY <1>1, <1>2 DEF JobsInv, JobsTypeOK, OneJobPerBus, Nothing, Job

(* Appending a job of new buses of one interval, and adding them to the    *)
(* reference, keeps OneJobPerBus.                                          *)
LEMMA NewJob ==
  ASSUME JobsTypeOK, OneJobPerBus, NEW i \in Interval, NEW B \in SUBSET Bus,
         B \cap reference[i] = {},
         jobs' = Append(jobs, [every |-> i, buses |-> B]),
         reference' = [reference EXCEPT ![i] = @ \cup B]
  PROVE  /\ reference' \in [Interval -> SUBSET Bus]
         /\ jobs' \in Seq(Job)
         /\ OneJobPerBus'
<1> DEFINE new == [every |-> i, buses |-> B]
<1>1. new \in Job /\ new.every = i /\ new.buses = B
  BY DEF Job
<1>2. jobs' = Append(jobs, new)
  OBVIOUS
<1> HIDE DEF new
<1>3. jobs \in Seq(Job) /\ Len(jobs) \in Nat
  BY DEF JobsTypeOK
<1>4. /\ jobs' \in Seq(Job)
      /\ Len(jobs') = Len(jobs) + 1
      /\ jobs'[Len(jobs) + 1] = new
      /\ \A n \in 1..Len(jobs) : jobs'[n] = jobs[n] /\ jobs[n] \in Job
  BY <1>1, <1>2, <1>3
<1>5. reference' \in [Interval -> SUBSET Bus]
  BY DEF JobsTypeOK
<1>6. \A n \in 1..Len(jobs) : jobs[n].every = i => jobs[n].buses \cap B = {}
  BY <1>4 DEF OneJobPerBus, Job
<1>7. ASSUME NEW m \in 1..Len(jobs'), NEW n \in 1..Len(jobs'), m # n,
             jobs'[m].every = jobs'[n].every
      PROVE  jobs'[m].buses \cap jobs'[n].buses = {}
  <2>1. CASE m \in 1..Len(jobs) /\ n \in 1..Len(jobs)
    BY <2>1, <1>4, <1>7 DEF OneJobPerBus
  <2>2. CASE m = Len(jobs) + 1 /\ n \in 1..Len(jobs)
    BY <2>2, <1>1, <1>4, <1>6, <1>7
  <2>3. CASE n = Len(jobs) + 1 /\ m \in 1..Len(jobs)
    BY <2>3, <1>1, <1>4, <1>6, <1>7
  <2> QED BY <2>1, <2>2, <2>3, <1>3, <1>4, <1>7
<1>8. ASSUME NEW k \in Interval, NEW b \in Bus
      PROVE  b \in reference'[k] <=> \E n \in 1..Len(jobs') :
                                       jobs'[n].every = k /\ b \in jobs'[n].buses
  <2>1. b \in reference'[k] <=> b \in reference[k] \/ (k = i /\ b \in B)
    BY DEF JobsTypeOK
  <2>2. b \in reference[k] <=> \E n \in 1..Len(jobs) :
                                 jobs[n].every = k /\ b \in jobs[n].buses
    BY DEF OneJobPerBus
  <2>3. (\E n \in 1..Len(jobs') : jobs'[n].every = k /\ b \in jobs'[n].buses)
          <=> \/ \E n \in 1..Len(jobs) : jobs[n].every = k /\ b \in jobs[n].buses
              \/ k = i /\ b \in B
    <3>1. 1..Len(jobs') = 1..Len(jobs) \cup {Len(jobs) + 1}
      BY <1>3, <1>4
    <3> QED BY <3>1, <1>1, <1>4
  <2> QED BY <2>1, <2>2, <2>3
<1> QED BY <1>4, <1>5, <1>7, <1>8 DEF OneJobPerBus

(* Requests, passes, the token and restarts keep the invariant.            *)
LEMMA JobsInvStep == JobsInv /\ [JobsNext]_vars => JobsInv'
<1> SUFFICES ASSUME JobsInv, [JobsNext]_vars PROVE JobsInv'
  OBVIOUS
<1> USE DEF JobsInv
<1>0. TypeOK
  BY DEF JobsTypeOK
<1>1. TypeOK'
  BY <1>0, SchedulesTypeStep
     DEF JobsNext, Endpoints, Fetch, StartJob, Expire, Restart, vars, apiVars
<1>2. CASE UNCHANGED pluginVars
  BY <1>1, <1>2 DEF pluginVars, JobsTypeOK, OneJobPerBus
<1>3. CASE Fetch
  <2>1. todo' \in SUBSET Schedule
    BY <1>0, <1>3 DEF Fetch, InSeconds, Active, TypeOK
  <2> QED BY <1>1, <1>3, <2>1 DEF Fetch, JobsTypeOK, OneJobPerBus
<1>4. CASE StartJob
  <2>1. PICK r \in todo :
          /\ todo' = todo \ {r}
          /\ \/ Missing(r) = {} /\ reference' = reference /\ jobs' = jobs
             \/ /\ jobs' = Append(jobs, [every |-> Seconds[r.freq],
                                         buses |-> Missing(r)])
                /\ reference' = [reference EXCEPT ![Seconds[r.freq]] =
                                   @ \cup Missing(r)]
    BY <1>4 DEF StartJob
  <2>2. Seconds[r.freq] \in Interval /\ Missing(r) \in SUBSET Bus
    BY DEF JobsTypeOK, Schedule, Interval, Missing
  <2>3. Missing(r) \cap reference[Seconds[r.freq]] = {}
    BY DEF Missing
  <2>4. /\ reference' \in [Interval -> SUBSET Bus]
        /\ jobs' \in Seq(Job)
        /\ OneJobPerBus'
    <3>1. CASE reference' = reference /\ jobs' = jobs
      BY <3>1 DEF JobsTypeOK, OneJobPerBus
    <3>2. CASE ~(reference' = reference /\ jobs' = jobs)
      BY <3>2, <2>1, <2>2, <2>3, NewJob
    <3> QED BY <3>1, <3>2
  <2>5. todo' \in SUBSET Schedule /\ token' = token /\ restarts' = restarts
    BY <1>4, <2>1 DEF StartJob, JobsTypeOK
  <2> QED BY <1>1, <2>4, <2>5 DEF JobsTypeOK
<1>5. CASE Expire
  BY <1>1, <1>5 DEF Expire, JobsTypeOK, OneJobPerBus
<1>6. CASE Restart
  <2>1. /\ reference' = Nothing /\ jobs' = <<>> /\ todo' = {}
        /\ token' = "valid" /\ restarts' \in Nat
    BY <1>6 DEF Restart, JobsTypeOK
  <2> QED BY <1>1, <2>1 DEF JobsTypeOK, OneJobPerBus, Nothing, Job
<1> QED
  BY <1>2, <1>3, <1>4, <1>5, <1>6 DEF JobsNext, Endpoints, vars, pluginVars

(* The plugin's variables and the endpoints' keep their types.             *)
THEOREM JobsTyped == JobsSpec => []JobsTypeOK
<1>1. JobsInv => JobsTypeOK
  BY DEF JobsInv
<1> QED BY <1>1, JobsInvInit, JobsInvStep, PTL DEF JobsSpec

(* For all buses, frequencies, workers and restarts: a bus is in one job    *)
(* of an interval, and the plugin's reference names the buses with a job.  *)
THEOREM JobsUnique == JobsSpec => []OneJobPerBus
<1>1. JobsInit => JobsInv
  BY JobsInvInit
<1>2. JobsInv /\ [JobsNext]_vars => JobsInv'
  BY JobsInvStep
<1>3. JobsInv => OneJobPerBus
  BY DEF JobsInv
<1> QED BY <1>1, <1>2, <1>3, PTL DEF JobsSpec
=============================================================================
