---------------------------- MODULE DiscoveryJobs ----------------------------
(***************************************************************************)
(* The discovery plugin's passes over the active schedules, composed with  *)
(* the scheduler endpoints: schedular_frequency_value and bgscheduler of   *)
(* utils.py, run again and again by the blocking scheduler.                *)
(*                                                                         *)
(* A pass fetches the active schedules with one HTTP call and then starts  *)
(* jobs for them, one schedule after the other, while the endpoints go on  *)
(* changing the table.  APScheduler runs one pass at a time.  What the     *)
(* plugin knows is in the memory of its process.                           *)
(***************************************************************************)
EXTENDS Schedules, Sequences

CONSTANTS
  Unit,         \* the unit the plugin reads in a frequency
  Seconds,      \* the interval of a frequency, in seconds
  MaxRestarts,  \* bound on the restarts of the plugin
  MayExpire     \* whether the access token expires

ASSUME JobsAssumption ==
  /\ Unit \in [Frequency -> {"seconds", "minutes", "hours", "unreadable"}]
  /\ Seconds \in [Frequency -> Nat]
  /\ MaxRestarts \in Nat
  /\ MayExpire \in BOOLEAN

VARIABLES
  reference,  \* BUS_FREQ_REFERENCE: the buses that have a job, by interval
  jobs,       \* BUS_FREQ_MAIN: the jobs started, in order; none ever ends
  todo,       \* the schedules of the pass under way still to be looked at
  token,      \* whether the token fetched at the start is still good
  restarts    \* times the plugin has been restarted

pluginVars == <<reference, jobs, todo, token, restarts>>

vars == <<apiVars, pluginVars>>

Interval == {Seconds[f] : f \in Frequency}

Job == [every : Interval, buses : SUBSET Bus]

Nothing == [i \in Interval |-> {}]

JobsInit ==
  /\ Init
  /\ reference = Nothing
  /\ jobs = <<>>
  /\ todo = {}
  /\ token = "valid"
  /\ restarts = 0

-----------------------------------------------------------------------------
Readable(R) == \A r \in R : Unit[r.freq] # "unreadable"

InSeconds(R) == {r \in R : Unit[r.freq] = "seconds"}

\* The schedules are fetched and their frequencies read.  One that is not readable
\* ends the pass at once, and so does the answer to a token that has expired.
\* Only frequencies in seconds make it to the list.
Fetch ==
  /\ todo = {}
  /\ token = "valid"
  /\ Readable(Active)
  /\ InSeconds(Active) # {}
  /\ todo' = InSeconds(Active)
  /\ UNCHANGED <<apiVars, reference, jobs, token, restarts>>

\* Mutant: the buses that have a job already are not taken out.
MutantMissing(r) == r.buses

\* Mutant: an interval that has a job is not looked at again.
MutantRunning(r) == IF reference[Seconds[r.freq]] = {} THEN r.buses ELSE {}

\* The buses of the schedule that have no job at its interval.
Missing(r) == r.buses \ reference[Seconds[r.freq]]

\* One turn of bgscheduler's loop: a job for the buses that have none, if any.
StartJob ==
  \E r \in todo :
    LET i == Seconds[r.freq] IN
    /\ \A q \in todo : r.id <= q.id
    /\ todo' = todo \ {r}
    /\ \/ /\ Missing(r) = {}
          /\ UNCHANGED <<reference, jobs>>
       \/ /\ Missing(r) # {}
          /\ jobs' = Append(jobs, [every |-> i, buses |-> Missing(r)])
          /\ reference' = [reference EXCEPT ![i] = @ \cup Missing(r)]
    /\ UNCHANGED <<apiVars, token, restarts>>

\* do_auth is called once, when the plugin starts.
Expire ==
  /\ MayExpire
  /\ token = "valid"
  /\ token' = "expired"
  /\ UNCHANGED <<apiVars, reference, jobs, todo, restarts>>

\* The plugin's process dies and is started again: no job is left.
Restart ==
  /\ restarts < MaxRestarts
  /\ restarts' = restarts + 1
  /\ reference' = Nothing
  /\ jobs' = <<>>
  /\ todo' = {}
  /\ token' = "valid"
  /\ UNCHANGED apiVars

Endpoints == Next /\ UNCHANGED pluginVars

JobsNext == Endpoints \/ Fetch \/ StartJob \/ Expire \/ Restart

JobsSpec == JobsInit /\ [][JobsNext]_vars

\* The blocking scheduler goes on starting passes, and a pass under way goes on.
FairJobsSpec == JobsSpec /\ WF_vars(Fetch) /\ WF_vars(StartJob)
-----------------------------------------------------------------------------
(* Properties.                                                             *)

\* Every variable has its type, those of the endpoints too.
JobsTypeOK ==
  /\ TypeOK
  /\ reference \in [Interval -> SUBSET Bus]
  /\ jobs \in Seq(Job)
  /\ todo \in SUBSET Schedule
  /\ token \in {"valid", "expired"}
  /\ restarts \in Nat

\* bgscheduler: a bus is in one job of an interval, however often its schedules
\* are seen, split, merged or repeated, and the reference names the buses that
\* have a job.
OneJobPerBus ==
  /\ \A m, n \in 1..Len(jobs) :
       m # n /\ jobs[m].every = jobs[n].every => jobs[m].buses \cap jobs[n].buses = {}
  /\ \A i \in Interval, b \in Bus :
       b \in reference[i] <=> \E n \in 1..Len(jobs) :
                                jobs[n].every = i /\ b \in jobs[n].buses

HasJob(i, b) == \E n \in 1..Len(jobs) : jobs[n].every = i /\ b \in jobs[n].buses

\* Some active schedule with one of the units asks for bus b at interval i.
Wanted(i, b, units) ==
  \E r \in Active : Seconds[r.freq] = i /\ b \in r.buses /\ Unit[r.freq] \in units

\* schedular_frequency_value: while the token is good and every active frequency
\* can be read, a bus that stays in an active schedule in seconds gets a job, and
\* keeps it.
Discovered ==
  \A i \in Interval, b \in Bus :
    <>[](Wanted(i, b, {"seconds"}) /\ Readable(Active) /\ token = "valid")
      => <>[]HasJob(i, b)

\* "Discovery schdeuler frequency. Example value: 14:15:20:05:00:00", "frequency value
\* not contained in minutes or hours or seconds format": every bus that stays in an
\* active schedule of one of these units gets a job, whatever the other frequencies are.
EveryScheduleDiscovered ==
  \A i \in Interval, b \in Bus :
    <>[](Wanted(i, b, {"seconds", "minutes", "hours"}) /\ token = "valid")
      => <>[]HasJob(i, b)
=============================================================================
