------------------------------ MODULE Schedules ------------------------------
(***************************************************************************)
(* The scheduler endpoints of scheduler_service.py: the table              *)
(* fed_kafka_scheduler, written by several worker processes.               *)
(*                                                                         *)
(* create_scheduler reads the active schedules and inserts a row in a      *)
(* second step; other workers' requests may come in between.  The other    *)
(* handlers read one row and write it or delete it: what a concurrent      *)
(* request does in between has the same effect before or after, or makes   *)
(* the handler fail, so each of them is one step.  A worker serves one     *)
(* request at a time.  delete_all_inactive_schedulers is not reachable:    *)
(* the route of delete_scheduler_by_id comes first.                        *)
(***************************************************************************)
EXTENDS Naturals

CONSTANTS
  Worker,     \* server processes
  Bus,        \* ids of Kafka buses
  Frequency,  \* the values of column frequency
  MaxRows     \* bound on the rows ever inserted

ASSUME ScheduleAssumption == MaxRows \in Nat

VARIABLES
  rows,       \* the table
  nextRow,    \* its AUTO_INCREMENT counter
  call,       \* call[w]: the create request worker w is in the middle of
  activated   \* history: ids of the rows activate_scheduler has activated

apiVars == <<rows, nextRow, call, activated>>

Status == {"Active", "Inactive"}

Schedule == [id : Nat, buses : SUBSET Bus, status : Status, freq : Frequency]

Active == {r \in rows : r.status = "Active"}

BusesOf(R) == UNION {r.buses : r \in R}

\* A create request: what it asks for and the buses it found taken.
Create == [wanted : SUBSET Bus, status : Status, freq : Frequency,
           taken : SUBSET Bus]

NoCall == [wanted |-> {}]

Ready(w) == call[w] = NoCall

Init ==
  /\ rows = {}
  /\ nextRow = 1
  /\ call = [w \in Worker |-> NoCall]
  /\ activated = {}

-----------------------------------------------------------------------------
\* Mutant: the inactive schedules are looked at as well, the active ones are not.
MutantTaken == BusesOf(rows \ Active)

\* all_fed_kafkabus_ids: the buses of the active schedules.
Taken == BusesOf(Active)

\* The active schedules are read, whatever status the payload asks for.
CreateRead(w) ==
  /\ Ready(w)
  /\ \E B \in SUBSET Bus \ {{}}, s \in Status, f \in Frequency :
       call' = [call EXCEPT ![w] = [wanted |-> B, status |-> s, freq |-> f,
                                    taken |-> Taken]]
  /\ UNCHANGED <<rows, nextRow, activated>>

\* The buses that were free get one row; with none the answer says so.
CreateInsert(w) ==
  LET c    == call[w]
      free == c.wanted \ c.taken
  IN
  /\ ~Ready(w)
  /\ \/ /\ free = {}
        /\ UNCHANGED <<rows, nextRow>>
     \/ /\ free # {}
        /\ nextRow <= MaxRows
        /\ rows' = rows \cup {[id |-> nextRow, buses |-> free,
                               status |-> c.status, freq |-> c.freq]}
        /\ nextRow' = nextRow + 1
  /\ call' = [call EXCEPT ![w] = NoCall]
  /\ UNCHANGED activated

\* activate_scheduler and deactivate_scheduler: a row of the other status gets
\* the new one, and no other schedule is looked at.
SetStatus(w, from, to) ==
  /\ Ready(w)
  /\ \E r \in rows :
       /\ r.status = from
       /\ rows' = (rows \ {r}) \cup {[r EXCEPT !.status = to]}
       /\ activated' = IF to = "Active" THEN activated \cup {r.id} ELSE activated
  /\ UNCHANGED <<nextRow, call>>

\* Mutant: the new status is misspelled.
MutantActivate(w) == SetStatus(w, "Inactive", "active")

Activate(w) == SetStatus(w, "Inactive", "Active")

Deactivate(w) == SetStatus(w, "Active", "Inactive")

Delete(w) ==
  /\ Ready(w)
  /\ \E r \in rows : rows' = rows \ {r}
  /\ UNCHANGED <<nextRow, call, activated>>

\* The worker dies, or its database call fails, before the insert is committed.
Abandon(w) ==
  /\ ~Ready(w)
  /\ call' = [call EXCEPT ![w] = NoCall]
  /\ UNCHANGED <<rows, nextRow, activated>>

Next ==
  \E w \in Worker :
    \/ CreateRead(w) \/ CreateInsert(w)
    \/ Activate(w) \/ Deactivate(w) \/ Delete(w)
    \/ Abandon(w)

Spec == Init /\ [][Next]_apiVars
-----------------------------------------------------------------------------
(* Properties.                                                             *)

\* Every variable has its type.
TypeOK ==
  /\ rows \in SUBSET Schedule
  /\ nextRow \in Nat
  /\ call \in [Worker -> Create \cup {NoCall}]
  /\ activated \in SUBSET Nat

Overlap(q, r) == q.id # r.id /\ q.buses \cap r.buses # {}

\* create_scheduler, "Scheduler already existed for bus id's": served one after the
\* other, create requests never put a bus into two active schedules.  When two
\* overlap, activate_scheduler, which looks at no other schedule, has activated one.
OverlapsWereActivated ==
  \A q, r \in Active : Overlap(q, r) => {q.id, r.id} \cap activated # {}
-----------------------------------------------------------------------------
\* The inductive invariant behind OverlapsWereActivated when there is one worker:
\* ids are used once, and what the request read is still so.
SerialInv ==
  /\ TypeOK
  /\ \A r \in rows : r.id < nextRow
  /\ \A q, r \in rows : q.id = r.id => q = r
  /\ \A w \in Worker : ~Ready(w) => Taken \subseteq call[w].taken
  /\ OverlapsWereActivated
=============================================================================
