-------------------------- MODULE MCAuditSchedule --------------------------
EXTENDS AuditSchedule

CONSTANT Occurrences     \* the instants the cron expression names

\* The horizon's end stands for every occurrence beyond it.
MCNextOccurrence ==
  [t \in Times |->
     LET later == {u \in Occurrences : u > t} IN
     IF later = {} THEN MaxTime + 1 ELSE CHOOSE u \in later : \A v \in later : u <= v]

=============================================================================
