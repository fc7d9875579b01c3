------------------------- MODULE SingleActionSchedule -------------------------
(***************************************************************************)
(* CosemSingleActionScheduleObject (IC 22): the type says which execution  *)
(* times are legal.  Both are attributes of their own, so a client changes *)
(* them one SET after the other, in an order that is legal at every step.  *)
(***************************************************************************)
EXTENDS Naturals, Sequences

CONSTANTS Times,         \* times of day whose hundredths are zero or unspecified
          OddTimes,      \* times with other hundredths
          MaxExecutions  \* bound: entries of an array that is sent

ASSUME ExecutionAssumption == MaxExecutions \in Nat /\ Times # {}

VARIABLES type, executionTime

executionVars == <<type, executionTime>>

Types == 1..5

\* An entry: a time, and whether the date has a wildcard in it.
ExecutionTimeEntry == [time : Times \cup OddTimes, wildcard : BOOLEAN]
ExecutionTimes == UNION {[1..n -> ExecutionTimeEntry] : n \in 0..MaxExecutions}

RequiresSingleEntry(t)    == t = 1
RequiresUniformTime(t)    == t \in {2, 3}
ForbidsWildcardsInDate(t) == t \in {2, 4}

IsValidExecutionTime(t, value) ==
  /\ value # <<>>
  /\ RequiresSingleEntry(t) => Len(value) = 1
  /\ \A i \in DOMAIN value : value[i].time \notin OddTimes
  /\ RequiresUniformTime(t) => \A i \in DOMAIN value : value[i].time = value[1].time
  /\ ForbidsWildcardsInDate(t) => \A i \in DOMAIN value : ~value[i].wildcard

\* MakeFallbackExecutionTime: one entry of wildcards.
FallbackTime == <<[time |-> CHOOSE t \in Times : TRUE, wildcard |-> TRUE]>>

ExecutionInit ==
  \E t \in Types, value \in ExecutionTimes :
    /\ type = IF IsValidExecutionTime(t, value) THEN t ELSE 1
    /\ executionTime = IF IsValidExecutionTime(t, value) THEN value ELSE FallbackTime

\* Mutant: the stored times are not looked at.
SetType_Unchecked(t) ==
  /\ type' = t
  /\ UNCHANGED executionTime

\* WriteAttribute(3) and SetType
SetType(t) ==
  /\ IsValidExecutionTime(t, executionTime)
  /\ type' = t
  /\ UNCHANGED executionTime

\* WriteAttribute(4) and SetExecutionTime
SetExecutionTime(value) ==
  /\ IsValidExecutionTime(type, value)
  /\ executionTime' = value
  /\ UNCHANGED type

ExecutionNext ==
  \/ \E t \in Types : SetType(t)
  \/ \E value \in ExecutionTimes : SetExecutionTime(value)

ExecutionSpec == ExecutionInit /\ [][ExecutionNext]_executionVars

-----------------------------------------------------------------------------
\* Type and times fit each other whichever of them was set last.
ExecutionTimeFitsType == type \in Types /\ IsValidExecutionTime(type, executionTime)

=============================================================================
