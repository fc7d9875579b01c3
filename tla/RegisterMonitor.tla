--------------------------- MODULE RegisterMonitor ---------------------------
(***************************************************************************)
(* CosemRegisterMonitorObject (IC 21): every threshold has its pair of     *)
(* actions.  Thresholds and actions are set one attribute at a time, each  *)
(* checked against the other one as it is.                                 *)
(***************************************************************************)
EXTENDS Naturals, Sequences

CONSTANTS Thresholds,     \* encoded thresholds; EmptyThreshold is no encoding
          EmptyThreshold,
          Actions,
          MaxThresholds   \* bound: elements of an array that is sent

ASSUME MonitorAssumption == MaxThresholds \in Nat

VARIABLES thresholds, actions

monitorVars == <<thresholds, actions>>

UpTo(n, S) == UNION {[1..k -> S] : k \in 0..n}

IsValidThresholds(value) == \A i \in DOMAIN value : value[i] # EmptyThreshold

\* Mutant: fewer actions than thresholds will do.
ThresholdsMatchActions_AtMost(value, sets) == Len(sets) <= Len(value)

ThresholdsMatchActions(value, sets) == Len(value) = Len(sets)

\* The constructor drops both arrays when they do not fit.
MonitorInit ==
  \E t \in UpTo(MaxThresholds, Thresholds \cup {EmptyThreshold}), a \in UpTo(MaxThresholds, Actions) :
    LET fit == IsValidThresholds(t) /\ ThresholdsMatchActions(t, a)
    IN  /\ thresholds = IF fit THEN t ELSE <<>>
        /\ actions = IF fit THEN a ELSE <<>>

\* WriteAttribute and SetThresholds
SetThresholds(value) ==
  /\ IsValidThresholds(value) /\ ThresholdsMatchActions(value, actions)
  /\ thresholds' = value
  /\ UNCHANGED actions

SetActions(value) ==
  /\ ThresholdsMatchActions(thresholds, value)
  /\ actions' = value
  /\ UNCHANGED thresholds

MonitorNext ==
  \/ \E value \in UpTo(MaxThresholds, Thresholds \cup {EmptyThreshold}) : SetThresholds(value)
  \/ \E value \in UpTo(MaxThresholds, Actions) : SetActions(value)

MonitorSpec == MonitorInit /\ [][MonitorNext]_monitorVars

-----------------------------------------------------------------------------
\* Every threshold has its actions and can be read back.
EveryThresholdHasActions ==
  /\ Len(thresholds) = Len(actions)
  /\ \A i \in DOMAIN thresholds : thresholds[i] \in Thresholds \ {EmptyThreshold}

\* Because each setter is checked against the other array, the number of
\* thresholds is what the constructor was given for as long as the object lives:
\* no sequence of calls of clients and the application adds or removes one.
ThresholdCountIsFixed == [][Len(thresholds') = Len(thresholds)]_monitorVars

=============================================================================
