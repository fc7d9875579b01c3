------------------------------ MODULE Schedule ------------------------------
(***************************************************************************)
(* CosemScheduleObject (IC 10): the entries of a schedule, replaced as a   *)
(* whole by a SET or by the application, and edited by three methods.  The *)
(* entries are a set, since their order shows only in how they are read.   *)
(* "plan" is everything in an entry that the object does not look at.      *)
(***************************************************************************)
EXTENDS Naturals, Sequences, Functions

CONSTANTS ScheduleIndices,   \* values of an index (16 bits in the code)
          Plans,
          IndexCap,          \* 9999: enable_disable knows no entry above it
          MaxEntries         \* bound: entries of an array that is sent

ASSUME ScheduleAssumption ==
  ScheduleIndices \subseteq Nat /\ IndexCap \in Nat /\ MaxEntries \in Nat

ScheduleTableEntry == [index : ScheduleIndices, enable : BOOLEAN, plan : Plans]

VARIABLES entries,   \* entries_
          command    \* the last enable_disable: its two ranges, and what was enabled before

scheduleVars == <<entries, command>>

NoCommand == [a |-> <<1, 0>>, b |-> <<1, 0>>, before |-> {}]

ScheduleEntriesIndicesUnique(array) ==
  \A i, j \in DOMAIN array : i # j => array[i].index # array[j].index

\* Arrays of entries that a payload may decode to.
Arrays == UNION {[1..n -> ScheduleTableEntry] : n \in 0..MaxEntries}

ScheduleInit ==
  /\ \E array \in Arrays :
       entries = IF ScheduleEntriesIndicesUnique(array) THEN Range(array) ELSE {}
  /\ command = NoCommand

\* WriteAttribute and SetEntries; what is refused changes nothing.
SetEntries(array) ==
  /\ ScheduleEntriesIndicesUnique(array)
  /\ entries' = Range(array)
  /\ command' = NoCommand

\* The lambda applyEnable: an empty range or one that starts above the cap
\* selects nothing.
InRange(index, range) ==
  /\ range[1] <= range[2] /\ range[1] <= IndexCap
  /\ range[1] <= index
  /\ index <= (IF range[2] > IndexCap THEN IndexCap ELSE range[2])

ApplyEnable(set, range, on) ==
  {[e EXCEPT !.enable = IF InRange(e.index, range) THEN on ELSE @] : e \in set}

\* Mutant: the enabling range is applied first.
EnableDisable_EnableFirst(a, b) ==
  /\ entries' = ApplyEnable(ApplyEnable(entries, b, TRUE), a, FALSE)
  /\ command' = [a |-> a, b |-> b, before |-> {e.index : e \in {x \in entries : x.enable}}]

\* Method 1: range a is disabled, then range b enabled.
EnableDisable(a, b) ==
  /\ entries' = ApplyEnable(ApplyEnable(entries, a, FALSE), b, TRUE)
  /\ command' = [a |-> a, b |-> b, before |-> {e.index : e \in {x \in entries : x.enable}}]

\* Mutant: an entry is added next to the one with its index.
InsertEntry_Appends(entry) ==
  /\ entries' = entries \cup {entry}
  /\ command' = NoCommand

\* Method 2: an entry with the same index is overwritten.
InsertEntry(entry) ==
  /\ entries' = {e \in entries : e.index # entry.index} \cup {entry}
  /\ command' = NoCommand

\* Method 3; here the range has no cap.
DeleteEntries(range) ==
  /\ entries' = {e \in entries : ~(range[1] <= e.index /\ e.index <= range[2])}
  /\ command' = NoCommand

Ranges == ScheduleIndices \X ScheduleIndices

ScheduleNext ==
  \/ \E array \in Arrays : SetEntries(array)
  \/ \E a, b \in Ranges : EnableDisable(a, b)
  \/ \E entry \in ScheduleTableEntry : InsertEntry(entry)
  \/ \E range \in Ranges : DeleteEntries(range)

ScheduleSpec == ScheduleInit /\ [][ScheduleNext]_scheduleVars

-----------------------------------------------------------------------------
\* However entries are set, inserted, switched and deleted, an index names one
\* entry: the invariant IsValidEntries checks on arrays only.
ScheduleIndexIsKey ==
  /\ entries \subseteq ScheduleTableEntry
  /\ \A e, f \in entries : e.index = f.index => e = f

\* After enable_disable an entry in both ranges is enabled, an entry in neither
\* is as it was, and so is an entry above the cap whatever the ranges say.
ScheduleSwitchedAsAsked ==
  command # NoCommand =>
    \A e \in entries :
      LET within(range) == e.index <= IndexCap /\ e.index \in range[1]..range[2]
      IN  e.enable <=> \/ within(command.b)
                       \/ e.index \in command.before /\ ~within(command.a)

=============================================================================
