----------------------------- MODULE SpecialDays -----------------------------
(***************************************************************************)
(* CosemSpecialDaysTableObject (IC 11): days with two keys, their index    *)
(* and their date.  A SET or SetEntries replaces the whole table if no two *)
(* entries of it share a key; Insert overwrites what shares a key with the *)
(* new entry, which may be two entries.                                    *)
(***************************************************************************)
EXTENDS Naturals, Sequences, Functions

CONSTANTS DayIndices, Dates, DayIds,
          MaxDays   \* bound: entries of an array that is sent

ASSUME SpecialDaysAssumption == MaxDays \in Nat

SpecialDayEntry == [index : DayIndices, date : Dates, dayId : DayIds]

VARIABLES days,      \* entries_
          newest     \* the entry the last step inserted, if it inserted one

specialDaysVars == <<days, newest>>

SameKey(e, f) == e.index = f.index \/ e.date = f.date

\* IsValidEntries
DaysAreValid(array) == \A i, j \in DOMAIN array : i # j => ~SameKey(array[i], array[j])

DayArrays == UNION {[1..n -> SpecialDayEntry] : n \in 0..MaxDays}

SpecialDaysInit ==
  /\ \E array \in DayArrays : days = IF DaysAreValid(array) THEN Range(array) ELSE {}
  /\ newest = {}

\* WriteAttribute and SetEntries; what is refused changes nothing.
SetDays(array) ==
  /\ DaysAreValid(array)
  /\ days' = Range(array)
  /\ newest' = {}

\* Mutant: only the entry with the same index is overwritten.
InsertDay_ByIndex(entry) ==
  /\ days' = {e \in days : e.index # entry.index} \cup {entry}
  /\ newest' = {entry}

\* Insert: both old entries go when the keys belong to two.
InsertDay(entry) ==
  /\ days' = {e \in days : ~SameKey(e, entry)} \cup {entry}
  /\ newest' = {entry}

\* Delete, which reports a missing index to local callers only.
DeleteDay(index) ==
  /\ days' = {e \in days : e.index # index}
  /\ newest' = {}

SpecialDaysNext ==
  \/ \E array \in DayArrays : SetDays(array)
  \/ \E entry \in SpecialDayEntry : InsertDay(entry)
  \/ \E index \in DayIndices : DeleteDay(index)

SpecialDaysSpec == SpecialDaysInit /\ [][SpecialDaysNext]_specialDaysVars

-----------------------------------------------------------------------------
\* Both the index and the date stay keys of the table, and an entry just
\* inserted is found under both of its keys.
SpecialDaysKeys ==
  /\ days \subseteq SpecialDayEntry
  /\ newest \subseteq days
  /\ \A e, f \in days : SameKey(e, f) => e = f

=============================================================================
