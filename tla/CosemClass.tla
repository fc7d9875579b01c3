----------------------------- MODULE CosemClass -----------------------------
(***************************************************************************)
(* What an interface class of dlms-cosem is to a logical device: a set of  *)
(* numbered attributes and methods, and for each of them what the          *)
(* constructor, ReadAttribute, WriteAttribute, the setters of the          *)
(* application and InvokeMethod do with it.  Every class of                *)
(* simple_objects.cpp writes these out by hand, once per function; here    *)
(* each function is a table indexed by the attribute id, so that the       *)
(* tables can be held against each other.                                  *)
(*                                                                         *)
(* A value is known by what becomes of it: an empty buffer, bytes that do  *)
(* not decode to the attribute's type, a value of the type that the class  *)
(* declares invalid, and a valid one.  "default" is what the               *)
(* constructor puts in the place of a typed argument it does not accept.   *)
(***************************************************************************)
EXTENDS Naturals, Sequences

Valid    == {"valid"}
Payloads == {"empty", "malformed", "invalid"} \cup Valid
Values   == Payloads \cup {"default"}

\* What is checked before a value is stored: nothing, that there is at least a
\* tag byte, that the bytes decode to the type, that the decoded value is valid
\* as well; Denied and None store nothing.
Raw      == "Raw"
NonEmpty == "NonEmpty"
Typed    == "Typed"
Ranged   == "Ranged"
Denied   == "Denied"
None     == "None"

Accepts == [Raw |-> Payloads, NonEmpty |-> Payloads \ {"empty"},
            Typed |-> Valid \cup {"invalid"}, Ranged |-> Valid,
            Denied |-> {}, None |-> {}]
Checks  == DOMAIN Accepts

\* What the constructor stores when it does not accept its argument: buffers
\* stay empty, typed members get a valid value.
Fallback(check) == IF check \in {Raw, NonEmpty} THEN "empty" ELSE "default"

-----------------------------------------------------------------------------
(***************************************************************************)
(* Entries of the tables.  "Chosen" is the access mode an argument of the  *)
(* constructor gives; an entry may exist only since a version of the class *)
(***************************************************************************)
ReadOnly(check)   == [since |-> 0, access |-> "ReadOnly", check |-> check]
Chosen(check)     == [since |-> 0, access |-> "Chosen", check |-> check]
ReadWrite(check)  == [since |-> 0, access |-> "ReadAndWrite", check |-> check]
Read              == [since |-> 0]
Reads(n)          == [i \in 1..n |-> Read]
To(check)         == [since |-> 0, check |-> check]
Since(v, entry)   == [entry EXCEPT !.since = v]
Repeat(n, entry)  == [i \in 1..n |-> entry]

\* An id between others that no version of the class defines.
Absent(entry)     == Since(256, entry)

\* Methods: which attributes they change, what they ask of their argument, and
\* whether they may refuse it all the same.  Most are known and do nothing: the
\* answer is UnsupportedFeature.  "earlier" answers versions before "since".
Method(effect, attrs, check) ==
  [since |-> 0, earlier |-> "MethodNotFound", granted |-> FALSE,
   effect |-> effect, attrs |-> attrs, check |-> check]
Unsupported            == Method("UnsupportedFeature", {}, None)
Clears(attr)           == Method("Clears", {attr}, Raw)
Updates(attrs, check)  == Method("Updates", attrs, check)
Granted(method)        == [method EXCEPT !.granted = TRUE]

\* The logical name: every class makes attribute 1 read-only, answers a write
\* with AccessDenied and has no setter for it.
LogicalName == ReadOnly(Typed)

\* A class: its id, the largest version, and its functions.  The classes that
\* declare no setter for any of n attributes have Repeat(n, None) for sets.
Class(id, maxVersion, new, reads, writes, sets, methods) ==
  [id |-> id, maxVersion |-> maxVersion, new |-> new, reads |-> reads,
   writes |-> writes, sets |-> sets, methods |-> methods]

\* NormalizeVersion: a version the class does not know becomes its largest.
NormalizeVersion(version, maxVersion) ==
  IF version > maxVersion THEN maxVersion ELSE version

=============================================================================
