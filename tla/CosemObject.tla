---------------------------- MODULE CosemObject ----------------------------
(***************************************************************************)
(* One attribute of one COSEM object of any interface class, as the        *)
(* clients of a server and its own application meet it.                    *)
(*                                                                         *)
(* A GET, SET or ACTION comes through the xDLMS server adapter, which      *)
(* addresses version 0 of the class, or through the logical device with a  *)
(* full descriptor.  The dispatcher asks for an association, the registry  *)
(* finds the object and asks its access rights, the object decides, and    *)
(* the adapter turns the outcome into a result code or into no response.   *)
(* The application sets attributes directly, whatever the rights say.      *)
(*                                                                         *)
(* The attributes of an object do not touch each other (the classes in     *)
(* which they do have modules of their own), so one of them, any, stands   *)
(* for all.                                                                *)
(***************************************************************************)
EXTENDS CosemClass

CONSTANT Classes   \* the interface classes, each under a name

AccessModes ==
  {"NoAccess", "ReadOnly", "WriteOnly", "ReadAndWrite", "AuthenticatedReadOnly",
   "AuthenticatedWriteOnly", "AuthenticatedReadAndWrite"}

\* The tables of every class are indexed by ids from 1 and hold known entries.
ASSUME ClassesAssumption ==
  \A name \in DOMAIN Classes : LET c == Classes[name] IN
    /\ c.maxVersion \in Nat
    /\ \A i \in DOMAIN c.new : /\ c.new[i].check \in {Raw, NonEmpty, Typed, Ranged}
                              /\ c.new[i].access \in AccessModes \cup {"Chosen"}
    /\ \A i \in DOMAIN c.writes : c.writes[i].check \in Checks
    /\ DOMAIN c.sets = DOMAIN c.new
    /\ \A i \in DOMAIN c.sets : c.sets[i] \in Checks
    /\ \A i \in DOMAIN c.methods : /\ c.methods[i].since \in Nat /\ c.methods[i].check \in Checks
                                  /\ c.methods[i].earlier \in {"MethodNotFound", "UnsupportedFeature"}

VARIABLES object,     \* the name of its class, and its version
          attribute,  \* the attribute looked at: its id, and the access it has
          value,      \* what it holds
          context,    \* ServerContext: association and access context
          last        \* the last request and what became of it

objectVars == <<object, attribute, value, context, last>>

Statuses ==
  {"Ok", "InvalidArgument", "ObjectNotFound", "AccessDenied", "AttributeNotFound",
   "MethodNotFound", "ObjectError", "UnsupportedFeature", "NotAssociated"}

Responses == {"Success", "Denied", "Undefined", "OtherReason", "None"}

Paths == {"adapter", "device"}

Quiet == [service |-> "None", path |-> "device", status |-> "Ok", response |-> "None"]

NoAssociation == [associated |-> FALSE, authenticated |-> FALSE]

\* The functions of the object's class.
Own == Classes[object.class]

-----------------------------------------------------------------------------
(***************************************************************************)
(* Access rights.                                                          *)
(***************************************************************************)
IsReadAllowed(mode, authenticated) ==
  \/ mode \in {"ReadOnly", "ReadAndWrite"}
  \/ mode \in {"AuthenticatedReadOnly", "AuthenticatedReadAndWrite"} /\ authenticated

IsWriteAllowed(mode, authenticated) ==
  \/ mode \in {"WriteOnly", "ReadAndWrite"}
  \/ mode \in {"AuthenticatedWriteOnly", "AuthenticatedReadAndWrite"} /\ authenticated

IsAccessWritable(mode) ==
  mode \in {"WriteOnly", "ReadAndWrite", "AuthenticatedWriteOnly", "AuthenticatedReadAndWrite"}

\* Whether a table has an id for an object of this version.
Has(table, id) == id \in DOMAIN table /\ table[id].since <= object.version

AttributeAccess(id) ==
  IF id = attribute.id /\ Has(Own.new, id) THEN attribute.access ELSE "NoAccess"

CanInvokeMethod(id) == Has(Own.methods, id) /\ Own.methods[id].granted

-----------------------------------------------------------------------------
(***************************************************************************)
(* The object.                                                             *)
(***************************************************************************)
Constructed(check, argument) ==
  IF argument \in Accepts[check] THEN argument ELSE Fallback(check)

\* Arguments of typed constructor parameters have their type.
Arguments(check) == IF check \in {Raw, NonEmpty} THEN Payloads ELSE Valid \cup {"invalid"}

ReadAttribute(id) == IF Has(Own.reads, id) THEN "Ok" ELSE "AttributeNotFound"

\* The classes whose WriteAttribute leaves the access mode to the registry:
\* Data, the registers, Register Activation, Register Monitor, Clock, Script
\* Table, Profile Generic, Association LN and Security Setup.
LeaveAccessToRegistry == {1, 3, 4, 5, 6, 7, 8, 9, 15, 21, 64}

WriteAttribute(id, payload) ==
  IF ~Has(Own.writes, id) THEN "AttributeNotFound"
  ELSE IF \/ Own.writes[id].check = Denied
          \/ Own.id \notin LeaveAccessToRegistry /\ ~IsAccessWritable(AttributeAccess(id))
       THEN "AccessDenied"
  ELSE IF payload \in Accepts[Own.writes[id].check] THEN "Ok" ELSE "InvalidArgument"

\* A method that takes its argument may still find that it does not fit.
InvokeMethod(id, payload) ==
  LET m == Own.methods[id]
  IN  IF id \notin DOMAIN Own.methods THEN {"MethodNotFound"}
      ELSE IF m.since > object.version THEN {m.earlier}
      ELSE IF m.effect = "UnsupportedFeature" THEN {"UnsupportedFeature"}
      ELSE IF payload \notin Accepts[m.check] THEN {"InvalidArgument"}
      ELSE IF m.effect = "Clears" THEN {"Ok"}
      ELSE {"Ok", "ObjectError", "AccessDenied", "UnsupportedFeature"}

\* What a method that succeeded may leave in the attribute.
Invoked(id) ==
  LET m == Own.methods[id]
  IN  IF attribute.id \notin m.attrs THEN {value}
      ELSE IF m.effect = "Clears" THEN {"empty"} ELSE Valid \cup {value}

-----------------------------------------------------------------------------
(***************************************************************************)
(* From the request to the answer.                                         *)
(***************************************************************************)

\* The adapter knows no versions and asks for version 0.
ToServerDescriptor(path) == IF path = "adapter" THEN 0 ELSE object.version

IsDataAccessResultStatus(status) ==
  status \in {"ObjectNotFound", "AccessDenied", "AttributeNotFound", "ObjectError"}

IsActionResultStatus(status) ==
  status \in {"ObjectNotFound", "AccessDenied", "MethodNotFound", "ObjectError"}

\* Mutant: what is not listed is a success.
ResultCode_ElseSuccess(status) ==
  CASE status = "AccessDenied" -> "Denied"
    [] status \in {"ObjectNotFound", "AttributeNotFound", "MethodNotFound"} -> "Undefined"
    [] OTHER -> "Success"

ResultCode(status) ==
  CASE status = "Ok" -> "Success"
    [] status = "AccessDenied" -> "Denied"
    [] status \in {"ObjectNotFound", "AttributeNotFound", "MethodNotFound"} -> "Undefined"
    [] OTHER -> "OtherReason"

\* A status that is not a result leaves the dispatcher without a response.
Respond(service, status) ==
  IF \/ status = "Ok"
     \/ service \in {"Get", "Set"} /\ IsDataAccessResultStatus(status)
     \/ service = "Action" /\ IsActionResultStatus(status)
  THEN ResultCode(status) ELSE "None"

Answer(service, path, status) ==
  [service |-> service, path |-> path, status |-> status, response |-> Respond(service, status)]

\* Mutant: the registry leaves the rights to the object.
Refusal_NoRights(path, allowed) ==
  CASE path = "adapter" /\ ~context.associated -> "NotAssociated"
    [] ToServerDescriptor(path) # object.version -> "ObjectNotFound"
    [] OTHER -> "Ok"

\* What the dispatcher and the registry ask before the object is called.
Refusal(path, allowed) ==
  CASE path = "adapter" /\ ~context.associated -> "NotAssociated"
    [] ToServerDescriptor(path) # object.version -> "ObjectNotFound"
    [] ~allowed -> "AccessDenied"
    [] OTHER -> "Ok"

HandleGet(path, id) ==
  LET refusal == Refusal(path, IsReadAllowed(AttributeAccess(id), context.authenticated))
  IN  /\ last' = Answer("Get", path, IF refusal = "Ok" THEN ReadAttribute(id) ELSE refusal)
      /\ UNCHANGED <<object, attribute, value, context>>

HandleSet(path, id, payload) ==
  LET refusal == Refusal(path, IsWriteAllowed(AttributeAccess(id), context.authenticated))
      status  == IF refusal = "Ok" THEN WriteAttribute(id, payload) ELSE refusal
  IN  /\ last' = Answer("Set", path, status)
      /\ value' = IF status = "Ok" /\ id = attribute.id THEN payload ELSE value
      /\ UNCHANGED <<object, attribute, context>>

HandleAction(path, id, payload) ==
  LET refusal == Refusal(path, CanInvokeMethod(id))
  IN  /\ \E status \in IF refusal = "Ok" THEN InvokeMethod(id, payload) ELSE {refusal} :
           /\ last' = Answer("Action", path, status)
           /\ value' \in IF status = "Ok" THEN Invoked(id) ELSE {value}
      /\ UNCHANGED <<object, attribute, context>>

\* A setter of the class, called by the application; it reports what it refuses.
SetByApplication(payload) ==
  /\ payload \in Accepts[Own.sets[attribute.id]]
  /\ value' = payload
  /\ last' = Quiet
  /\ UNCHANGED <<object, attribute, context>>

SetAssociationContext(authenticated) ==
  /\ context' = [associated |-> TRUE, authenticated |-> authenticated]
  /\ last' = Quiet
  /\ UNCHANGED <<object, attribute, value>>

ClearAssociationContext ==
  /\ context' = NoAssociation
  /\ last' = Quiet
  /\ UNCHANGED <<object, attribute, value>>

-----------------------------------------------------------------------------
\* A new object of any class: a "Chosen" access is an argument of the
\* constructor, like the value.
ObjectInit ==
  /\ \E name \in DOMAIN Classes : \E version \in 0..(Classes[name].maxVersion + 1) :
       object = [class |-> name, version |-> NormalizeVersion(version, Classes[name].maxVersion)]
  /\ \E id \in DOMAIN Own.new, mode \in AccessModes :
       /\ Own.new[id].access \in {"Chosen", mode}
       /\ attribute = [id |-> id, access |-> mode]
  /\ \E argument \in Arguments(Own.new[attribute.id].check) :
       value = Constructed(Own.new[attribute.id].check, argument)
  /\ context = NoAssociation
  /\ last = Quiet

\* Ids a client may send: the attribute's, one that the class does not have,
\* and every method.  An id of 0 is refused before anything else.
AttributeIds == {attribute.id, Len(Own.new) + 1}
MethodIds    == DOMAIN Own.methods \cup {Len(Own.methods) + 1}

ObjectNext ==
  \/ \E path \in Paths, id \in AttributeIds : HandleGet(path, id)
  \/ \E path \in Paths, id \in AttributeIds, payload \in Payloads : HandleSet(path, id, payload)
  \/ \E path \in Paths, id \in MethodIds, payload \in Payloads : HandleAction(path, id, payload)
  \/ \E payload \in Payloads : SetByApplication(payload)
  \/ \E authenticated \in BOOLEAN : SetAssociationContext(authenticated)
  \/ ClearAssociationContext

ObjectSpec == ObjectInit /\ [][ObjectNext]_objectVars

-----------------------------------------------------------------------------
ObjectTypeOK ==
  /\ object.class \in DOMAIN Classes
  /\ object.version \in 0..Own.maxVersion
  /\ attribute.id \in DOMAIN Own.new
  /\ attribute.access \in AccessModes
  /\ value \in Values
  /\ context \in [associated : BOOLEAN, authenticated : BOOLEAN]
  /\ last \in [service : {"None", "Get", "Set", "Action"}, path : Paths,
               status : Statuses, response : Responses]

(***************************************************************************)
(* What the constructor of a class publishes at a version, ReadAttribute   *)
(* answers at that version, and nothing else; what a client may write,     *)
(* WriteAttribute accepts some value for; a granted method is a method the *)
(* class has.  The three functions of every class are written apart.       *)
(***************************************************************************)
RightsAreServed ==
  /\ Has(Own.new, attribute.id) <=> ReadAttribute(attribute.id) = "Ok"
  /\ IsAccessWritable(AttributeAccess(attribute.id))
       => \E payload \in Valid : WriteAttribute(attribute.id, payload) = "Ok"
  /\ \A id \in MethodIds, payload \in Payloads :
       CanInvokeMethod(id) => "MethodNotFound" \notin InvokeMethod(id, payload)

(***************************************************************************)
(* An attribute that some path checks for validity, and that holds a valid *)
(* value, is never left with an invalid one: not by a client's SET, not by *)
(* a method and not by a setter the application calls.                     *)
(***************************************************************************)
Validated ==
  \/ Own.new[attribute.id].check = Ranged
  \/ Has(Own.writes, attribute.id) /\ Own.writes[attribute.id].check = Ranged
  \/ Own.sets[attribute.id] = Ranged
StaysValid == [][Validated /\ value # "invalid" => value' # "invalid"]_objectVars

(***************************************************************************)
(* The client is told the truth: a request that is refused, or one left    *)
(* without a response because its status is no result code, has changed    *)
(* nothing and may be sent again, and "success" is never said of a request *)
(* that the dispatcher, the registry or the object refused.                *)
(***************************************************************************)
AnswersAreTrue ==
  [][last'.service # "None" =>
       /\ last'.response # "Success" => value' = value
       /\ last'.response = "Success" => last'.status = "Ok"
    ]_objectVars

(***************************************************************************)
(* By a SET through the adapter only an associated client changes the      *)
(* attribute, and by any SET what is published for authenticated access    *)
(* only an authenticated one.                                              *)
(***************************************************************************)
OnlyAsGranted ==
  [][last'.service = "Set" /\ value' # value =>
       /\ last'.path = "adapter" => context.associated
       /\ attribute.access \in {"WriteOnly", "ReadAndWrite"} \/ context.authenticated
    ]_objectVars

=============================================================================
