-------------------------- MODULE CosemManagement ---------------------------
(***************************************************************************)
(* The interface classes through which a client learns what a logical      *)
(* device offers and manages its security.                                 *)
(***************************************************************************)
EXTENDS CosemClass

\* security_setup_reference came with version 2, the users and their methods with
\* version 3; method ids 1, 2, 4, 6 and 7 are reserved
AssociationSnNew ==
  <<LogicalName, Chosen(Raw), Chosen(Raw), Since(2, Chosen(Raw))>>
    \o Repeat(2, Since(3, Chosen(Raw)))
\* Mutant: the reference is read since version 3.
AssociationSnReads_Late == Reads(3) \o Repeat(3, Since(3, Read))

AssociationSnReads == Reads(3) \o <<Since(2, Read)>> \o Repeat(2, Since(3, Read))
AssociationSnWrites ==
  <<To(Denied), To(Raw), To(Raw), Since(2, To(Raw))>> \o Repeat(2, Since(3, To(Raw)))
AssociationSnMethods ==
  [m \in 1..10 |-> CASE m \in {3, 5, 8} -> Unsupported
                    [] m \in {9, 10} -> Since(3, Unsupported)
                    [] OTHER -> Absent(Unsupported)]
CosemAssociationSnObject ==
  Class(12, 4, AssociationSnNew, AssociationSnReads, AssociationSnWrites,
        Repeat(6, None), AssociationSnMethods)

DataProtectionNew == <<LogicalName>> \o Repeat(5, Chosen(Raw))
DataProtectionReads == Reads(6)
DataProtectionWrites == <<To(Denied)>> \o Repeat(5, To(Raw))
DataProtectionMethods == Repeat(3, Unsupported)
CosemDataProtectionObject ==
  Class(30, 0, DataProtectionNew, DataProtectionReads, DataProtectionWrites,
        Repeat(6, None), DataProtectionMethods)

\* the list of logical devices
SapAssignmentNew == <<LogicalName, Chosen(Typed)>>
SapAssignmentReads == Reads(2)
SapAssignmentWrites == <<To(Denied), To(Typed)>>
SapAssignmentSets == <<None, Typed>>
SapAssignmentMethods == <<Unsupported>>
CosemSapAssignmentObject ==
  Class(17, 0, SapAssignmentNew, SapAssignmentReads, SapAssignmentWrites,
        SapAssignmentSets, SapAssignmentMethods)

\* policy, suite, both system titles, certificates; see SecuritySetup
SecuritySetupNew ==
  <<LogicalName>> \o Repeat(4, ReadOnly(Typed)) \o <<Since(1, ReadOnly(Typed))>>
SecuritySetupReads == Reads(5) \o <<Since(1, Read)>>
SecuritySetupWrites == Repeat(5, To(Denied)) \o <<Since(1, To(Denied))>>
SecuritySetupMethods ==
  [m \in 1..8 |-> Granted(CASE m = 1 -> Updates({2}, Ranged)
                           [] m = 2 -> Updates({}, Ranged)
                           [] m \in 3..5 -> Since(1, Unsupported)
                           [] m \in 6..8 -> Since(1, Updates({6}, Typed)))]
CosemSecuritySetupObject ==
  Class(64, 1, SecuritySetupNew, SecuritySetupReads, SecuritySetupWrites,
        Repeat(6, None), SecuritySetupMethods)

\* object_list, association_status, security_setup_reference, users, current user.
\* Attributes 3 to 7 are not there.  The reference needs version 1 and a
\* configuration that has one; a version before 3 has no users.
AssociationLnNew(hasReference) ==
  <<LogicalName, ReadOnly(Typed)>> \o Repeat(5, Absent(ReadOnly(Typed)))
    \o <<ReadOnly(Typed), IF hasReference THEN Since(1, ReadOnly(Typed)) ELSE Absent(ReadOnly(Typed))>>
    \o Repeat(2, Since(3, ReadOnly(Typed)))
AssociationLnReads(hasReference) ==
  Reads(2) \o Repeat(5, Absent(Read))
    \o <<Read, IF hasReference THEN Since(1, Read) ELSE Absent(Read)>> \o Repeat(2, Since(3, Read))
\* WriteAttribute does not look at the id.
AssociationLnWrites == Repeat(255, To(Denied))
AssociationLnMethods ==
  Repeat(4, Granted(Unsupported)) \o Repeat(2, Since(3, Granted(Unsupported)))
CosemAssociationLnObject(hasReference) ==
  Class(15, 3, AssociationLnNew(hasReference), AssociationLnReads(hasReference),
        AssociationLnWrites, Repeat(11, None), AssociationLnMethods)

=============================================================================
