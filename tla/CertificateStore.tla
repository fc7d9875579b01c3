-------------------------- MODULE CertificateStore --------------------------
(***************************************************************************)
(* InMemoryCosemCertificateStore behind methods 6 to 8 of a Security Setup *)
(* object.  The application stores certificates under their owner (entity, *)
(* type and system title) with serial number and issuer; a certificate     *)
(* that a client imports is not parsed, so it belongs to nobody and has no *)
(* serial number.                                                          *)
(***************************************************************************)
EXTENDS Naturals, Sequences

CONSTANTS Owners, Nobody,      \* Nobody: entity and type "other", a title of zeros
          Serials, NoSerial,
          Certificates,        \* raw certificates
          MaxCertificates      \* bound: certificates in the store

ASSUME CertificateAssumption ==
  Nobody \notin Owners /\ NoSerial \notin Serials /\ MaxCertificates \in Nat

CertificateInfoEntry ==
  [owner : Owners \cup {Nobody}, serial : Serials \cup {NoSerial}, raw : Certificates]

VARIABLES certificates,  \* entries_
          imported       \* the last call was a client's import_certificate

certificateVars == <<certificates, imported>>

CertificateInit == certificates = <<>> /\ imported = FALSE

\* The entries a search looks for, and the one it stops at.
OfOwner(owner)   == {i \in DOMAIN certificates : certificates[i].owner = owner}
OfSerial(serial) == {i \in DOMAIN certificates : certificates[i].serial = serial}

First(indices) == CHOOSE i \in indices : \A j \in indices : i <= j

Without(i) == [j \in 1..(Len(certificates) - 1) |-> certificates[IF j < i THEN j ELSE j + 1]]

\* Mutant: the certificate of the first owner with the same bytes is replaced.
Import_ByRaw(entry) ==
  LET same == {i \in DOMAIN certificates : certificates[i].raw = entry.raw}
  IN  IF same # {} THEN certificates' = [certificates EXCEPT ![First(same)] = entry]
      ELSE /\ Len(certificates) < MaxCertificates
           /\ certificates' = Append(certificates, entry)

\* Mutant: nothing is replaced.
Import_Appends(entry) ==
  /\ Len(certificates) < MaxCertificates
  /\ certificates' = Append(certificates, entry)

\* Import replaces the certificate of the same owner.
Import(entry) ==
  IF OfOwner(entry.owner) # {}
  THEN certificates' = [certificates EXCEPT ![First(OfOwner(entry.owner))] = entry]
  ELSE /\ Len(certificates) < MaxCertificates
       /\ certificates' = Append(certificates, entry)

\* Method 6, import_certificate
ImportByClient(raw) ==
  /\ Import([owner |-> Nobody, serial |-> NoSerial, raw |-> raw])
  /\ imported' = TRUE

ImportByApplication(entry) ==
  /\ Import(entry)
  /\ imported' = FALSE

\* Method 8; ObjectError when there is none.  Method 7 reads the same entry.
RemoveByEntity(owner) ==
  /\ OfOwner(owner) # {}
  /\ certificates' = Without(First(OfOwner(owner)))
  /\ imported' = FALSE

\* Several owners may have certificates of one serial number: the first goes.
RemoveBySerial(serial) ==
  /\ OfSerial(serial) # {}
  /\ certificates' = Without(First(OfSerial(serial)))
  /\ imported' = FALSE

CertificateNext ==
  \/ \E raw \in Certificates : ImportByClient(raw)
  \/ \E entry \in CertificateInfoEntry : ImportByApplication(entry)
  \/ \E owner \in Owners \cup {Nobody} : RemoveByEntity(owner)
  \/ \E serial \in Serials \cup {NoSerial} : RemoveBySerial(serial)

CertificateSpec == CertificateInit /\ [][CertificateNext]_certificateVars

-----------------------------------------------------------------------------
\* An owner has one certificate, so that export by owner returns the one that was
\* stored last.
OneCertificatePerOwner ==
  \A i, j \in DOMAIN certificates : certificates[i].owner = certificates[j].owner => i = j

\* Importing, a client never displaces a certificate of an identified owner: it
\* replaces at most the one that is stored for nobody.
ClientImportsAreApart ==
  [][imported' =>
       \A i \in DOMAIN certificates :
         certificates[i].owner # Nobody => certificates'[i] = certificates[i]]_certificateVars

=============================================================================
