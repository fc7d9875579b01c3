---------------------------- MODULE SecuritySetup ----------------------------
(***************************************************************************)
(* CosemSecuritySetupObject (IC 64) with the key store and the invocation  *)
(* counter store it shares with the CipheredApduProcessor of the server.   *)
(* Methods run to their end before the next APDU is protected.             *)
(*                                                                         *)
(* A policy is the set of its bits.  A transferred key is wrapped by some  *)
(* key encryption key; Unwrap finds out whether it is the stored one.      *)
(* History: sealed and opened hold the pairs of encryption key and counter *)
(* that the server has protected an APDU with and accepted one under.      *)
(***************************************************************************)
EXTENDS InvocationCounters, Sequences, FiniteSets

CONSTANTS PolicyBits,
          Keys,           \* values of 16 bytes
          NoKey,          \* no key is stored for a role
          ResetPolicies,  \* {TRUE}, {FALSE}: whether a counter reset policy is given
          FreshKeys,      \* TRUE if whoever transfers keys always brings a new
                          \* unicast encryption key
          MaxTransfer     \* bound: keys of one transfer

ASSUME SecuritySetupAssumption ==
  NoKey \notin Keys /\ ResetPolicies \subseteq BOOLEAN /\ FreshKeys \in BOOLEAN /\ MaxTransfer \in Nat

VARIABLES securityPolicy, keys, store, hasResetPolicy, sealed, opened

securityVars == <<securityPolicy, keys, store, hasResetPolicy, sealed, opened>>

KeyRoles == {"unicast", "broadcast", "authentication", "kek"}

\* MapSecuritySetupKeyId; other ids are refused.
RoleOf == [id \in 0..3 |-> <<"unicast", "broadcast", "authentication", "kek">>[id + 1]]

Encryption == keys["unicast"]

SecurityInit ==
  /\ securityPolicy \in SUBSET PolicyBits
  /\ keys \in [KeyRoles -> Keys \cup {NoKey}]
  /\ store = NewStore(1)
  /\ hasResetPolicy \in ResetPolicies
  /\ sealed = {}
  /\ opened = {}

-----------------------------------------------------------------------------
StrengthensOrKeepsPolicy(current, requested) == current \cap requested = current

\* Method 1; a weaker policy is answered with AccessDenied.
SecurityActivate(requested) ==
  /\ StrengthensOrKeepsPolicy(securityPolicy, requested)
  /\ securityPolicy' = requested
  /\ UNCHANGED <<keys, store, hasResetPolicy, sealed, opened>>

\* The keys that a list of entries installs, one SetKey after the other: the
\* last entry of a role counts.
Installed(entries) ==
  [r \in KeyRoles |->
     LET mine == {i \in DOMAIN entries : RoleOf[entries[i].id] = r}
     IN  IF mine = {} THEN keys[r]
         ELSE entries[CHOOSE i \in mine : \A j \in mine : j <= i].key]

\* Every entry has a known id and was wrapped by the key encryption key that is
\* stored before the transfer, also when the transfer brings a new one.
Unwraps(entries) ==
  \A i \in DOMAIN entries : entries[i].id \in 0..3 /\ entries[i].kek = keys["kek"]

\* ResetAfterKeyRotation, whatever the role of the key.
ResetAfterKeyRotation(s) == NewStore(1)

\* Mutant: the counters start over when the list is refused, too.
GlobalKeyTransfer_ResetsFirst(entries) ==
  /\ keys["kek"] # NoKey
  /\ store' = IF hasResetPolicy /\ entries # <<>> THEN ResetAfterKeyRotation(store) ELSE store
  /\ keys' = IF Unwraps(entries) THEN Installed(entries) ELSE keys
  /\ UNCHANGED <<securityPolicy, hasResetPolicy, sealed, opened>>

\* Method 2: the whole list is decoded and unwrapped before anything changes;
\* then the counters are reset, once per key, and the keys stored.
GlobalKeyTransfer(entries) ==
  /\ keys["kek"] # NoKey
  /\ Unwraps(entries)
  /\ store' = IF hasResetPolicy /\ entries # <<>> THEN ResetAfterKeyRotation(store) ELSE store
  /\ keys' = Installed(entries)
  /\ UNCHANGED <<securityPolicy, hasResetPolicy, sealed, opened>>

\* Protect: the keys are fetched before a counter is taken.
Protect ==
  /\ Encryption # NoKey /\ keys["authentication"] # NoKey
  /\ ~IsExhausted(store)
  /\ sealed' = sealed \cup {<<Encryption, store.nextLocal>>}
  /\ store' = TakeLocal(store)
  /\ UNCHANGED <<securityPolicy, keys, hasResetPolicy, opened>>

\* Unprotect of an APDU that a peer protected with the stored keys.
Unprotect(counter) ==
  /\ Encryption # NoKey /\ keys["authentication"] # NoKey
  /\ AcceptsRemote(store, counter)
  /\ opened' = opened \cup {<<Encryption, counter>>}
  /\ store' = StoreRemote(store, counter)
  /\ UNCHANGED <<securityPolicy, keys, hasResetPolicy, sealed>>

-----------------------------------------------------------------------------
TransferEntries == [id : 0..4, key : Keys, kek : Keys]

Used == {p[1] : p \in sealed \cup opened} \cup {Encryption}

Transfers ==
  {entries \in UNION {[1..n -> TransferEntries] : n \in 0..MaxTransfer} :
     FreshKeys => \/ entries = <<>>
                  \/ ~Unwraps(entries)
                  \/ Installed(entries)["unicast"] \notin Used}

SecurityNext ==
  \/ \E requested \in SUBSET PolicyBits : SecurityActivate(requested)
  \/ \E entries \in Transfers : GlobalKeyTransfer(entries)
  \/ Protect
  \/ \E counter \in Counters : Unprotect(counter)

SecuritySpec == SecurityInit /\ [][SecurityNext]_securityVars

-----------------------------------------------------------------------------
SecurityTypeOK ==
  /\ securityPolicy \subseteq PolicyBits
  /\ keys \in [KeyRoles -> Keys \cup {NoKey}]
  /\ store \in Store
  /\ hasResetPolicy \in BOOLEAN
  /\ sealed \subseteq Keys \X Counters
  /\ opened \subseteq Keys \X Counters

\* No sequence of activations takes protection away: what a policy demands, every
\* later policy demands.
PolicyNeverWeakens == [][securityPolicy \subseteq securityPolicy']_securityVars

\* The nonce of the next APDU has not been used with the encryption key: a counter
\* starts over only together with a key that has protected nothing.
NonceIsFresh ==
  Encryption # NoKey /\ ~IsExhausted(store) => <<Encryption, store.nextLocal>> \notin sealed

\* An APDU that was accepted once is refused when it comes again under the key
\* that protects it.
NoReplayAccepted ==
  \A counter \in Counters :
    <<Encryption, counter>> \in opened => ~AcceptsRemote(store, counter)

=============================================================================
