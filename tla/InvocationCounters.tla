--------------------------- MODULE InvocationCounters ---------------------------
(***************************************************************************)
(* InMemoryInvocationCounterStore.  A store hands out the counters of the  *)
(* APDUs a station protects and remembers the highest counter it accepted  *)
(* from its peer.  The map of the code from system titles to counters has  *)
(* one key here, since a store meets one peer; 0, which is never accepted, *)
(* stands for a title that is not in the map.                              *)
(***************************************************************************)
EXTENDS Integers

CONSTANT MaxCounter   \* 2^32 - 1 in the code

ASSUME MaxCounterAssumption == MaxCounter \in Nat \ {0}

Counters == 0..MaxCounter

Store == [nextLocal : Counters, highestRemote : Counters]

NewStore(first) == [nextLocal |-> first, highestRemote |-> 0]

\* NextLocal returns InvocationCounterExhausted.
IsExhausted(store) == store.nextLocal = MaxCounter

TakeLocal(store) == [store EXCEPT !.nextLocal = @ + 1]

\* Mutant: the highest counter is accepted again.
AcceptsRemote_Equal(store, counter) == counter # 0 /\ counter >= store.highestRemote

\* ValidateRemoteForSystemTitle, which stores a counter it accepts.
AcceptsRemote(store, counter) == counter # 0 /\ counter > store.highestRemote

StoreRemote(store, counter) == [store EXCEPT !.highestRemote = counter]

=============================================================================
