------------------------------- MODULE Catalog -------------------------------
(***************************************************************************)
(* The sticky device catalogue (snmpdiscovery/httpsd.go).  The Go slice of *)
(* CatalogEntry is a function from addresses to entries: MergeFound keys   *)
(* the slice by address before it rebuilds it, and nothing reads its order *)
(* (every list made from it is sorted or is a set of rows).  The RWMutex   *)
(* makes each operation one step; LastSeen and the `updated' stamp are     *)
(* written but never read back by a decision, so they are left out.        *)
(***************************************************************************)
EXTENDS Integers, FiniteSets

CONSTANTS
  Addr,     \* canonical IP addresses
  Misses    \* ScanParams.Misses: silent cycles before a drop, <= 0 is never

ASSUME MissesAssumption == Misses \in Int

VARIABLE entries    \* Catalog.entries

NoEntries == [a \in {} |-> a]

\* What the catalogue lists, without the miss counters (Snapshot).
TargetsIn(es) == [a \in DOMAIN es |-> es[a].target]

\* An entry built from a target that has just been seen.
Fresh(target) == [target |-> target, misses |-> 0]

\* Mutant: the counter is incremented in a copy of the entry.
AgedCopy(entry) == entry

\* The entry of a silent address, one cycle older.
Aged(entry) == [target |-> entry.target, misses |-> entry.misses + 1]

\* Mutants: the limit is compared the wrong way at the boundary; the cycle that
\* is about to be counted is taken for counted.
ExpiredLate(entry) == Misses > 0 /\ entry.misses > Misses
ExpiredEarly(entry) == Misses > 0 /\ entry.misses + 1 >= Misses
Expired(entry) == Misses > 0 /\ entry.misses >= Misses

\* Mutant: an entry that answers again does not get a clean counter.
MergedWithoutReset(es, found) ==
  LET new == DOMAIN found \ DOMAIN es
      survivors == {a \in DOMAIN es : ~Expired(Aged(es[a]))}
  IN  [a \in new \cup survivors |-> IF a \in new THEN Fresh(found[a]) ELSE Aged(es[a])]

\* Mutant: only the entries there are refreshed or aged.
MergedKnownOnly(es, found) ==
  LET survivors == {a \in DOMAIN es : a \in DOMAIN found \/ ~Expired(Aged(es[a]))}
  IN  [a \in survivors |-> IF a \in DOMAIN found THEN Fresh(found[a]) ELSE Aged(es[a])]

\* MergeFound: found targets replace their entries with a clean counter, the
\* others age and leave once their counter reaches Misses.
Merged(es, found) ==
  LET survivors == {a \in DOMAIN es \ DOMAIN found : ~Expired(Aged(es[a]))}
  IN  [a \in DOMAIN found \cup survivors |->
         IF a \in DOMAIN found THEN Fresh(found[a]) ELSE Aged(es[a])]

Without(es, gone) == [a \in DOMAIN es \ gone |-> es[a]]

-----------------------------------------------------------------------------
Replace(targets)   == entries' = [a \in DOMAIN targets |-> Fresh(targets[a])]
LoadEntries(saved) == entries' = saved
MergeFound(found)  == entries' = Merged(entries, found)
DropAddresses(gone) == entries' = Without(entries, gone)
=============================================================================
