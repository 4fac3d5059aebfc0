----------------------------- MODULE DevidTable -----------------------------
(***************************************************************************)
(* The hash table with which GetDevices (gondar.cc) finds the hub a device *)
(* hangs on: htab_create, htab_hash, htab_destroy and their use.           *)
(*                                                                         *)
(* The table uses double hashing with open addressing and has one slot     *)
(* more than its size: slot 0 stays empty and is what a failed lookup      *)
(* returns.  A lookup inserts what it does not find.  The data of a slot   *)
(* is the index of a hub's path; here it is the device id the hub was      *)
(* stored for, so that the hub of another device is visible.               *)
(***************************************************************************)
EXTENDS Integers, FiniteSets, FiniteSetsExt

CONSTANTS
  Strings,       \* device ids
  Hashes,        \* possible sdbm hashes: functions from Strings to numbers
  Nels,          \* sizes that may be asked for
  None,          \* NULL, and the data 0
  MaxFailures    \* bound: allocations that fail in one life of the table

ASSUME TableAssumption ==
  /\ Hashes \subseteq [Strings -> Nat]
  /\ Nels \subseteq Nat \ {0, 1}
  /\ None \notin Strings
  /\ MaxFailures \in Nat

VARIABLES
  r,          \* the sdbm hash of every string
  nel,        \* the size asked for
  size, filled, table,
  building,   \* the hubs are being enumerated; disks are looked up after that
  failures    \* failed allocations of strings since htab_create

vars == <<r, nel, size, filled, table, building, failures>>

NoTable == <<>>       \* htab->table = NULL
Empty == [used |-> 0, str |-> None, data |-> None]

Init ==
  /\ r \in Hashes /\ nel \in Nels
  /\ size = 0 /\ filled = 0 /\ table = NoTable
  /\ building = FALSE /\ failures = 0

-----------------------------------------------------------------------------
(* Creating and destroying                                                 *)

\* Where the loop of isprime() stops: the first odd divider from 3 that
\* divides the number or whose square is not below it.
Divider(number) ==
  Min({d \in 3..(number + 3) :
         d % 2 = 1 /\ (d * d >= number \/ number % d = 0)})

\* Mutant of isprime: the reason the loop ended for is mistaken.
isprimeBySquare(number) == Divider(number) * Divider(number) >= number

\* isprime()
isprime(number) == number % Divider(number) # 0

\* The search for a prime ends before twice the size asked for, as it does for
\* every number (Bertrand's postulate).
ASSUME PrimeAssumption ==
  \A n \in Nels : \E p \in n..(2 * n + 3) : p % 2 = 1 /\ isprime(p)

\* nel |= 1 and the search for the next prime.
FirstPrime(n) == Min({p \in n..(2 * n + 3) : p % 2 = 1 /\ isprime(p)})

\* htab_create()
Create ==
  /\ table = NoTable
  /\ size' = FirstPrime(nel) /\ filled' = 0 /\ failures' = 0
  /\ table' \in {[i \in 0..size' |-> Empty], NoTable}   \* calloc may fail
  /\ building' = (table' # NoTable)
  /\ UNCHANGED <<r, nel>>

\* htab_destroy()
Destroy ==
  /\ table # NoTable /\ ~building
  /\ size' = 0 /\ filled' = 0 /\ table' = NoTable
  /\ building' = FALSE
  /\ UNCHANGED <<r, nel, failures>>

-----------------------------------------------------------------------------
(* htab_hash                                                               *)

\* The first index, never 0.
Hval(s) ==
  LET h == (IF r[s] = 0 THEN 1 ELSE r[s]) % size
  IN  IF h = 0 THEN 1 ELSE h

\* "Second hash function, as suggested in [Knuth]"
Hval2(s) == 1 + (Hval(s) % (size - 2))

\* One step of the probe.
Back(idx, hval2) == IF idx <= hval2 THEN size + idx - hval2 ELSE idx - hval2

\* Probes(s)[k]: the index after k steps.
Probes(s) ==
  LET p[k \in 0..size] == IF k = 0 THEN Hval(s) ELSE Back(p[k - 1], Hval2(s))
  IN  p

\* The slot holds s.
Holds(i, s) == table[i].used = Hval(s) /\ table[i].str = s

\* The index the search ends at: an unused slot, the slot of s, or the first
\* index again once all were visited.
Search(s) ==
  LET p == Probes(s)
      stops == {k \in 0..size : \/ table[p[k]].used = 0
                                \/ Holds(p[k], s)
                                \/ k > 0 /\ p[k] = p[0]}
  IN  p[Min(stops)]

\* htab_hash returns without a new entry.
Kept(idx) == [idx |-> idx, table |-> table, filled |-> filled, failed |-> 0]

\* Mutant of HtabHash: a full table is not noticed.
HtabHashNeverFull(s) ==
  LET i == Search(s)
  IN  IF table = NoTable THEN {Kept(0)}
      ELSE IF Holds(i, s) THEN {Kept(i)}
      ELSE {[idx |-> i, filled |-> filled + 1, failed |-> 0,
             table |-> [table EXCEPT ![i].used = Hval(s), ![i].str = s]]}

\* The ways htab_hash(s) can go: the index returned and the table left.  On
\* failure of malloc the slot is marked as used but has no string.
HtabHash(s) ==
  LET i == Search(s)
      claimed(str) ==
        [table EXCEPT ![i].used = Hval(s), ![i].str = str]
  IN  IF table = NoTable THEN {Kept(0)}
      ELSE IF Holds(i, s) THEN {Kept(i)}
      ELSE IF filled >= size THEN {Kept(0)}
      ELSE {[idx |-> i, table |-> claimed(s), filled |-> filled + 1,
             failed |-> 0],
            [idx |-> 0, table |-> claimed(None), filled |-> filled,
             failed |-> 1]}

\* One of those ways is taken.
Apply(outcome) ==
  /\ failures + outcome.failed <= MaxFailures
  /\ failures' = failures + outcome.failed
  /\ filled' = outcome.filled
  /\ UNCHANGED <<r, nel, size, building>>

\* A child of a hub: its slot is given the hub's path.
AddChild(s) ==
  /\ building
  /\ \E outcome \in HtabHash(s) :
       /\ Apply(outcome)
       /\ table' = IF outcome.idx # 0
                     THEN [outcome.table EXCEPT ![outcome.idx].data = s]
                     ELSE outcome.table

\* The last hub was processed.
EndHubs ==
  /\ building /\ building' = FALSE
  /\ UNCHANGED <<r, nel, size, filled, table, failures>>

\* A disk's parent or grandparent is looked up.
Lookup(s) ==
  /\ ~building
  /\ \E outcome \in HtabHash(s) :
       /\ Apply(outcome)
       /\ table' = outcome.table

Next ==
  \/ Create
  \/ EndHubs
  \/ Destroy
  \/ \E s \in Strings : AddChild(s) \/ Lookup(s)

Spec == Init /\ [][Next]_vars

-----------------------------------------------------------------------------
(* Properties                                                              *)

Used == {i \in DOMAIN table : table[i].used # 0}

\* What is in the table is found again at its place, whatever was inserted or
\* failed to be inserted since, nothing is in it twice, and as long as no
\* string failed to be allocated no slot leads from a device to the hub of
\* another one: with all slots taken none is given to a new id, and slot 0,
\* which a failed lookup leads to, has no hub.
FoundAgain ==
  /\ \A i \in Used : table[i].str # None => Search(table[i].str) = i
  /\ failures = 0 =>
       \A i \in DOMAIN table : table[i].data \in {None, table[i].str}

\* As long as no string failed to be allocated, a lookup ends at the slot of
\* another string only when every slot is taken: the probe visits all of them.
\* htab_hash counts on it where it compares filled with size.
NoSlotMissed ==
  table # NoTable /\ failures = 0 =>
    /\ filled = Cardinality(Used)
    /\ \A s \in Strings :
         LET i == Search(s)
         IN  table[i].used # 0 /\ ~Holds(i, s) => Used = 1..size

=============================================================================
