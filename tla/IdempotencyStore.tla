-------------------------- MODULE IdempotencyStore --------------------------
(***************************************************************************)
(* The write idempotency store of atribd, services/atribd/src/             *)
(* idempotency.ts, as operators on a table of entries: what begin(),       *)
(* complete() and pruneCompleted() compute from the table they are given.  *)
(* AtribdBackend holds the table, the state file and the interleavings.    *)
(*                                                                         *)
(* A table maps every caller key to an entry.  Caller keys stand for their *)
(* hashes (hashKey is injective up to SHA-256 collisions) and a binding    *)
(* for the commitment to {context_id, tool, arguments}.  A stored result   *)
(* is named by the call whose primitive produced it.                       *)
(***************************************************************************)
EXTENDS Integers, FiniteSets

CONSTANTS
  Keys,        \* caller idempotency keys
  Bindings,    \* action bindings, writeActionBinding
  Results,     \* results a primitive can produce
  Nil,         \* neither a binding nor a result
  MaxEntries,  \* options.maxEntries
  WindowMs,    \* options.windowMs, in clock ticks
  MaxClock     \* bound of the model: the last clock tick

ASSUME StoreAssumption ==
  /\ Nil \notin Bindings
  /\ Nil \notin Results
  /\ MaxEntries \in Nat
  /\ WindowMs \in Nat
  /\ MaxClock \in Nat

Status == {"absent", "pending", "completed"}

Entry == [status : Status, binding : Bindings \cup {Nil},
          result : Results \cup {Nil}, updated_at : Nat]

Table == [Keys -> Entry]

Absent == [status |-> "absent", binding |-> Nil, result |-> Nil, updated_at |-> 0]

freshState == [k \in Keys |-> Absent]

Present(tab)   == {k \in Keys : tab[k].status # "absent"}
Completed(tab) == {k \in Keys : tab[k].status = "completed"}

\* Mutant of Expired: the cutoff itself counts as expired.
ExpiredAtCutoff(tab, now) ==
  {k \in Completed(tab) : tab[k].updated_at <= now - WindowMs}

Expired(tab, now) == {k \in Completed(tab) : tab[k].updated_at < now - WindowMs}

-----------------------------------------------------------------------------
(***************************************************************************)
(* pruneCompleted walks the completed entries from the oldest updated_at   *)
(* and deletes an entry that is past the window or that is met while the   *)
(* table still holds MaxEntries entries.  The expired ones come first in   *)
(* that order, so what it removes is every expired entry and then the      *)
(* oldest others until the table is below the limit.  Entries with equal   *)
(* timestamps are removed in either order.                                 *)
(***************************************************************************)
Overflow(tab, now) ==
  LET left == Cardinality(Present(tab)) - Cardinality(Expired(tab, now))
      live == Cardinality(Completed(tab)) - Cardinality(Expired(tab, now))
      over == left - MaxEntries + 1
  IN  IF over <= 0 THEN 0 ELSE IF over <= live THEN over ELSE live

\* Mutant of PruneSets: at the limit pending entries make room as well.
PruneSetsAny(tab, now) ==
  {R \in SUBSET Present(tab) :
     Cardinality(R) = IF Cardinality(Present(tab)) >= MaxEntries
                        THEN Cardinality(Present(tab)) - MaxEntries + 1 ELSE 0}

PruneSets(tab, now) ==
  {R \in SUBSET Completed(tab) :
     /\ Expired(tab, now) \subseteq R
     /\ Cardinality(R) = Cardinality(Expired(tab, now)) + Overflow(tab, now)
     /\ \A gone \in R, kept \in Completed(tab) \ R :
          tab[gone].updated_at <= tab[kept].updated_at}

Without(tab, R) == [k \in Keys |-> IF k \in R THEN Absent ELSE tab[k]]

\* Mutants of Decision: a pending key is taken over; the binding is not compared.
DecisionTakesOver(tab, k, b) ==
  CASE tab[k].status # "absent" /\ tab[k].binding # b -> "binding-mismatch"
    [] tab[k].status = "completed" /\ tab[k].binding = b -> "replay"
    [] OTHER -> "owner"

DecisionUnbound(tab, k, b) ==
  CASE tab[k].status = "completed" -> "replay"
    [] tab[k].status = "pending" -> "indeterminate"
    [] OTHER -> "owner"

(***************************************************************************)
(* What begin() answers for a key and a binding on the pruned table.       *)
(***************************************************************************)
Decision(tab, k, b) ==
  LET prior == tab[k] IN
  CASE prior.status # "absent" /\ prior.binding # b -> "binding-mismatch"
    [] prior.status = "completed" /\ prior.binding = b -> "replay"
    [] prior.status = "pending" /\ prior.binding = b -> "indeterminate"
    [] prior.status = "absent" /\ Cardinality(Present(tab)) >= MaxEntries -> "full"
    [] OTHER -> "owner"

\* begin() as owner: the entry it reserves before it persists the table.
Reserve(tab, k, b, now) ==
  [tab EXCEPT ![k] = [status |-> "pending", binding |-> b, result |-> Nil,
                      updated_at |-> now]]

\* complete(): the guard that throws, and the entry it stores.
CanComplete(tab, k, b) == tab[k].status # "absent" /\ tab[k].binding = b

Store(tab, k, b, r, now) ==
  [tab EXCEPT ![k] = [status |-> "completed", binding |-> b, result |-> r,
                      updated_at |-> now]]
=============================================================================
