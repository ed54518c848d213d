--------------------------- MODULE SpendingPromise ---------------------------
(***************************************************************************)
(* What the ledger promises about each of its lines, without reservations, *)
(* records or statuses: an amount is held only while the limit covers it   *)
(* on top of everything spent and held, and is spent, or given back, only  *)
(* out of what is held.                                                    *)
(***************************************************************************)
EXTENDS Integers

CONSTANTS Lines, Limit, Holdings, Amounts

VARIABLES spent, held

Init ==
  /\ spent = [l \in Lines |-> 0]
  /\ held = [l \in Lines |-> 0]

Add(f, L, n) == [l \in Lines |-> IF l \in L THEN f[l] + n ELSE f[l]]

Hold(L, n) ==
  /\ \A l \in L : spent[l] + held[l] + n <= Limit[l]
  /\ held' = Add(held, L, n)
  /\ UNCHANGED spent

Spend(L, n) ==
  /\ \A l \in L : n <= held[l]
  /\ held' = Add(held, L, -n)
  /\ spent' = Add(spent, L, n)

GiveBack(L, n) ==
  /\ \A l \in L : n <= held[l]
  /\ held' = Add(held, L, -n)
  /\ UNCHANGED spent

Next == \E L \in Holdings, n \in Amounts : Hold(L, n) \/ Spend(L, n) \/ GiveBack(L, n)

Spec == Init /\ [][Next]_<<spent, held>>

=============================================================================
