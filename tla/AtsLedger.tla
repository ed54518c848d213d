------------------------------ MODULE AtsLedger ------------------------------
(***************************************************************************)
(* The ATS ledger: budgets and quotas ("lines"), and the reservations that *)
(* hold capacity on them between the request for an action and its         *)
(* settlement (backend/ats/service.ts).                                    *)
(*                                                                         *)
(* A monetary reservation holds one budget; a resource reservation holds a *)
(* budget and a quota by the same quantity.  The code treats a line the    *)
(* same way in both cases, so one set of actions covers the monetary and   *)
(* the resource operations.  Amounts are whole cents (the code keeps money *)
(* as a string with two decimals) or whole units.                          *)
(*                                                                         *)
(* Every operation reads its records, checks, then writes the reservation  *)
(* first, the budget second and the quota last, each write being durable   *)
(* on its own.  The parameter W of an action is the set of lines written   *)
(* before the process stops: all of them, or a proper prefix when the      *)
(* process dies between two writes.                                        *)
(***************************************************************************)
EXTENDS Integers, FiniteSets

CONSTANTS
  Budgets,      \* monetary and resource budgets
  Quotas,       \* resource quotas
  Limit,        \* Limit[l]: limitAmount, limitQuantity or maxQuantity of line l
  Reservations, \* reservation identifiers, "resv-<intentId>"
  Holdings,     \* the sets of lines a reservation may be made on
  MaxAmount     \* the largest amount of one reservation

Lines == Budgets \cup Quotas
Amounts == 1..MaxAmount

ASSUME LinesAssumption ==
  /\ Budgets \cap Quotas = {}
  /\ Limit \in [Lines -> Nat \ {0}]
  /\ Holdings \subseteq SUBSET Lines

ASSUME ReservationsAssumption == IsFiniteSet(Reservations)

ASSUME AmountAssumption == MaxAmount \in Nat

VARIABLES
  consumed,     \* consumedAmount, consumedQuantity, usedQuantity
  reserved,     \* reservedAmount, reservedQuantity
  available,    \* availableAmount, availableQuantity (a quota stores none)
  lineStatus,   \* status of the line
  reservation   \* the reservation records

vars == <<consumed, reserved, available, lineStatus, reservation>>

None == [state |-> "none"]
ReservationRecord ==
  [holding : Holdings, amount : Amounts,
   state : {"reserved", "settled", "released"}]

Init ==
  /\ consumed = [l \in Lines |-> 0]
  /\ reserved = [l \in Lines |-> 0]
  /\ available = [b \in Budgets |-> Limit[b]]
  /\ lineStatus = [l \in Lines |-> "active"]
  /\ reservation = [r \in Reservations |-> None]

-----------------------------------------------------------------------------

Floor0(n) == IF n < 0 THEN 0 ELSE n

\* What a line would have left with the given consumed and reserved amounts.
Left(l, used, held) == Limit[l] - used[l] - held[l]

\* Wrong: what is held may become negative.
PutLinesUnfloored(W, used, held) ==
  /\ consumed' = [l \in Lines |-> IF l \in W THEN used[l] ELSE consumed[l]]
  /\ reserved' = [l \in Lines |-> IF l \in W THEN held[l] ELSE reserved[l]]
  /\ available' = [b \in Budgets |->
       IF b \in W THEN Floor0(Left(b, used, held)) ELSE available[b]]

\* The lines of W are written with their new figures, the others keep theirs.
PutLines(W, used, held) ==
  /\ consumed' = [l \in Lines |-> IF l \in W THEN used[l] ELSE consumed[l]]
  /\ reserved' = [l \in Lines |-> IF l \in W THEN Floor0(held[l]) ELSE reserved[l]]
  /\ available' = [b \in Budgets |->
       IF b \in W THEN Floor0(Left(b, used, held)) ELSE available[b]]

\* A line that has nothing left becomes "exhausted"; otherwise it keeps its status.
ExhaustLines(W, used, held) ==
  lineStatus' = [l \in Lines |->
    IF l \in W /\ Left(l, used, held) = 0 THEN "exhausted" ELSE lineStatus[l]]

PutState(r, s) == reservation' = [reservation EXCEPT ![r].state = s]

Shift(f, L, n) == [l \in Lines |-> IF l \in L THEN f[l] + n ELSE f[l]]

-----------------------------------------------------------------------------

\* Wrong: checks the amount against what is consumed only.
ReserveIgnoringHolds(r, L, n, W) ==
  LET held == Shift(reserved, L, n)
  IN  /\ \A l \in L : consumed[l] + n <= Limit[l]
      /\ reservation' = [reservation EXCEPT ![r] =
           [holding |-> L, amount |-> n, state |-> "reserved"]]
      /\ PutLines(W, consumed, held)
      /\ ExhaustLines(W, consumed, held)

\* Wrong: checks the amount without what is asked for now (off by one request).
ReserveUncounted(r, L, n, W) ==
  LET held == Shift(reserved, L, n)
  IN  /\ \A l \in L : Left(l, consumed, reserved) > 0
      /\ reservation' = [reservation EXCEPT ![r] =
           [holding |-> L, amount |-> n, state |-> "reserved"]]
      /\ PutLines(W, consumed, held)
      /\ ExhaustLines(W, consumed, held)

\* reserveMonetaryBudget / reserveResourceCapacity.  The call does not look at
\* an earlier record of the same reservation: a new request replaces it.
Reserve(r, L, n, W) ==
  LET held == Shift(reserved, L, n)
  IN  /\ \A l \in L : Left(l, consumed, held) >= 0
      /\ reservation' = [reservation EXCEPT ![r] =
           [holding |-> L, amount |-> n, state |-> "reserved"]]
      /\ PutLines(W, consumed, held)
      /\ ExhaustLines(W, consumed, held)

\* Wrong: forgets the quota.
SettleBudgetsOnly(r, W) ==
  LET L == reservation[r].holding
      n == reservation[r].amount
      used == Shift(consumed, L, n)
      held == Shift(reserved, L, -n)
  IN  /\ reservation[r].state = "reserved"
      /\ PutState(r, "settled")
      /\ PutLines(W \cap Budgets, used, held)
      /\ ExhaustLines(W \cap Budgets, used, held)

\* Wrong: writes the lines first and the reservation last.
SettleLinesFirst(r, W) ==
  LET L == reservation[r].holding
      n == reservation[r].amount
      used == Shift(consumed, L, n)
      held == Shift(reserved, L, -n)
  IN  /\ reservation[r].state = "reserved"
      /\ IF W = L THEN PutState(r, "settled") ELSE UNCHANGED reservation
      /\ PutLines(W, used, held)
      /\ ExhaustLines(W, used, held)

\* settleMonetaryReservation / settleResourceReservation.
Settle(r, W) ==
  LET L == reservation[r].holding
      n == reservation[r].amount
      used == Shift(consumed, L, n)
      held == Shift(reserved, L, -n)
  IN  /\ reservation[r].state = "reserved"
      /\ PutState(r, "settled")
      /\ PutLines(W, used, held)
      /\ ExhaustLines(W, used, held)

\* Wrong: the reservation stays active and can be released or settled again.
ReleaseUnmarked(r, W) ==
  LET held == Shift(reserved, reservation[r].holding, -reservation[r].amount)
  IN  /\ reservation[r].state = "reserved"
      /\ UNCHANGED reservation
      /\ PutLines(W, consumed, held)
      /\ lineStatus' = [l \in Lines |->
           IF l \in W THEN "active" ELSE lineStatus[l]]

\* releaseMonetaryReservation / releaseResourceReservation.
Release(r, W) ==
  LET held == Shift(reserved, reservation[r].holding, -reservation[r].amount)
  IN  /\ reservation[r].state = "reserved"
      /\ PutState(r, "released")
      /\ PutLines(W, consumed, held)
      /\ lineStatus' = [l \in Lines |->
           IF l \in W THEN "active" ELSE lineStatus[l]]

\* The lines a write sequence has reached when the process dies: none, or the
\* budgets and not yet the quotas.
TornWrites(L) == {W \in {{}, L \cap Budgets} : W # L}

-----------------------------------------------------------------------------

Active == {r \in Reservations : reservation[r].state = "reserved"}

\* The reservation life cycle: every call runs to its end.
NextReserve == \E r \in Reservations, L \in Holdings, n \in Amounts : Reserve(r, L, n, L)
NextSettle  == \E r \in Active : Settle(r, reservation[r].holding)
NextRelease == \E r \in Active : Release(r, reservation[r].holding)

Next == NextReserve \/ NextSettle \/ NextRelease

Spec == Init /\ [][Next]_vars

\* The life cycle when the process may die inside a call, with one request per
\* reservation.
Reached(L) == {L} \cup TornWrites(L)

ReserveOrDie ==
  \E r \in Reservations, L \in Holdings, n \in Amounts :
    /\ reservation[r] = None
    /\ \E W \in Reached(L) : Reserve(r, L, n, W)
SettleOrDie  == \E r \in Active : \E W \in Reached(reservation[r].holding) : Settle(r, W)
ReleaseOrDie == \E r \in Active : \E W \in Reached(reservation[r].holding) : Release(r, W)

CrashSpec == Init /\ [][ReserveOrDie \/ SettleOrDie \/ ReleaseOrDie]_vars

-----------------------------------------------------------------------------

TypeOK ==
  /\ consumed \in [Lines -> Nat]
  /\ reserved \in [Lines -> Nat]
  /\ available \in [Budgets -> Nat]
  /\ lineStatus \in [Lines -> {"active", "exhausted"}]
  /\ reservation \in [Reservations -> ReservationRecord \cup {None}]

\* What is spent and what is held never exceed the limit of a line, whatever
\* calls follow one another (ats/service.ts:196-200, 387-396).
NoOverspend == \A l \in Lines : consumed[l] + reserved[l] <= Limit[l]

\* One element for each unit that a reservation in the given state has on line l.
UnitsOn(l, state) ==
  {u \in Reservations \X Amounts :
     /\ reservation[u[1]].state = state
     /\ l \in reservation[u[1]].holding
     /\ u[2] <= reservation[u[1]].amount}

\* The reserved amount of a line covers all its active reservations, also when
\* requests are repeated: no settlement can eat the hold of another reservation.
HoldsCovered == \A l \in Lines : Cardinality(UnitsOn(l, "reserved")) <= reserved[l]

\* The stored available amount is what the other figures of the budget leave:
\* the figure that AFAL shows to agents is never stale.
AvailableAgrees ==
  \A b \in Budgets : available[b] = Limit[b] - consumed[b] - reserved[b]

\* A line is marked exhausted exactly as long as it has nothing left.
ExhaustedAgrees ==
  \A l \in Lines : lineStatus[l] = "exhausted" <=> consumed[l] + reserved[l] = Limit[l]

\* A budget and a quota that are only ever held together move in step.
HeldTogether(b, q) == \A L \in Holdings : b \in L <=> q \in L

QuotaFollowsBudget ==
  \A b \in Budgets, q \in Quotas : HeldTogether(b, q) =>
    consumed[b] = consumed[q] /\ reserved[b] = reserved[q]

\* The figures that are stored beside one another, the available amount and the
\* status of a line, a budget and its quota, never drift apart, whatever holds are
\* replaced, settled and given back (ats/service.ts:213-224, 402-430, 471-492).
FiguresAgree == AvailableAgrees /\ ExhaustedAgrees /\ QuotaFollowsBudget

\* With one request per reservation, a line is charged at most once for every
\* settled reservation, even if the process dies inside the settlement and the
\* caller retries: the reservation is written before the budget (ats/service.ts:264-265).
ChargedAtMostOnce ==
  \A l \in Lines : consumed[l] <= Cardinality(UnitsOn(l, "settled"))

\* The ledger keeps the promise of SpendingPromise: capacity is held before it
\* is spent, and what is held is spent or given back, within the limit.
Promise == INSTANCE SpendingPromise WITH spent <- consumed, held <- reserved

KeepsPromise == Promise!Spec

=============================================================================
