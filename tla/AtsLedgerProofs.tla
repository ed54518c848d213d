--------------------------- MODULE AtsLedgerProofs ---------------------------
(***************************************************************************)
(* Proofs about AtsLedger, for any finite set of reservations, any lines   *)
(* and limits and any bound on the amounts.                                *)
(***************************************************************************)
EXTENDS AtsLedger, FiniteSetTheorems, TLAPS

USE LinesAssumption, AmountAssumption

-----------------------------------------------------------------------------
(* Counting the units that reservations hold. *)

\* The units of one reservation of amount n on a line it holds are n.
LEMMA BlockCardinality ==
  ASSUME NEW r, NEW n \in Nat
  PROVE  /\ IsFiniteSet({r} \X (1..n))
         /\ Cardinality({r} \X (1..n)) = n
<1>1. IsFiniteSet({r}) /\ Cardinality({r}) = 1
  BY FS_Singleton
<1>2. IsFiniteSet(1..n) /\ Cardinality(1..n) = n
  BY FS_Interval
<1>3. /\ IsFiniteSet({r} \X (1..n))
      /\ Cardinality({r} \X (1..n)) = Cardinality({r}) * Cardinality(1..n)
  BY <1>1, <1>2, FS_Product
<1> QED
  BY <1>1, <1>2, <1>3

\* The units on a line form a finite set.
LEMMA UnitsFinite ==
  ASSUME NEW l, NEW state
  PROVE  /\ IsFiniteSet(UnitsOn(l, state))
         /\ Cardinality(UnitsOn(l, state)) \in Nat
<1>1. IsFiniteSet(Amounts)
  BY FS_Interval DEF Amounts
<1>2. IsFiniteSet(Reservations \X Amounts)
  BY <1>1, ReservationsAssumption, FS_Product
<1>3. UnitsOn(l, state) \in SUBSET (Reservations \X Amounts)
  BY DEF UnitsOn
<1> QED
  BY <1>2, <1>3, FS_Subset, FS_CardinalityType

\* A reservation adds at most its amount to the units of each line it holds and
\* none to the others, also when it replaces a record of the same identifier.
LEMMA ReserveUnits ==
  ASSUME TypeOK,
         NEW r \in Reservations, NEW L \in Holdings, NEW n \in Amounts,
         reservation' = [reservation EXCEPT ![r] =
           [holding |-> L, amount |-> n, state |-> "reserved"]],
         NEW l \in Lines
  PROVE  /\ Cardinality(UnitsOn(l, "reserved")') \in Nat
         /\ Cardinality(UnitsOn(l, "reserved")') <=
              Cardinality(UnitsOn(l, "reserved")) + (IF l \in L THEN n ELSE 0)
<1> DEFINE U == UnitsOn(l, "reserved")
           Block == {r} \X (1..n)
<1>1. n \in Nat
  BY DEF Amounts
<1>2. IsFiniteSet(U) /\ Cardinality(U) \in Nat
  BY UnitsFinite
<1>3. IsFiniteSet(Block) /\ Cardinality(Block) = n
  BY <1>1, BlockCardinality
<1>4. CASE l \in L
  <2>1. U' \subseteq U \cup Block
    <3> SUFFICES ASSUME NEW u \in U', u[1] # r PROVE u \in U
      BY DEF UnitsOn, TypeOK, Amounts
    <3> QED
      BY DEF UnitsOn, TypeOK
  <2>2. /\ IsFiniteSet(U \cup Block)
        /\ Cardinality(U \cup Block) = Cardinality(U) + n - Cardinality(U \cap Block)
    BY <1>2, <1>3, FS_Union
  <2>3. Cardinality(U \cap Block) \in Nat
    BY <1>2, FS_Intersection, FS_CardinalityType
  <2>4. Cardinality(U \cup Block) <= Cardinality(U) + n
    BY <1>1, <1>2, <2>2, <2>3
  <2>5. IsFiniteSet(U') /\ Cardinality(U') <= Cardinality(U \cup Block)
    BY <2>1, <2>2, FS_Subset
  <2>6. Cardinality(U') \in Nat /\ Cardinality(U \cup Block) \in Nat
    BY <2>2, <2>5, FS_CardinalityType
  <2> QED
    BY <1>1, <1>2, <1>4, <2>4, <2>5, <2>6
<1>5. CASE l \notin L
  <2>1. U' \subseteq U
    BY <1>5 DEF UnitsOn, TypeOK
  <2>2. IsFiniteSet(U') /\ Cardinality(U') <= Cardinality(U)
    BY <1>2, <2>1, FS_Subset
  <2>3. Cardinality(U') \in Nat
    BY <2>2, FS_CardinalityType
  <2> QED
    BY <1>2, <1>5, <2>2, <2>3
<1> QED
  BY <1>4, <1>5

\* Closing an active reservation (settling or releasing it) takes exactly its
\* amount off the units of each line it holds and leaves the others alone.
LEMMA CloseUnits ==
  ASSUME TypeOK,
         NEW r \in Active, NEW s \in {"settled", "released"},
         PutState(r, s),
         NEW l \in Lines
  PROVE  /\ Cardinality(UnitsOn(l, "reserved")') \in Nat
         /\ Cardinality(UnitsOn(l, "reserved")') =
              Cardinality(UnitsOn(l, "reserved"))
                - (IF l \in reservation[r].holding THEN reservation[r].amount ELSE 0)
<1> DEFINE U == UnitsOn(l, "reserved")
           n == reservation[r].amount
           Block == {r} \X (1..n)
<1>1. /\ r \in Reservations
      /\ reservation[r] \in ReservationRecord
      /\ n \in Amounts
      /\ reservation[r].state = "reserved"
  BY DEF Active, TypeOK, None, ReservationRecord
<1>2. n \in Nat
  BY <1>1 DEF Amounts
<1>3. IsFiniteSet(U) /\ Cardinality(U) \in Nat
  BY UnitsFinite
<1>4. /\ reservation'[r].state # "reserved"
      /\ \A q \in Reservations : q # r => reservation'[q] = reservation[q]
  BY <1>1 DEF PutState, TypeOK, ReservationRecord
<1>5. CASE l \in reservation[r].holding
  <2>1. Block \subseteq U
    BY <1>1, <1>5 DEF UnitsOn, Amounts
  <2>2. U' = U \ Block
    <3>1. ASSUME NEW u \in Reservations \X Amounts
          PROVE  u \in U' <=> u \in U /\ u \notin Block
      <4>1. CASE u[1] = r
        BY <1>1, <1>4, <4>1 DEF UnitsOn, Amounts
      <4>2. CASE u[1] # r
        BY <1>4, <4>2 DEF UnitsOn
      <4> QED
        BY <4>1, <4>2
    <3> QED
      BY <3>1 DEF UnitsOn
  <2>3. IsFiniteSet(Block) /\ Cardinality(Block) = n
    BY <1>2, BlockCardinality
  <2>4. U \cap Block = Block
    BY <2>1
  <2>5. /\ IsFiniteSet(U \ Block)
        /\ Cardinality(U \ Block) = Cardinality(U) - Cardinality(U \cap Block)
    BY <1>3, FS_Difference
  <2>6. Cardinality(U \ Block) = Cardinality(U) - n
    BY <2>3, <2>4, <2>5
  <2> QED
    BY <1>5, <2>2, <2>5, <2>6, FS_CardinalityType
<1>6. CASE l \notin reservation[r].holding
  <2>1. U' = U
    <3>1. ASSUME NEW u \in Reservations \X Amounts
          PROVE  u \in U' <=> u \in U
      <4>1. CASE u[1] = r
        BY <1>4, <1>6, <4>1 DEF UnitsOn
      <4>2. CASE u[1] # r
        BY <1>4, <4>2 DEF UnitsOn
      <4> QED
        BY <4>1, <4>2
    <3> QED
      BY <3>1 DEF UnitsOn
  <2> QED
    BY <1>3, <1>6, <2>1
<1> QED
  BY <1>5, <1>6

\* Settling an active reservation adds exactly its amount to the settled units
\* of each line it holds.
LEMMA SettledUnits ==
  ASSUME TypeOK,
         NEW r \in Active,
         PutState(r, "settled"),
         NEW l \in Lines
  PROVE  Cardinality(UnitsOn(l, "settled")') =
           Cardinality(UnitsOn(l, "settled"))
             + (IF l \in reservation[r].holding THEN reservation[r].amount ELSE 0)
<1> DEFINE U == UnitsOn(l, "settled")
           n == reservation[r].amount
           Block == {r} \X (1..n)
<1>1. /\ r \in Reservations
      /\ reservation[r] \in ReservationRecord
      /\ n \in Amounts
      /\ reservation[r].state = "reserved"
  BY DEF Active, TypeOK, None, ReservationRecord
<1>2. n \in Nat
  BY <1>1 DEF Amounts
<1>3. IsFiniteSet(U) /\ Cardinality(U) \in Nat
  BY UnitsFinite
<1>4. /\ reservation'[r] = [reservation[r] EXCEPT !.state = "settled"]
      /\ \A q \in Reservations : q # r => reservation'[q] = reservation[q]
  BY <1>1 DEF PutState, TypeOK
<1>5. /\ reservation'[r].state = "settled"
      /\ reservation'[r].holding = reservation[r].holding
      /\ reservation'[r].amount = n
  BY <1>1, <1>4 DEF ReservationRecord
<1>6. CASE l \in reservation[r].holding
  <2>1. U' = U \cup Block
    <3>1. ASSUME NEW u \in Reservations \X Amounts
          PROVE  u \in U' <=> u \in U \/ u \in Block
      <4>1. CASE u[1] = r
        BY <1>1, <1>5, <1>6, <4>1 DEF UnitsOn, Amounts
      <4>2. CASE u[1] # r
        BY <1>4, <4>2 DEF UnitsOn
      <4> QED
        BY <4>1, <4>2
    <3>2. Block \subseteq Reservations \X Amounts
      BY <1>1 DEF Amounts
    <3> QED
      BY <3>1, <3>2 DEF UnitsOn
  <2>2. IsFiniteSet(Block) /\ Cardinality(Block) = n
    BY <1>2, BlockCardinality
  <2>3. U \cap Block = {}
    BY <1>1 DEF UnitsOn
  <2>4. Cardinality(U \cup Block) =
          Cardinality(U) + Cardinality(Block) - Cardinality(U \cap Block)
    BY <1>3, <2>2, FS_Union
  <2>5. Cardinality(U \cap Block) = 0
    BY <2>3, FS_EmptySet
  <2>6. Cardinality(U \cup Block) = Cardinality(U) + n
    BY <1>2, <1>3, <2>2, <2>4, <2>5
  <2> QED
    BY <1>6, <2>1, <2>6
<1>7. CASE l \notin reservation[r].holding
  <2>1. U' = U
    <3>1. ASSUME NEW u \in Reservations \X Amounts
          PROVE  u \in U' <=> u \in U
      <4>1. CASE u[1] = r
        BY <1>1, <1>5, <1>7, <4>1 DEF UnitsOn
      <4>2. CASE u[1] # r
        BY <1>4, <4>2 DEF UnitsOn
      <4> QED
        BY <4>1, <4>2
    <3> QED
      BY <3>1 DEF UnitsOn
  <2> QED
    BY <1>3, <1>7, <2>1
<1> QED
  BY <1>6, <1>7

-----------------------------------------------------------------------------
(* Every operation, complete or torn, keeps the types. *)

\* Writing any set of lines keeps their figures natural numbers.
LEMMA PutLinesType ==
  ASSUME TypeOK,
         NEW W, NEW used \in [Lines -> Nat], NEW held \in [Lines -> Int],
         PutLines(W, used, held)
  PROVE  /\ consumed' \in [Lines -> Nat]
         /\ reserved' \in [Lines -> Nat]
         /\ available' \in [Budgets -> Nat]
<1>1. \A i \in Int : Floor0(i) \in Nat
  BY DEF Floor0
<1>2. \A b \in Budgets : Left(b, used, held) \in Int
  BY DEF Left, Lines
<1> QED
  BY <1>1, <1>2 DEF PutLines, TypeOK, Lines

\* Shifting figures by an amount yields integers on every line.
LEMMA ShiftType ==
  ASSUME NEW f \in [Lines -> Nat], NEW L, NEW n \in Nat
  PROVE  /\ Shift(f, L, n) \in [Lines -> Nat]
         /\ Shift(f, L, -n) \in [Lines -> Int]
BY DEF Shift

\* A reservation, complete or torn, keeps the types.
LEMMA ReserveType ==
  ASSUME TypeOK,
         NEW r \in Reservations, NEW L \in Holdings, NEW n \in Amounts, NEW W,
         Reserve(r, L, n, W)
  PROVE  TypeOK'
<1>1. n \in Nat
  BY DEF Amounts
<1>2. /\ consumed \in [Lines -> Nat]
      /\ Shift(reserved, L, n) \in [Lines -> Nat]
  BY <1>1, ShiftType DEF TypeOK
<1>3. Shift(reserved, L, n) \in [Lines -> Int]
  BY <1>2
<1>4. PutLines(W, consumed, Shift(reserved, L, n))
  BY DEF Reserve
<1>5. /\ consumed' \in [Lines -> Nat]
      /\ reserved' \in [Lines -> Nat]
      /\ available' \in [Budgets -> Nat]
  BY <1>2, <1>3, <1>4, PutLinesType
<1>6. lineStatus' \in [Lines -> {"active", "exhausted"}]
  BY DEF Reserve, ExhaustLines, TypeOK
<1>7. reservation' \in [Reservations -> ReservationRecord \cup {None}]
  BY DEF Reserve, TypeOK, ReservationRecord
<1> QED
  BY <1>5, <1>6, <1>7 DEF TypeOK

\* An active reservation has a full record: known lines and a natural amount.
LEMMA ActiveRecord ==
  ASSUME TypeOK, NEW r \in Active
  PROVE  /\ r \in Reservations
         /\ reservation[r] \in ReservationRecord
         /\ reservation[r].holding \in Holdings
         /\ reservation[r].holding \subseteq Lines
         /\ reservation[r].amount \in Amounts
         /\ reservation[r].amount \in Nat
         /\ reservation[r].state = "reserved"
BY DEF Active, TypeOK, None, ReservationRecord, Amounts

\* Changing the state of an active reservation keeps its record well formed.
LEMMA PutStateType ==
  ASSUME TypeOK, NEW r \in Active, NEW s \in {"settled", "released"}, PutState(r, s)
  PROVE  reservation' \in [Reservations -> ReservationRecord \cup {None}]
BY ActiveRecord DEF PutState, TypeOK, ReservationRecord

\* A settlement, complete or torn, keeps the types.
LEMMA SettleType ==
  ASSUME TypeOK, NEW r \in Active, NEW W, Settle(r, W)
  PROVE  TypeOK'
<1> DEFINE L == reservation[r].holding
           n == reservation[r].amount
<1>1. n \in Nat
  BY ActiveRecord
<1>2. /\ Shift(consumed, L, n) \in [Lines -> Nat]
      /\ Shift(reserved, L, -n) \in [Lines -> Int]
  BY <1>1, ShiftType DEF TypeOK
<1>3. PutLines(W, Shift(consumed, L, n), Shift(reserved, L, -n))
  BY DEF Settle
<1>4. /\ consumed' \in [Lines -> Nat]
      /\ reserved' \in [Lines -> Nat]
      /\ available' \in [Budgets -> Nat]
  BY <1>2, <1>3, PutLinesType
<1>5. lineStatus' \in [Lines -> {"active", "exhausted"}]
  BY DEF Settle, ExhaustLines, TypeOK
<1>6. reservation' \in [Reservations -> ReservationRecord \cup {None}]
  BY PutStateType DEF Settle
<1> QED
  BY <1>4, <1>5, <1>6 DEF TypeOK

\* A release, complete or torn, keeps the types.
LEMMA ReleaseType ==
  ASSUME TypeOK, NEW r \in Active, NEW W, Release(r, W)
  PROVE  TypeOK'
<1> DEFINE L == reservation[r].holding
           n == reservation[r].amount
<1>1. n \in Nat
  BY ActiveRecord
<1>2. /\ consumed \in [Lines -> Nat]
      /\ Shift(reserved, L, -n) \in [Lines -> Int]
  BY <1>1, ShiftType DEF TypeOK
<1>3. PutLines(W, consumed, Shift(reserved, L, -n))
  BY DEF Release
<1>4. /\ consumed' \in [Lines -> Nat]
      /\ reserved' \in [Lines -> Nat]
      /\ available' \in [Budgets -> Nat]
  BY <1>2, <1>3, PutLinesType
<1>5. lineStatus' \in [Lines -> {"active", "exhausted"}]
  BY DEF Release, TypeOK
<1>6. reservation' \in [Reservations -> ReservationRecord \cup {None}]
  BY PutStateType DEF Release
<1> QED
  BY <1>4, <1>5, <1>6 DEF TypeOK

\* The seeded ledger is well typed.
LEMMA InitType == Init => TypeOK
BY DEF Init, TypeOK, Lines

\* Every state of the ledger is well typed, also when the process dies between
\* the writes of an operation: no figure becomes negative (ats/service.ts:259, 302).
THEOREM CrashTypeCorrect == CrashSpec => []TypeOK
<1>1. TypeOK /\ [ReserveOrDie \/ SettleOrDie \/ ReleaseOrDie]_vars => TypeOK'
  <2> SUFFICES ASSUME TypeOK, [ReserveOrDie \/ SettleOrDie \/ ReleaseOrDie]_vars
               PROVE  TypeOK'
    OBVIOUS
  <2>1. CASE ReserveOrDie
    BY <2>1, ReserveType DEF ReserveOrDie
  <2>2. CASE SettleOrDie
    BY <2>2, SettleType DEF SettleOrDie
  <2>3. CASE ReleaseOrDie
    BY <2>3, ReleaseType DEF ReleaseOrDie
  <2>4. CASE UNCHANGED vars
    BY <2>4 DEF vars, TypeOK
  <2> QED
    BY <2>1, <2>2, <2>3, <2>4
<1> QED
  BY InitType, <1>1, PTL DEF CrashSpec

-----------------------------------------------------------------------------
(* A settlement is charged at most once, crash or not. *)

\* Only a settlement charges a line, and by no more than the amount it settles.
LEMMA SettleCharge ==
  ASSUME TypeOK, NEW r \in Active, NEW W \in Reached(reservation[r].holding),
         Settle(r, W), NEW l \in Lines
  PROVE  consumed'[l] <= consumed[l] +
           (IF l \in reservation[r].holding THEN reservation[r].amount ELSE 0)
<1> DEFINE L == reservation[r].holding
           n == reservation[r].amount
<1>1. n \in Nat /\ consumed[l] \in Nat
  BY ActiveRecord DEF TypeOK
<1>2. W \subseteq L
  BY DEF Reached, TornWrites
<1>3. consumed'[l] = IF l \in W THEN Shift(consumed, L, n)[l] ELSE consumed[l]
  BY DEF Settle, PutLines
<1>4. Shift(consumed, L, n)[l] = IF l \in L THEN consumed[l] + n ELSE consumed[l]
  BY DEF Shift
<1> QED
  BY <1>1, <1>2, <1>3, <1>4

\* An operation that leaves the settled reservations and the consumed amounts
\* alone keeps ChargedAtMostOnce.
LEMMA UnchargedStep ==
  ASSUME TypeOK, ChargedAtMostOnce,
         consumed' = consumed,
         \A q \in Reservations :
           reservation'[q] = reservation[q]
             \/ (reservation'[q].state # "settled" /\ reservation[q].state # "settled")
  PROVE  ChargedAtMostOnce'
<1> SUFFICES ASSUME NEW l \in Lines
             PROVE  UnitsOn(l, "settled")' = UnitsOn(l, "settled")
  BY DEF ChargedAtMostOnce
<1>1. ASSUME NEW u \in Reservations \X Amounts
      PROVE  u \in UnitsOn(l, "settled")' <=> u \in UnitsOn(l, "settled")
  BY DEF UnitsOn
<1> QED
  BY <1>1 DEF UnitsOn

\* An operation that writes the old consumed amounts leaves them unchanged.
LEMMA UnchangedConsumed ==
  ASSUME TypeOK, NEW W, NEW held, PutLines(W, consumed, held)
  PROVE  consumed' = consumed
BY DEF PutLines, TypeOK

\* A line is charged at most once for each settled reservation, also when the
\* process dies inside a settlement and the settlement is retried: the reservation
\* is written first (ats/service.ts:264-265, 486-488).
THEOREM ChargesOnce == CrashSpec => []ChargedAtMostOnce
<1>1. Init => ChargedAtMostOnce
  <2> SUFFICES ASSUME Init, NEW l \in Lines
               PROVE  consumed[l] <= Cardinality(UnitsOn(l, "settled"))
    BY DEF ChargedAtMostOnce
  <2> QED
    BY UnitsFinite DEF Init
<1>2. TypeOK /\ ChargedAtMostOnce /\ [ReserveOrDie \/ SettleOrDie \/ ReleaseOrDie]_vars
        => ChargedAtMostOnce'
  <2> SUFFICES ASSUME TypeOK, ChargedAtMostOnce,
                      [ReserveOrDie \/ SettleOrDie \/ ReleaseOrDie]_vars
               PROVE  ChargedAtMostOnce'
    OBVIOUS
  <2>1. CASE ReserveOrDie
    <3>1. PICK r \in Reservations, L \in Holdings, n \in Amounts :
            reservation[r] = None /\ \E W \in Reached(L) : Reserve(r, L, n, W)
      BY <2>1 DEF ReserveOrDie
    <3>2. consumed' = consumed
      BY <3>1, UnchangedConsumed DEF Reserve
    <3>3. /\ reservation'[r].state = "reserved"
          /\ reservation[r].state = "none"
          /\ \A q \in Reservations : q # r => reservation'[q] = reservation[q]
      BY <3>1 DEF Reserve, TypeOK, None
    <3>4. \A q \in Reservations :
            reservation'[q] = reservation[q]
              \/ (reservation'[q].state # "settled" /\ reservation[q].state # "settled")
      BY <3>3
    <3> QED
      BY <3>2, <3>4, UnchargedStep
  <2>2. CASE SettleOrDie
    <3>0. PICK r \in Active : \E W \in Reached(reservation[r].holding) : Settle(r, W)
      BY <2>2 DEF SettleOrDie
    <3>1. PICK W \in Reached(reservation[r].holding) : Settle(r, W)
      BY <3>0
    <3>2. TypeOK'
      BY <3>1, SettleType
    <3> SUFFICES ASSUME NEW l \in Lines
                 PROVE  consumed'[l] <= Cardinality(UnitsOn(l, "settled")')
      BY DEF ChargedAtMostOnce
    <3> DEFINE d == IF l \in reservation[r].holding THEN reservation[r].amount ELSE 0
    <3>3. Cardinality(UnitsOn(l, "settled")') = Cardinality(UnitsOn(l, "settled")) + d
      BY <3>1, SettledUnits DEF Settle
    <3>4. consumed'[l] <= consumed[l] + d
      BY <3>1, SettleCharge
    <3>5. consumed[l] <= Cardinality(UnitsOn(l, "settled"))
      BY DEF ChargedAtMostOnce
    <3>6. /\ d \in Nat
          /\ consumed[l] \in Nat
          /\ consumed'[l] \in Nat
          /\ Cardinality(UnitsOn(l, "settled")) \in Nat
      BY <3>1, <3>2, ActiveRecord, UnitsFinite DEF TypeOK
    <3> HIDE DEF d
    <3> QED
      BY <3>3, <3>4, <3>5, <3>6
  <2>3. CASE ReleaseOrDie
    <3>0. PICK r \in Active : \E W \in Reached(reservation[r].holding) : Release(r, W)
      BY <2>3 DEF ReleaseOrDie
    <3>1. PICK W \in Reached(reservation[r].holding) : Release(r, W)
      BY <3>0
    <3>2. consumed' = consumed
      BY <3>1, UnchangedConsumed DEF Release
    <3>3. /\ reservation'[r].state = "released"
          /\ reservation[r].state = "reserved"
          /\ \A q \in Reservations : q # r => reservation'[q] = reservation[q]
      BY <3>1, ActiveRecord DEF Release, PutState, TypeOK, ReservationRecord
    <3>4. \A q \in Reservations :
            reservation'[q] = reservation[q]
              \/ (reservation'[q].state # "settled" /\ reservation[q].state # "settled")
      BY <3>3
    <3> QED
      BY <3>2, <3>4, UnchargedStep
  <2>4. CASE UNCHANGED vars
    BY <2>4 DEF vars, ChargedAtMostOnce, UnitsOn
  <2> QED
    BY <2>1, <2>2, <2>3, <2>4
<1> QED
  BY CrashTypeCorrect, <1>1, <1>2, PTL DEF CrashSpec

-----------------------------------------------------------------------------
(***************************************************************************)
(* The life cycle keeps every line within its limit.  The limit alone is   *)
(* not inductive: a settlement moves its amount out of the reserved one,   *)
(* and stays within the limit only if that amount is really there.         *)
(***************************************************************************)
IInv ==
  /\ TypeOK
  /\ HoldsCovered
  /\ AvailableAgrees
  /\ NoOverspend
  /\ ExhaustedAgrees

\* The seeded ledger satisfies the inductive invariant.
LEMMA InitIInv == Init => IInv
<1> SUFFICES ASSUME Init PROVE IInv
  OBVIOUS
<1>1. TypeOK
  BY InitType
<1>2. ASSUME NEW l \in Lines
      PROVE  Cardinality(UnitsOn(l, "reserved")) <= reserved[l]
  <2>1. UnitsOn(l, "reserved") = {}
    BY DEF Init, UnitsOn, None
  <2>2. Cardinality(UnitsOn(l, "reserved")) = 0
    BY <2>1, FS_EmptySet
  <2>3. reserved[l] = 0
    BY DEF Init
  <2> QED
    BY <2>2, <2>3
<1>3. AvailableAgrees /\ NoOverspend /\ ExhaustedAgrees
  BY DEF Init, AvailableAgrees, NoOverspend, ExhaustedAgrees, Lines
<1> QED
  BY <1>1, <1>2, <1>3 DEF IInv, HoldsCovered

\* Closing an active reservation finds its amount in the reserved amount of
\* every line it holds, and leaves the other holds covered.
LEMMA CloseCovered ==
  ASSUME TypeOK, HoldsCovered, NEW r \in Active, NEW s \in {"settled", "released"},
         PutState(r, s), NEW l \in Lines
  PROVE  /\ l \in reservation[r].holding => reservation[r].amount <= reserved[l]
         /\ Cardinality(UnitsOn(l, "reserved")')
              <= Shift(reserved, reservation[r].holding, -reservation[r].amount)[l]
<1> DEFINE d == IF l \in reservation[r].holding THEN reservation[r].amount ELSE 0
<1>1. /\ Cardinality(UnitsOn(l, "reserved")') \in Nat
      /\ Cardinality(UnitsOn(l, "reserved")') = Cardinality(UnitsOn(l, "reserved")) - d
  BY CloseUnits
<1>2. /\ Cardinality(UnitsOn(l, "reserved")) <= reserved[l]
      /\ Cardinality(UnitsOn(l, "reserved")) \in Nat
      /\ reserved[l] \in Nat
  BY UnitsFinite DEF HoldsCovered, TypeOK
<1>3. reservation[r].amount \in Nat
  BY ActiveRecord
<1>4. d \in Nat
  BY <1>3
<1>5. Shift(reserved, reservation[r].holding, -reservation[r].amount)[l] = reserved[l] - d
  BY <1>2, <1>3 DEF Shift
<1>6. l \in reservation[r].holding => d = reservation[r].amount
  OBVIOUS
<1> HIDE DEF d
<1> QED
  BY <1>1, <1>2, <1>4, <1>5, <1>6

\* Reserving within the limit keeps the invariant, also when it replaces an
\* earlier record of the same reservation.
LEMMA ReserveIInv ==
  ASSUME IInv, NEW r \in Reservations, NEW L \in Holdings, NEW n \in Amounts,
         Reserve(r, L, n, L)
  PROVE  IInv'
<1> USE DEF IInv
<1>1. TypeOK'
  BY ReserveType
<1>2. n \in Nat \ {0}
  BY DEF Amounts
<1>3. ASSUME NEW l \in Lines
      PROVE  /\ consumed'[l] = consumed[l]
             /\ reserved'[l] = IF l \in L THEN reserved[l] + n ELSE reserved[l]
             /\ l \in L => reserved[l] + n + consumed[l] <= Limit[l]
  <2>1. Shift(reserved, L, n)[l] = IF l \in L THEN reserved[l] + n ELSE reserved[l]
    BY DEF Shift
  <2>2. /\ consumed[l] \in Nat /\ reserved[l] \in Nat /\ Limit[l] \in Nat
    BY DEF TypeOK
  <2>3. l \in L => Limit[l] - consumed[l] - Shift(reserved, L, n)[l] >= 0
    BY DEF Reserve, Left
  <2>4. /\ consumed'[l] = consumed[l]
        /\ reserved'[l] = IF l \in L THEN Floor0(Shift(reserved, L, n)[l]) ELSE reserved[l]
    BY DEF Reserve, PutLines
  <2> QED
    BY <1>2, <2>1, <2>2, <2>3, <2>4 DEF Floor0
<1>4. ASSUME NEW l \in Lines
      PROVE  Cardinality(UnitsOn(l, "reserved")') <= reserved'[l]
  <2>1. /\ Cardinality(UnitsOn(l, "reserved")') \in Nat
        /\ Cardinality(UnitsOn(l, "reserved")') <=
              Cardinality(UnitsOn(l, "reserved")) + (IF l \in L THEN n ELSE 0)
    BY ReserveUnits DEF Reserve
  <2>2. /\ Cardinality(UnitsOn(l, "reserved")) \in Nat
        /\ Cardinality(UnitsOn(l, "reserved")) <= reserved[l]
        /\ reserved[l] \in Nat
    BY UnitsFinite DEF HoldsCovered, TypeOK
  <2> QED
    BY <1>2, <1>3, <2>1, <2>2
<1>5. NoOverspend'
  BY <1>2, <1>3 DEF NoOverspend, TypeOK
<1>6. ASSUME NEW b \in Budgets
      PROVE  available'[b] = Limit[b] - consumed'[b] - reserved'[b]
  <2>1. b \in Lines
    BY DEF Lines
  <2>2. available'[b] = IF b \in L THEN Floor0(Left(b, consumed, Shift(reserved, L, n)))
                                   ELSE available[b]
    BY DEF Reserve, PutLines
  <2>3. Shift(reserved, L, n)[b] = IF b \in L THEN reserved[b] + n ELSE reserved[b]
    BY <2>1 DEF Shift
  <2>4. /\ consumed[b] \in Nat /\ reserved[b] \in Nat /\ Limit[b] \in Nat
    BY <2>1 DEF TypeOK
  <2> QED
    BY <1>2, <1>3, <2>1, <2>2, <2>3, <2>4 DEF Floor0, Left, AvailableAgrees
<1>7. ASSUME NEW l \in Lines
      PROVE  lineStatus'[l] = "exhausted" <=> consumed'[l] + reserved'[l] = Limit[l]
  <2>1. Shift(reserved, L, n)[l] = IF l \in L THEN reserved[l] + n ELSE reserved[l]
    BY DEF Shift
  <2>2. /\ consumed[l] \in Nat /\ reserved[l] \in Nat /\ Limit[l] \in Nat
    BY DEF TypeOK
  <2>3. lineStatus'[l] = IF l \in L /\ Left(l, consumed, Shift(reserved, L, n)) = 0
                           THEN "exhausted" ELSE lineStatus[l]
    BY DEF Reserve, ExhaustLines
  <2>4. lineStatus[l] = "exhausted" <=> consumed[l] + reserved[l] = Limit[l]
    BY DEF ExhaustedAgrees
  <2>5. Left(l, consumed, Shift(reserved, L, n))
          = Limit[l] - consumed[l] - Shift(reserved, L, n)[l]
    BY DEF Left
  <2>6. CASE l \in L
    <3>1. lineStatus[l] # "exhausted"
      BY <1>2, <1>3, <2>2, <2>4, <2>6
    <3>2. lineStatus'[l] = "exhausted" <=> Limit[l] - consumed[l] - (reserved[l] + n) = 0
      BY <2>1, <2>3, <2>5, <2>6, <3>1
    <3> QED
      BY <1>2, <1>3, <2>2, <2>6, <3>2
  <2>7. CASE l \notin L
    BY <1>3, <2>3, <2>4, <2>7
  <2> QED
    BY <2>6, <2>7
<1> QED
  BY <1>1, <1>4, <1>5, <1>6, <1>7 DEF HoldsCovered, AvailableAgrees, ExhaustedAgrees


\* The new figures of a line when an active reservation is settled in full: the
\* amount moves from reserved to consumed, and nothing is lost to the floor.
LEMMA SettleFigures ==
  ASSUME IInv, NEW r \in Active, Settle(r, reservation[r].holding), NEW l \in Lines
  PROVE  LET d == IF l \in reservation[r].holding THEN reservation[r].amount ELSE 0
         IN  /\ d \in Nat
             /\ d <= reserved[l]
             /\ consumed'[l] = consumed[l] + d
             /\ reserved'[l] = reserved[l] - d
             /\ Left(l, Shift(consumed, reservation[r].holding, reservation[r].amount),
                        Shift(reserved, reservation[r].holding, -reservation[r].amount))
                  = Limit[l] - consumed[l] - reserved[l]
<1> USE DEF IInv
<1> DEFINE L == reservation[r].holding
           n == reservation[r].amount
<1>1. /\ n \in Nat
      /\ consumed[l] \in Nat /\ reserved[l] \in Nat /\ Limit[l] \in Nat
  BY ActiveRecord DEF TypeOK
<1>2. l \in L => n <= reserved[l]
  BY CloseCovered DEF Settle
<1>3. /\ Shift(consumed, L, n)[l] = IF l \in L THEN consumed[l] + n ELSE consumed[l]
      /\ Shift(reserved, L, -n)[l] = IF l \in L THEN reserved[l] + (-n) ELSE reserved[l]
  BY DEF Shift
<1>4. /\ consumed'[l] = IF l \in L THEN Shift(consumed, L, n)[l] ELSE consumed[l]
      /\ reserved'[l] = IF l \in L THEN Floor0(Shift(reserved, L, -n)[l]) ELSE reserved[l]
  BY DEF Settle, PutLines
<1>5. CASE l \in L
  BY <1>1, <1>2, <1>3, <1>4, <1>5 DEF Floor0, Left
<1>6. CASE l \notin L
  BY <1>1, <1>3, <1>4, <1>6 DEF Left
<1> QED
  BY <1>5, <1>6

\* The new figures of a line when an active reservation is released.
LEMMA ReleaseFigures ==
  ASSUME IInv, NEW r \in Active, Release(r, reservation[r].holding), NEW l \in Lines
  PROVE  LET d == IF l \in reservation[r].holding THEN reservation[r].amount ELSE 0
         IN  /\ d \in Nat
             /\ d <= reserved[l]
             /\ consumed'[l] = consumed[l]
             /\ reserved'[l] = reserved[l] - d
             /\ Left(l, consumed, Shift(reserved, reservation[r].holding, -reservation[r].amount))
                  = Limit[l] - consumed[l] - reserved[l] + d
<1> USE DEF IInv
<1> DEFINE L == reservation[r].holding
           n == reservation[r].amount
<1>1. /\ n \in Nat
      /\ consumed[l] \in Nat /\ reserved[l] \in Nat /\ Limit[l] \in Nat
  BY ActiveRecord DEF TypeOK
<1>2. l \in L => n <= reserved[l]
  BY CloseCovered DEF Release
<1>3. Shift(reserved, L, -n)[l] = IF l \in L THEN reserved[l] + (-n) ELSE reserved[l]
  BY DEF Shift
<1>4. /\ consumed'[l] = consumed[l]
      /\ reserved'[l] = IF l \in L THEN Floor0(Shift(reserved, L, -n)[l]) ELSE reserved[l]
  BY DEF Release, PutLines
<1>5. CASE l \in L
  BY <1>1, <1>2, <1>3, <1>4, <1>5 DEF Floor0, Left
<1>6. CASE l \notin L
  BY <1>1, <1>3, <1>4, <1>6 DEF Left
<1> QED
  BY <1>5, <1>6

\* Settling keeps the invariant.
LEMMA SettleIInv ==
  ASSUME IInv, NEW r \in Active, Settle(r, reservation[r].holding)
  PROVE  IInv'
<1> USE DEF IInv
<1> DEFINE L == reservation[r].holding
           n == reservation[r].amount
           used == Shift(consumed, L, n)
           held == Shift(reserved, L, -n)
<1>1. TypeOK'
  BY SettleType
<1>2. ASSUME NEW l \in Lines
      PROVE  Cardinality(UnitsOn(l, "reserved")') <= reserved'[l]
  <2>1. Cardinality(UnitsOn(l, "reserved")') <= held[l]
    BY CloseCovered DEF Settle
  <2>2. reserved'[l] = IF l \in L THEN Floor0(held[l]) ELSE reserved[l]
    BY DEF Settle, PutLines
  <2>3. l \notin L => held[l] = reserved[l]
    BY DEF Shift
  <2>4. held \in [Lines -> Int]
    BY ActiveRecord, ShiftType DEF TypeOK
  <2>5. PutState(r, "settled")
    BY DEF Settle
  <2>6. Cardinality(UnitsOn(l, "reserved")') \in Nat
    BY <2>5, CloseUnits
  <2> QED
    BY <2>1, <2>2, <2>3, <2>4, <2>6 DEF Floor0
<1>3. ASSUME NEW l \in Lines
      PROVE  /\ consumed'[l] + reserved'[l] = consumed[l] + reserved[l]
             /\ Left(l, used, held) = Limit[l] - consumed[l] - reserved[l]
             /\ consumed[l] \in Nat /\ reserved[l] \in Nat /\ Limit[l] \in Nat
             /\ consumed'[l] \in Nat /\ reserved'[l] \in Nat
             /\ consumed[l] + reserved[l] <= Limit[l]
  BY <1>1, SettleFigures DEF TypeOK, NoOverspend
<1>4. NoOverspend'
  BY <1>3 DEF NoOverspend
<1>5. ASSUME NEW b \in Budgets
      PROVE  available'[b] = Limit[b] - consumed'[b] - reserved'[b]
  <2>1. b \in Lines
    BY DEF Lines
  <2>2. available'[b] = IF b \in L THEN Floor0(Left(b, used, held)) ELSE available[b]
    BY DEF Settle, PutLines
  <2>3. available[b] = Limit[b] - consumed[b] - reserved[b]
    BY DEF AvailableAgrees
  <2>4. /\ consumed'[b] + reserved'[b] = consumed[b] + reserved[b]
        /\ Left(b, used, held) = Limit[b] - consumed[b] - reserved[b]
        /\ consumed[b] \in Nat /\ reserved[b] \in Nat /\ Limit[b] \in Nat
        /\ consumed'[b] \in Nat /\ reserved'[b] \in Nat
        /\ consumed[b] + reserved[b] <= Limit[b]
    BY <1>3, <2>1
  <2> HIDE DEF used, held, L, n
  <2> QED
    BY <2>2, <2>3, <2>4 DEF Floor0
<1>6. ASSUME NEW l \in Lines
      PROVE  lineStatus'[l] = "exhausted" <=> consumed'[l] + reserved'[l] = Limit[l]
  <2>1. lineStatus'[l] = IF l \in L /\ Left(l, used, held) = 0
                           THEN "exhausted" ELSE lineStatus[l]
    BY DEF Settle, ExhaustLines
  <2>2. lineStatus[l] = "exhausted" <=> consumed[l] + reserved[l] = Limit[l]
    BY DEF ExhaustedAgrees
  <2>3. Left(l, used, held) = 0 <=> consumed[l] + reserved[l] = Limit[l]
    BY <1>3
  <2> QED
    BY <1>3, <2>1, <2>2, <2>3
<1> QED
  BY <1>1, <1>2, <1>4, <1>5, <1>6 DEF HoldsCovered, AvailableAgrees, ExhaustedAgrees

\* Releasing keeps the invariant.
LEMMA ReleaseIInv ==
  ASSUME IInv, NEW r \in Active, Release(r, reservation[r].holding)
  PROVE  IInv'
<1> USE DEF IInv
<1> DEFINE L == reservation[r].holding
           n == reservation[r].amount
           held == Shift(reserved, L, -n)
<1>1. TypeOK'
  BY ReleaseType
<1>2. ASSUME NEW l \in Lines
      PROVE  Cardinality(UnitsOn(l, "reserved")') <= reserved'[l]
  <2>1. Cardinality(UnitsOn(l, "reserved")') <= held[l]
    BY CloseCovered DEF Release
  <2>2. reserved'[l] = IF l \in L THEN Floor0(held[l]) ELSE reserved[l]
    BY DEF Release, PutLines
  <2>3. l \notin L => held[l] = reserved[l]
    BY DEF Shift
  <2>4. held \in [Lines -> Int]
    BY ActiveRecord, ShiftType DEF TypeOK
  <2>5. PutState(r, "released")
    BY DEF Release
  <2>6. Cardinality(UnitsOn(l, "reserved")') \in Nat
    BY <2>5, CloseUnits
  <2> QED
    BY <2>1, <2>2, <2>3, <2>4, <2>6 DEF Floor0
<1>3. n \in Nat \ {0}
  BY ActiveRecord DEF Amounts
<1>4. ASSUME NEW l \in Lines
      PROVE  /\ consumed'[l] = consumed[l]
             /\ l \in L => n <= reserved[l] /\ reserved'[l] = reserved[l] - n
                           /\ Left(l, consumed, held) = Limit[l] - consumed[l] - reserved[l] + n
             /\ l \notin L => reserved'[l] = reserved[l]
             /\ consumed[l] \in Nat /\ reserved[l] \in Nat /\ Limit[l] \in Nat
             /\ consumed[l] + reserved[l] <= Limit[l]
  <2>1. /\ consumed[l] \in Nat /\ reserved[l] \in Nat /\ Limit[l] \in Nat
        /\ consumed[l] + reserved[l] <= Limit[l]
    BY DEF TypeOK, NoOverspend
  <2> QED
    BY <1>3, <2>1, ReleaseFigures
<1>5. NoOverspend'
  BY <1>3, <1>4 DEF NoOverspend
<1>6. ASSUME NEW b \in Budgets
      PROVE  available'[b] = Limit[b] - consumed'[b] - reserved'[b]
  <2>1. b \in Lines
    BY DEF Lines
  <2>2. available'[b] = IF b \in L THEN Floor0(Left(b, consumed, held)) ELSE available[b]
    BY DEF Release, PutLines
  <2>3. available[b] = Limit[b] - consumed[b] - reserved[b]
    BY DEF AvailableAgrees
  <2>4. /\ consumed'[b] = consumed[b]
        /\ b \in L => n <= reserved[b] /\ reserved'[b] = reserved[b] - n
                      /\ Left(b, consumed, held) = Limit[b] - consumed[b] - reserved[b] + n
        /\ b \notin L => reserved'[b] = reserved[b]
        /\ consumed[b] \in Nat /\ reserved[b] \in Nat /\ Limit[b] \in Nat
        /\ consumed[b] + reserved[b] <= Limit[b]
    BY <1>4, <2>1
  <2> HIDE DEF held, L, n
  <2> QED
    BY <1>3, <2>2, <2>3, <2>4 DEF Floor0
<1>7. ASSUME NEW l \in Lines
      PROVE  lineStatus'[l] = "exhausted" <=> consumed'[l] + reserved'[l] = Limit[l]
  <2>1. lineStatus'[l] = IF l \in L THEN "active" ELSE lineStatus[l]
    BY DEF Release
  <2>2. lineStatus[l] = "exhausted" <=> consumed[l] + reserved[l] = Limit[l]
    BY DEF ExhaustedAgrees
  <2>3. CASE l \in L
    <3>1. consumed'[l] + reserved'[l] # Limit[l]
      BY <1>3, <1>4, <2>3
    <3> QED
      BY <2>1, <2>3, <3>1
  <2>4. CASE l \notin L
    BY <1>4, <2>1, <2>2, <2>4
  <2> QED
    BY <2>3, <2>4
<1> QED
  BY <1>1, <1>2, <1>5, <1>6, <1>7 DEF HoldsCovered, AvailableAgrees, ExhaustedAgrees

\* Every step of the life cycle keeps the invariant.
LEMMA NextIInv == IInv /\ [Next]_vars => IInv'
<1> SUFFICES ASSUME IInv, [Next]_vars PROVE IInv'
  OBVIOUS
<1>1. CASE NextReserve
  BY <1>1, ReserveIInv DEF NextReserve
<1>2. CASE NextSettle
  BY <1>2, SettleIInv DEF NextSettle
<1>3. CASE NextRelease
  BY <1>3, ReleaseIInv DEF NextRelease
<1>4. CASE UNCHANGED vars
  BY <1>4 DEF vars, IInv, TypeOK, HoldsCovered, UnitsOn, AvailableAgrees, NoOverspend,
              ExhaustedAgrees
<1> QED
  BY <1>1, <1>2, <1>3, <1>4 DEF Next

\* The inductive invariant holds throughout the life cycle.
LEMMA LedgerInvariant == Spec => []IInv
BY InitIInv, NextIInv, PTL DEF Spec

\* The life cycle keeps the types (ats/service.ts:183-313, 366-554).
THEOREM TypeCorrect == Spec => []TypeOK
BY LedgerInvariant, PTL DEF IInv

\* What is spent and held stays within every limit (ats/service.ts:196-200, 387-396).
THEOREM WithinLimit == Spec => []NoOverspend
BY LedgerInvariant, PTL DEF IInv

\* Every active reservation is covered by the reserved amount, so that the floor
\* of ats/service.ts:259 and 302 never hides a shortfall.
THEOREM Covered == Spec => []HoldsCovered
BY LedgerInvariant, PTL DEF IInv

\* The stored available amount and the status of a line agree with its figures.
THEOREM AvailableCorrect == Spec => []AvailableAgrees
BY LedgerInvariant, PTL DEF IInv

\* A line is marked exhausted exactly while nothing is left on it: a release makes
\* it active again (ats/service.ts:304, 537, 543).
THEOREM ExhaustedCorrect == Spec => []ExhaustedAgrees
BY LedgerInvariant, PTL DEF IInv

-----------------------------------------------------------------------------
(* A budget and a quota that are only ever held together move in step. *)

\* Shifting the figures of two lines that a holding has both or neither of keeps
\* them equal, and so does writing them.
LEMMA PutInStep ==
  ASSUME TypeOK, NEW L \in SUBSET Lines, NEW used, NEW held,
         used \in [Lines -> Int], held \in [Lines -> Int],
         NEW b \in Lines, NEW q \in Lines, b \in L <=> q \in L,
         consumed[b] = consumed[q], reserved[b] = reserved[q],
         used[b] = used[q], held[b] = held[q],
         PutLines(L, used, held)
  PROVE  consumed'[b] = consumed'[q] /\ reserved'[b] = reserved'[q]
BY DEF PutLines

\* Every step of the life cycle writes a budget and its quota by the same amount.
LEMMA NextInStep ==
  TypeOK /\ QuotaFollowsBudget /\ [Next]_vars => QuotaFollowsBudget'
<1> SUFFICES ASSUME TypeOK, QuotaFollowsBudget, [Next]_vars,
                    NEW b \in Budgets, NEW q \in Quotas, HeldTogether(b, q)
             PROVE  consumed'[b] = consumed'[q] /\ reserved'[b] = reserved'[q]
  BY DEF QuotaFollowsBudget, HeldTogether
<1>1. b \in Lines /\ q \in Lines
  BY DEF Lines
<1>2. consumed[b] = consumed[q] /\ reserved[b] = reserved[q]
  BY DEF QuotaFollowsBudget
<1>3. consumed \in [Lines -> Int] /\ reserved \in [Lines -> Int]
  BY DEF TypeOK
<1>4. CASE NextReserve
  <2>1. PICK r \in Reservations, L \in Holdings, n \in Amounts : Reserve(r, L, n, L)
    BY <1>4 DEF NextReserve
  <2>2. L \in SUBSET Lines /\ n \in Int
    BY LinesAssumption, AmountAssumption DEF Amounts
  <2>3. b \in L <=> q \in L
    BY DEF HeldTogether
  <2>4. Shift(reserved, L, n) \in [Lines -> Int]
    BY <1>3, <2>2 DEF Shift
  <2>5. Shift(reserved, L, n)[b] = Shift(reserved, L, n)[q]
    BY <1>1, <1>2, <2>3 DEF Shift
  <2>6. PutLines(L, consumed, Shift(reserved, L, n))
    BY <2>1 DEF Reserve
  <2> QED
    BY <1>1, <1>2, <1>3, <2>2, <2>3, <2>4, <2>5, <2>6, PutInStep
<1>5. CASE NextSettle
  <2>1. PICK r \in Active : Settle(r, reservation[r].holding)
    BY <1>5 DEF NextSettle
  <2> DEFINE L == reservation[r].holding
             n == reservation[r].amount
  <2>2. L \in Holdings /\ L \in SUBSET Lines /\ n \in Int
    BY <2>1, ActiveRecord
  <2>3. b \in L <=> q \in L
    BY <2>2 DEF HeldTogether
  <2>4. /\ Shift(consumed, L, n) \in [Lines -> Int]
        /\ Shift(reserved, L, -n) \in [Lines -> Int]
    BY <1>3, <2>2 DEF Shift
  <2>5. /\ Shift(consumed, L, n)[b] = Shift(consumed, L, n)[q]
        /\ Shift(reserved, L, -n)[b] = Shift(reserved, L, -n)[q]
    BY <1>1, <1>2, <2>3 DEF Shift
  <2>6. PutLines(L, Shift(consumed, L, n), Shift(reserved, L, -n))
    BY <2>1 DEF Settle
  <2> QED
    BY <1>1, <1>2, <2>2, <2>3, <2>4, <2>5, <2>6, PutInStep
<1>6. CASE NextRelease
  <2>1. PICK r \in Active : Release(r, reservation[r].holding)
    BY <1>6 DEF NextRelease
  <2> DEFINE L == reservation[r].holding
             n == reservation[r].amount
  <2>2. L \in Holdings /\ L \in SUBSET Lines /\ n \in Int
    BY <2>1, ActiveRecord
  <2>3. b \in L <=> q \in L
    BY <2>2 DEF HeldTogether
  <2>4. Shift(reserved, L, -n) \in [Lines -> Int]
    BY <1>3, <2>2 DEF Shift
  <2>5. Shift(reserved, L, -n)[b] = Shift(reserved, L, -n)[q]
    BY <1>1, <1>2, <2>3 DEF Shift
  <2>6. PutLines(L, consumed, Shift(reserved, L, -n))
    BY <2>1 DEF Release
  <2> QED
    BY <1>1, <1>2, <1>3, <2>2, <2>3, <2>4, <2>5, <2>6, PutInStep
<1>7. CASE UNCHANGED vars
  BY <1>2, <1>7 DEF vars
<1> QED
  BY <1>4, <1>5, <1>6, <1>7 DEF Next

\* A resource budget and the quota that is always reserved with it never drift
\* apart (ats/service.ts:366-554).
THEOREM QuotaInStep == Spec => []QuotaFollowsBudget
<1>1. Init => QuotaFollowsBudget
  BY DEF Init, QuotaFollowsBudget, Lines
<1> QED
  BY <1>1, NextInStep, TypeCorrect, PTL DEF Spec

\* The stored figures agree with one another, and the status of a line with them
\* (ats/service.ts:183-313, 366-554).
THEOREM FiguresCorrect == Spec => []FiguresAgree
<1>1. AvailableAgrees /\ ExhaustedAgrees /\ QuotaFollowsBudget => FiguresAgree
  BY DEF FiguresAgree
<1> QED
  BY <1>1, AvailableCorrect, ExhaustedCorrect, QuotaInStep, PTL

-----------------------------------------------------------------------------
(* The ledger implements SpendingPromise. *)

\* The seeded ledger is an initial state of the promise.
LEMMA InitPromise == Init => Promise!Init
BY DEF Init, Promise!Init

\* Every step of the ledger is a step of the promise or leaves its state alone.
LEMMA NextPromise ==
  ASSUME IInv, IInv', [Next]_vars
  PROVE  [Promise!Next]_<<consumed, reserved>>
<1>1. CASE NextReserve
  <2>1. PICK r \in Reservations, L \in Holdings, n \in Amounts : Reserve(r, L, n, L)
    BY <1>1 DEF NextReserve
  <2>2. ASSUME NEW l \in Lines
        PROVE  /\ consumed'[l] = consumed[l]
               /\ reserved'[l] = Promise!Add(reserved, L, n)[l]
               /\ l \in L => consumed[l] + reserved[l] + n <= Limit[l]
    <3>1. /\ consumed[l] \in Nat /\ reserved[l] \in Nat /\ Limit[l] \in Nat /\ n \in Nat
      BY DEF IInv, TypeOK, Amounts
    <3>2. Shift(reserved, L, n)[l] = IF l \in L THEN reserved[l] + n ELSE reserved[l]
      BY DEF Shift
    <3>3. l \in L => Limit[l] - consumed[l] - Shift(reserved, L, n)[l] >= 0
      BY <2>1 DEF Reserve, Left
    <3>4. /\ consumed'[l] = consumed[l]
          /\ reserved'[l] = IF l \in L THEN Floor0(Shift(reserved, L, n)[l]) ELSE reserved[l]
      BY <2>1 DEF Reserve, PutLines
    <3>5. Promise!Add(reserved, L, n)[l] = IF l \in L THEN reserved[l] + n ELSE reserved[l]
      BY DEF Promise!Add
    <3> QED
      BY <3>1, <3>2, <3>3, <3>4, <3>5 DEF Floor0
  <2>3. L \subseteq Lines
    OBVIOUS
  <2>4. consumed' = consumed /\ reserved' = Promise!Add(reserved, L, n)
    BY <2>2 DEF IInv, TypeOK, Promise!Add
  <2>5. Promise!Hold(L, n)
    BY <2>2, <2>3, <2>4 DEF Promise!Hold
  <2> QED
    BY <2>5 DEF Promise!Next
<1>2. CASE NextSettle
  <2>1. PICK r \in Active : Settle(r, reservation[r].holding)
    BY <1>2 DEF NextSettle
  <2> DEFINE L == reservation[r].holding
             n == reservation[r].amount
  <2>2. /\ L \subseteq Lines
        /\ n \in Amounts
        /\ n \in Nat
    BY ActiveRecord DEF IInv
  <2>3. ASSUME NEW l \in Lines
        PROVE  /\ consumed'[l] = Promise!Add(consumed, L, n)[l]
               /\ reserved'[l] = Promise!Add(reserved, L, -n)[l]
               /\ l \in L => n <= reserved[l]
    <3>1. /\ Promise!Add(consumed, L, n)[l] = IF l \in L THEN consumed[l] + n ELSE consumed[l]
          /\ Promise!Add(reserved, L, -n)[l] = IF l \in L THEN reserved[l] + (-n) ELSE reserved[l]
      BY DEF Promise!Add
    <3>2. consumed[l] \in Nat /\ reserved[l] \in Nat
      BY DEF IInv, TypeOK
    <3> QED
      BY <2>1, <2>2, <3>1, <3>2, SettleFigures
  <2>4. /\ consumed' = Promise!Add(consumed, L, n)
        /\ reserved' = Promise!Add(reserved, L, -n)
    BY <2>3 DEF IInv, TypeOK, Promise!Add
  <2>5. L \in Holdings
    BY ActiveRecord DEF IInv
  <2>6. Promise!Spend(L, n)
    BY <2>2, <2>3, <2>4 DEF Promise!Spend
  <2> QED
    BY <2>2, <2>5, <2>6 DEF Promise!Next
<1>3. CASE NextRelease
  <2>1. PICK r \in Active : Release(r, reservation[r].holding)
    BY <1>3 DEF NextRelease
  <2> DEFINE L == reservation[r].holding
             n == reservation[r].amount
  <2>2. /\ L \in Holdings
        /\ L \subseteq Lines
        /\ n \in Amounts
        /\ n \in Nat
    BY ActiveRecord DEF IInv
  <2>3. ASSUME NEW l \in Lines
        PROVE  /\ consumed'[l] = consumed[l]
               /\ reserved'[l] = Promise!Add(reserved, L, -n)[l]
               /\ l \in L => n <= reserved[l]
    <3>1. Promise!Add(reserved, L, -n)[l] = IF l \in L THEN reserved[l] + (-n) ELSE reserved[l]
      BY DEF Promise!Add
    <3>2. consumed[l] \in Nat /\ reserved[l] \in Nat
      BY DEF IInv, TypeOK
    <3> QED
      BY <2>1, <2>2, <3>1, <3>2, ReleaseFigures
  <2>4. /\ consumed' = consumed
        /\ reserved' = Promise!Add(reserved, L, -n)
    BY <2>3 DEF IInv, TypeOK, Promise!Add
  <2>5. Promise!GiveBack(L, n)
    BY <2>2, <2>3, <2>4 DEF Promise!GiveBack
  <2> QED
    BY <2>2, <2>5 DEF Promise!Next
<1>4. CASE UNCHANGED vars
  BY <1>4 DEF vars
<1> QED
  BY <1>1, <1>2, <1>3, <1>4 DEF Next

\* The reservation life cycle implements the abstract promise: capacity is held
\* within the limit before it is spent, and spent or given back only once.
THEOREM ImplementsPromise == Spec => KeepsPromise
BY InitPromise, NextPromise, LedgerInvariant, PTL
   DEF Spec, KeepsPromise, Promise!Spec

=============================================================================
