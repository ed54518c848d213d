---------------------- MODULE NotificationOutboxProofs ----------------------
(***************************************************************************)
(* What holds of the notification outbox for every number of               *)
(* notifications, callers, attempts and cycles: the types, that a          *)
(* delivered entry was accepted, that a dead letter is earned, and that    *)
(* the posts of a notification are bounded by what caused them.            *)
(*                                                                         *)
(* DeadLetterIsEarned is not inductive: a dead letter is written from the  *)
(* counts that a call or a batch read earlier.  The invariant therefore    *)
(* says of every place where a cycle count is kept, the entries, the batch *)
(* and the calls, that the posts it stands for have been answered.         *)
(***************************************************************************)
EXTENDS NotificationOutbox, FiniteSetTheorems, TLAPS

\* The posts of k failed cycles.
Worth(k) == k * MaxAttempts

EntriesEarned == \A n \in Notifications : posts[n] >= Worth(outbox[n].cycles)

BatchEarned == \A r \in batch : posts[r.id] >= Worth(r.cycles)

CallsEarned ==
  \A c \in Callers :
    call[c] # Idle =>
      posts[call[c].id] >=
        Worth(call[c].cycles) + (MaxAttempts - (call[c].upTo - call[c].attempts))

DeadLettersCounted ==
  \A n \in Notifications :
    outbox[n].status = "dead-lettered" => outbox[n].cycles >= MaxCycles

IInv ==
  /\ TypeOK
  /\ DeliveredWasAccepted
  /\ EntriesEarned
  /\ BatchEarned
  /\ CallsEarned
  /\ DeadLettersCounted

-----------------------------------------------------------------------------

\* The posts of no cycle, of one cycle more, and of at least as many cycles.
LEMMA WorthFacts ==
  /\ Worth(0) = 0
  /\ \A k \in Nat : Worth(k) \in Nat
  /\ \A k \in Nat : Worth(k + 1) = Worth(k) + MaxAttempts
  /\ \A k, l \in Nat : k >= l => Worth(k) >= Worth(l)
<1>1. MaxAttempts \in Nat
  BY OutboxAssumption
<1>2. \A k \in Nat : k * MaxAttempts \in Nat
  BY <1>1
<1>3. \A k \in Nat : (k + 1) * MaxAttempts = k * MaxAttempts + MaxAttempts
  BY <1>1
<1>4. ASSUME NEW k \in Nat, NEW l \in Nat, k >= l
      PROVE  k * MaxAttempts >= l * MaxAttempts
  <2>1. k * MaxAttempts = l * MaxAttempts + (k - l) * MaxAttempts
    BY <1>1
  <2>2. k - l \in Nat
    BY <1>4
  <2>3. (k - l) * MaxAttempts \in Nat
    BY <1>2, <2>2
  <2>4. l * MaxAttempts \in Nat
    BY <1>2
  <2>. QED
    BY <2>1, <2>3, <2>4
<1>5. 0 * MaxAttempts = 0
  BY <1>1
<1>. QED
  BY <1>2, <1>3, <1>4, <1>5 DEF Worth

\* The outbox is empty at the start.
LEMMA InitIInv == Init => IInv
<1>. SUFFICES ASSUME Init PROVE IInv
  OBVIOUS
<1>1. TypeOK
  BY OutboxAssumption DEF Init, TypeOK, NoEntry, Idle, Entries, Reads, Cycles, Statuses, Callers
<1>2. DeliveredWasAccepted /\ DeadLettersCounted
  BY DEF Init, NoEntry, DeliveredWasAccepted, DeadLettersCounted
<1>3. EntriesEarned
  BY WorthFacts DEF Init, NoEntry, EntriesEarned
<1>4. BatchEarned /\ CallsEarned
  BY DEF Init, BatchEarned, CallsEarned
<1>. QED
  BY <1>1, <1>2, <1>3, <1>4 DEF IInv

\* A cycle that begins from counts whose posts were answered keeps the calls
\* well typed and earned.
LEMMA BeginKeeps ==
  ASSUME IInv, NEW c \in Callers, NEW r \in Reads, Begin(c, r),
         posts[r.id] >= Worth(r.cycles), posts' = posts
  PROVE  /\ call' \in [Callers -> Cycles \cup {Idle}]
         /\ \A d \in Callers :
              call'[d] # Idle => call'[d].upTo - call'[d].attempts \in 1..MaxAttempts
         /\ CallsEarned'
<1>1. CycleFrom(r) \in Cycles
  BY OutboxAssumption DEF CycleFrom, Cycles, Reads
<1>2. /\ CycleFrom(r).upTo - CycleFrom(r).attempts = MaxAttempts
      /\ CycleFrom(r).id = r.id
      /\ CycleFrom(r).cycles = r.cycles
  BY OutboxAssumption DEF CycleFrom, Reads
<1>3. call \in [Callers -> Cycles \cup {Idle}]
  BY DEF IInv, TypeOK
<1>4. call' \in [Callers -> Cycles \cup {Idle}] /\ call'[c] = CycleFrom(r)
  BY <1>1, <1>3 DEF Begin
<1>5. \A d \in Callers \ {c} : call'[d] = call[d]
  BY <1>3 DEF Begin
<1>6. \A d \in Callers :
        call'[d] # Idle => call'[d].upTo - call'[d].attempts \in 1..MaxAttempts
  <2>. SUFFICES ASSUME NEW d \in Callers, call'[d] # Idle
               PROVE  call'[d].upTo - call'[d].attempts \in 1..MaxAttempts
    OBVIOUS
  <2>1. CASE d = c
    BY <2>1, <1>2, <1>4, OutboxAssumption
  <2>2. CASE d # c
    BY <2>2, <1>5 DEF IInv, TypeOK
  <2>. QED
    BY <2>1, <2>2
<1>7. CallsEarned'
  <2>. SUFFICES ASSUME NEW d \in Callers, call'[d] # Idle
               PROVE  posts'[call'[d].id] >=
                        Worth(call'[d].cycles)
                          + (MaxAttempts - (call'[d].upTo - call'[d].attempts))
    BY DEF CallsEarned, Worth
  <2>1. CASE d = c
    <3>1. Worth(r.cycles) \in Nat
      BY WorthFacts DEF Reads
    <3>. QED
      BY <2>1, <3>1, <1>2, <1>4, OutboxAssumption
  <2>2. CASE d # c
    BY <2>2, <1>5 DEF IInv, CallsEarned
  <2>. QED
    BY <2>1, <2>2
<1>. QED
  BY <1>4, <1>6, <1>7

\* What an entry says may be read into a batch or a cycle.
LEMMA ReadEarned ==
  ASSUME IInv, NEW n \in Notifications
  PROVE  Read(n) \in Reads /\ posts[Read(n).id] >= Worth(Read(n).cycles)
<1>1. outbox[n] \in Entries
  BY DEF IInv, TypeOK
<1>. QED
  BY <1>1 DEF Read, Reads, Entries, IInv, EntriesEarned

\* The invariant holds again when all that is left is idle and lost.
LEMMA DeadKeeps ==
  ASSUME IInv, Dead
  PROVE  /\ call' \in [Callers -> Cycles \cup {Idle}]
         /\ \A d \in Callers : call'[d] = Idle
         /\ batch' = {}
         /\ {watched', running', up'} \subseteq BOOLEAN
BY DEF Dead

\* An entry may be written when posts answer for its cycles, an answer for a
\* delivery, and enough cycles for a dead letter.
LEMMA WriteKeeps ==
  ASSUME IInv, NEW n \in Notifications, NEW e \in Entries,
         outbox' = [outbox EXCEPT ![n] = e],
         posts' \in [Notifications -> Nat],
         \A m \in Notifications : posts'[m] >= posts[m],
         accepted \subseteq accepted',
         posts'[n] >= Worth(e.cycles),
         e.status = "delivered" => n \in accepted',
         e.status = "dead-lettered" => e.cycles >= MaxCycles
  PROVE  /\ outbox' \in [Notifications -> Entries]
         /\ DeliveredWasAccepted'
         /\ EntriesEarned'
         /\ DeadLettersCounted'
<1>1. /\ outbox \in [Notifications -> Entries]
      /\ posts \in [Notifications -> Nat]
  BY DEF IInv, TypeOK
<1>2. outbox' \in [Notifications -> Entries] /\ outbox'[n] = e
  BY <1>1
<1>3. \A m \in Notifications \ {n} : outbox'[m] = outbox[m]
  BY <1>1
<1>4. DeliveredWasAccepted' /\ DeadLettersCounted'
  BY <1>2, <1>3 DEF IInv, DeliveredWasAccepted, DeadLettersCounted
<1>5. EntriesEarned'
  <2>. SUFFICES ASSUME NEW m \in Notifications
               PROVE  posts'[m] >= Worth(outbox'[m].cycles)
    BY DEF EntriesEarned, Worth
  <2>1. CASE m = n
    BY <2>1, <1>2
  <2>2. CASE m # n
    <3>1. outbox'[m] = outbox[m] /\ outbox[m].cycles \in Nat
      BY <2>2, <1>1, <1>3 DEF Entries
    <3>2. posts[m] >= Worth(outbox[m].cycles)
      BY DEF IInv, EntriesEarned
    <3>3. Worth(outbox[m].cycles) \in Nat
      BY <3>1, WorthFacts
    <3>. QED
      BY <3>1, <3>2, <3>3, <1>1
  <2>. QED
    BY <2>1, <2>2
<1>. QED
  BY <1>2, <1>4, <1>5

\* More posts never make what was read earlier worth less.
LEMMA PostsKeep ==
  ASSUME IInv, posts' \in [Notifications -> Nat],
         \A m \in Notifications : posts'[m] >= posts[m]
  PROVE  /\ \A r \in batch : posts'[r.id] >= Worth(r.cycles)
         /\ \A c \in Callers :
              call[c] # Idle =>
                posts'[call[c].id] >=
                  Worth(call[c].cycles)
                    + (MaxAttempts - (call[c].upTo - call[c].attempts))
<1>1. posts \in [Notifications -> Nat]
  BY DEF IInv, TypeOK
<1>2. ASSUME NEW r \in batch
      PROVE  posts'[r.id] >= Worth(r.cycles)
  <2>1. r.id \in Notifications /\ r.cycles \in Nat
    BY DEF IInv, TypeOK, Reads
  <2>2. posts[r.id] >= Worth(r.cycles) /\ Worth(r.cycles) \in Nat
    BY <2>1, WorthFacts DEF IInv, BatchEarned
  <2>3. posts'[r.id] >= posts[r.id] /\ posts[r.id] \in Nat /\ posts'[r.id] \in Nat
    BY <1>1, <2>1
  <2>. QED
    BY <2>2, <2>3
<1>3. ASSUME NEW c \in Callers, call[c] # Idle
      PROVE  posts'[call[c].id] >=
               Worth(call[c].cycles)
                 + (MaxAttempts - (call[c].upTo - call[c].attempts))
  <2>. DEFINE k == call[c]
              w == Worth(k.cycles) + (MaxAttempts - (k.upTo - k.attempts))
  <2>1. k \in Cycles
    BY <1>3 DEF IInv, TypeOK
  <2>2. k.id \in Notifications /\ Worth(k.cycles) \in Nat
    BY <2>1, WorthFacts DEF Cycles
  <2>3. w \in Int
    BY <2>1, <2>2, OutboxAssumption DEF Cycles
  <2>4. posts[k.id] >= w
    BY <1>3 DEF IInv, CallsEarned
  <2>5. posts'[k.id] >= posts[k.id] /\ posts[k.id] \in Nat /\ posts'[k.id] \in Nat
    BY <1>1, <2>2
  <2>. HIDE DEF k, w
  <2>6. posts'[k.id] >= w
    BY <2>3, <2>4, <2>5
  <2>. QED
    BY <2>6 DEF k, w
<1>. QED
  BY <1>2, <1>3

\* A notified settlement keeps the invariant.
LEMMA NotifyKeeps ==
  ASSUME IInv, NEW c \in Posters, NEW n \in Notifications, Notify(c, n)
  PROVE  IInv'
<1>. USE DEF IInv
<1>1. c \in Callers
  BY DEF Callers
<1>2. notifiesLeft' \in [Notifications -> Nat]
  BY DEF Notify, TypeOK
<1>3. UNCHANGED <<batch, watched, running, up, posts, accepted, commandsLeft, crashesLeft>>
  BY DEF Notify, worker, ghosts
<1>4. CASE Begin(c, Unread(n)) /\ UNCHANGED outbox
  <2>1. Unread(n) \in Reads /\ posts[Unread(n).id] >= Worth(Unread(n).cycles)
    BY WorthFacts DEF Unread, Reads, TypeOK
  <2>2. /\ call' \in [Callers -> Cycles \cup {Idle}]
        /\ \A d \in Callers :
             call'[d] # Idle => call'[d].upTo - call'[d].attempts \in 1..MaxAttempts
        /\ CallsEarned'
    BY <1>1, <1>3, <1>4, <2>1, BeginKeeps
  <2>3. TypeOK'
    BY <1>2, <1>3, <1>4, <2>2 DEF TypeOK
  <2>4. DeliveredWasAccepted' /\ EntriesEarned' /\ BatchEarned' /\ DeadLettersCounted'
    BY <1>3, <1>4
       DEF DeliveredWasAccepted, EntriesEarned, BatchEarned, DeadLettersCounted, Worth
  <2>. QED
    BY <2>2, <2>3, <2>4
<1>5. CASE /\ outbox' = [outbox EXCEPT ![n] = SkippedEntry]
           /\ UNCHANGED call
  <2>1. /\ SkippedEntry \in Entries
        /\ SkippedEntry.status = "skipped"
        /\ SkippedEntry.cycles = 0
    BY DEF SkippedEntry, NoEntry, Entries, Statuses
  <2>2. posts' \in [Notifications -> Nat] /\ posts[n] \in Nat
    BY <1>3 DEF TypeOK
  <2>3. /\ outbox' \in [Notifications -> Entries]
        /\ DeliveredWasAccepted'
        /\ EntriesEarned'
        /\ DeadLettersCounted'
    <3>1. \A m \in Notifications : posts'[m] >= posts[m]
      BY <1>3 DEF TypeOK
    <3>2. posts'[n] >= Worth(SkippedEntry.cycles)
      BY <1>3, <2>1, <2>2, WorthFacts
    <3>3. accepted \subseteq accepted'
      BY <1>3
    <3>. QED
      BY <1>5, <2>1, <2>2, <3>1, <3>2, <3>3, WriteKeeps
  <2>4. TypeOK'
    BY <1>2, <1>3, <1>5, <2>3 DEF TypeOK
  <2>5. BatchEarned' /\ CallsEarned'
    BY <1>3, <1>5 DEF BatchEarned, CallsEarned, Worth
  <2>. QED
    BY <2>3, <2>4, <2>5
<1>. QED
  BY <1>4, <1>5 DEF Notify

\* The operator's redelivery goes on from the counts of the entry.
LEMMA RedeliverKeeps ==
  ASSUME IInv, NEW c \in Posters, NEW n \in Notifications, Redeliver(c, n)
  PROVE  IInv'
<1>1. c \in Callers
  BY DEF Callers
<1>2. UNCHANGED <<outbox, batch, watched, running, up, posts, accepted,
                  notifiesLeft, crashesLeft>>
  BY DEF Redeliver, Command, worker, ghosts
<1>3. {commandsLeft', crashesLeft'} \subseteq Nat
  BY DEF Redeliver, Command, IInv, TypeOK
<1>4. Read(n) \in Reads /\ posts[Read(n).id] >= Worth(Read(n).cycles)
  BY ReadEarned
<1>5. /\ call' \in [Callers -> Cycles \cup {Idle}]
      /\ \A d \in Callers :
           call'[d] # Idle => call'[d].upTo - call'[d].attempts \in 1..MaxAttempts
      /\ CallsEarned'
  BY <1>1, <1>2, <1>4, BeginKeeps DEF Redeliver
<1>6. TypeOK'
  BY <1>2, <1>3, <1>5 DEF IInv, TypeOK
<1>7. DeliveredWasAccepted' /\ EntriesEarned' /\ BatchEarned' /\ DeadLettersCounted'
  BY <1>2 DEF IInv, DeliveredWasAccepted, EntriesEarned, BatchEarned,
              DeadLettersCounted, Worth
<1>. QED
  BY <1>5, <1>6, <1>7 DEF IInv

\* A batch is read from the entries; the other actions of the worker's timer
\* and of the operator leave everything that is counted alone.
LEMMA BatchKeeps ==
  ASSUME IInv, UNCHANGED <<outbox, call, ghosts, notifiesLeft>>,
         batch' \subseteq batch \cup {Read(n) : n \in Notifications},
         {watched', running', up'} \subseteq BOOLEAN,
         {commandsLeft', crashesLeft'} \subseteq Nat
  PROVE  IInv'
<1>1. UNCHANGED <<outbox, call, posts, accepted, notifiesLeft>>
  BY DEF ghosts
<1>2. ASSUME NEW r \in batch'
      PROVE  r \in Reads /\ posts[r.id] >= Worth(r.cycles)
  <2>1. CASE r \in batch
    BY <2>1 DEF IInv, TypeOK, BatchEarned
  <2>2. CASE r \notin batch
    <3>1. PICK n \in Notifications : r = Read(n)
      BY <1>2, <2>2
    <3>. QED
      BY <3>1, ReadEarned
  <2>. QED
    BY <2>1, <2>2
<1>3. TypeOK'
  BY <1>1, <1>2 DEF IInv, TypeOK
<1>4. BatchEarned'
  BY <1>1, <1>2 DEF BatchEarned, Worth
<1>5. DeliveredWasAccepted' /\ EntriesEarned' /\ CallsEarned' /\ DeadLettersCounted'
  BY <1>1 DEF IInv, DeliveredWasAccepted, EntriesEarned, CallsEarned,
              DeadLettersCounted, Worth
<1>. QED
  BY <1>3, <1>4, <1>5 DEF IInv

\* The worker goes on from the counts it read with its batch.
LEMMA TakeNextKeeps ==
  ASSUME IInv, TakeNext
  PROVE  IInv'
<1>1. PICK r \in batch :
        /\ Begin(Worker, r)
        /\ batch' = batch \ {r}
        /\ UNCHANGED <<outbox, watched, running, up, ghosts, bounds>>
  BY DEF TakeNext
<1>2. UNCHANGED <<outbox, watched, running, up, posts, accepted,
                  notifiesLeft, commandsLeft, crashesLeft>>
  BY <1>1 DEF ghosts, bounds
<1>3. r \in Reads /\ posts[r.id] >= Worth(r.cycles)
  BY DEF IInv, TypeOK, BatchEarned
<1>4. Worker \in Callers
  BY DEF Callers
<1>5. /\ call' \in [Callers -> Cycles \cup {Idle}]
      /\ \A d \in Callers :
           call'[d] # Idle => call'[d].upTo - call'[d].attempts \in 1..MaxAttempts
      /\ CallsEarned'
  BY <1>1, <1>2, <1>3, <1>4, BeginKeeps
<1>6. TypeOK'
  BY <1>1, <1>2, <1>5 DEF IInv, TypeOK
<1>7. DeliveredWasAccepted' /\ EntriesEarned' /\ BatchEarned' /\ DeadLettersCounted'
  BY <1>1, <1>2 DEF IInv, DeliveredWasAccepted, EntriesEarned, BatchEarned,
                    DeadLettersCounted, Worth
<1>. QED
  BY <1>5, <1>6, <1>7 DEF IInv

\* Time that passes changes no count.
LEMMA BackoffKeeps ==
  ASSUME IInv, NEW n \in Notifications, BackoffPasses(n)
  PROVE  IInv'
<1>. DEFINE e == [outbox[n] EXCEPT !.due = TRUE]
<1>1. UNCHANGED <<call, batch, watched, running, up, posts, accepted,
                  notifiesLeft, commandsLeft, crashesLeft>>
  BY DEF BackoffPasses, worker, ghosts, bounds
<1>2. outbox \in [Notifications -> Entries] /\ posts \in [Notifications -> Nat]
  BY DEF IInv, TypeOK
<1>3. outbox' = [outbox EXCEPT ![n] = e]
  BY <1>2 DEF BackoffPasses
<1>4. e \in Entries /\ e.status = outbox[n].status /\ e.cycles = outbox[n].cycles
  BY <1>2 DEF Entries
<1>5. /\ posts' \in [Notifications -> Nat]
      /\ \A m \in Notifications : posts'[m] >= posts[m]
      /\ accepted \subseteq accepted'
  BY <1>1, <1>2
<1>6. posts'[n] >= Worth(e.cycles)
  BY <1>1, <1>4 DEF IInv, EntriesEarned
<1>7. /\ e.status = "delivered" => n \in accepted'
      /\ e.status = "dead-lettered" => e.cycles >= MaxCycles
  BY <1>1, <1>4 DEF IInv, DeliveredWasAccepted, DeadLettersCounted
<1>. HIDE DEF e
<1>8. /\ outbox' \in [Notifications -> Entries]
      /\ DeliveredWasAccepted'
      /\ EntriesEarned'
      /\ DeadLettersCounted'
  BY <1>3, <1>4, <1>5, <1>6, <1>7, WriteKeeps
<1>9. TypeOK'
  BY <1>1, <1>8 DEF IInv, TypeOK
<1>10. BatchEarned' /\ CallsEarned'
  BY <1>1 DEF IInv, BatchEarned, CallsEarned, Worth
<1>. QED
  BY <1>8, <1>9, <1>10 DEF IInv

\* A dead process has no calls and no batch; its entries stay.
LEMMA CrashKeeps ==
  ASSUME IInv, Crash
  PROVE  IInv'
<1>1. UNCHANGED <<outbox, posts, accepted, notifiesLeft, commandsLeft>>
  BY DEF Crash, ghosts
<1>2. crashesLeft' \in Nat
  BY DEF Crash, IInv, TypeOK
<1>3. /\ call' \in [Callers -> Cycles \cup {Idle}]
      /\ \A d \in Callers : call'[d] = Idle
      /\ batch' = {}
      /\ {watched', running', up'} \subseteq BOOLEAN
  BY DeadKeeps DEF Crash
<1>4. TypeOK'
  BY <1>1, <1>2, <1>3 DEF IInv, TypeOK
<1>5. BatchEarned' /\ CallsEarned'
  BY <1>3 DEF BatchEarned, CallsEarned
<1>6. DeliveredWasAccepted' /\ EntriesEarned' /\ DeadLettersCounted'
  BY <1>1 DEF IInv, DeliveredWasAccepted, EntriesEarned, DeadLettersCounted, Worth
<1>. QED
  BY <1>4, <1>5, <1>6 DEF IInv

\* When calls only return and a batch only shrinks, what is left stays earned.
LEMMA ReturnKeeps ==
  ASSUME IInv, posts' \in [Notifications -> Nat],
         \A m \in Notifications : posts'[m] >= posts[m],
         \A d \in Callers : call'[d] \in {call[d], Idle},
         batch' \subseteq batch
  PROVE  CallsEarned' /\ BatchEarned'
<1>1. BatchEarned'
  BY PostsKeep DEF BatchEarned, Worth
<1>2. ASSUME NEW d \in Callers, call'[d] # Idle
      PROVE  posts'[call'[d].id] >=
               Worth(call'[d].cycles)
                 + (MaxAttempts - (call'[d].upTo - call'[d].attempts))
  <2>1. call'[d] = call[d] /\ call[d] # Idle
    BY <1>2
  <2>2. posts'[call[d].id] >=
          Worth(call[d].cycles)
            + (MaxAttempts - (call[d].upTo - call[d].attempts))
    BY <2>1, PostsKeep
  <2>. QED
    BY <2>1, <2>2
<1>. QED
  BY <1>1, <1>2 DEF CallsEarned, Worth

\* An answer adds one post of the notification of the call.
LEMMA CountFacts ==
  ASSUME IInv, NEW n \in Notifications, NEW ok \in BOOLEAN, Count(n, ok)
  PROVE  /\ posts' \in [Notifications -> Nat]
         /\ \A m \in Notifications : posts'[m] >= posts[m]
         /\ posts'[n] = posts[n] + 1
         /\ accepted' \subseteq Notifications
         /\ accepted \subseteq accepted'
         /\ ok => n \in accepted'
<1>1. posts \in [Notifications -> Nat] /\ accepted \subseteq Notifications
  BY DEF IInv, TypeOK
<1>2. posts' = [posts EXCEPT ![n] = @ + 1]
  BY DEF Count
<1>3. posts' \in [Notifications -> Nat] /\ posts'[n] = posts[n] + 1
  BY <1>1, <1>2
<1>4. \A m \in Notifications : posts'[m] >= posts[m]
  BY <1>1, <1>2
<1>5. /\ accepted' \subseteq Notifications
      /\ accepted \subseteq accepted'
      /\ ok => n \in accepted'
  BY <1>1 DEF Count
<1>. QED
  BY <1>3, <1>4, <1>5

\* What the posts of a call in progress have answered for.
LEMMA CallFacts ==
  ASSUME IInv, NEW c \in Callers, call[c] # Idle
  PROVE  /\ call[c] \in Cycles
         /\ call[c].upTo - call[c].attempts \in 1..MaxAttempts
         /\ Worth(call[c].cycles) \in Nat
         /\ posts[call[c].id] \in Nat
         /\ posts[call[c].id] >=
              Worth(call[c].cycles)
                + (MaxAttempts - (call[c].upTo - call[c].attempts))
<1>1. call[c] \in Cycles
  BY DEF IInv, TypeOK
<1>2. Worth(call[c].cycles) \in Nat
  BY <1>1, WorthFacts DEF Cycles
<1>3. posts[call[c].id] \in Nat
  BY <1>1 DEF IInv, TypeOK, Cycles
<1>. QED
  BY <1>1, <1>2, <1>3 DEF IInv, TypeOK, CallsEarned

\* An accepted post is recorded as delivered, with the failed cycles that the
\* call has read.
LEMMA AcceptKeeps ==
  ASSUME IInv, NEW c \in Callers, call[c] # Idle,
         Count(call[c].id, TRUE), Accept(c), UNCHANGED bounds
  PROVE  IInv'
<1>. DEFINE k == call[c]
            e == [status |-> "delivered", attempts |-> k.attempts + 1,
                  cycles |-> k.cycles, due |-> FALSE]
<1>1. /\ k \in Cycles
      /\ k.upTo - k.attempts \in 1..MaxAttempts
      /\ Worth(k.cycles) \in Nat
      /\ posts[k.id] \in Nat
      /\ posts[k.id] >= Worth(k.cycles) + (MaxAttempts - (k.upTo - k.attempts))
  BY CallFacts
<1>2. k.id \in Notifications
  BY <1>1 DEF Cycles
<1>3. /\ posts' \in [Notifications -> Nat]
      /\ \A m \in Notifications : posts'[m] >= posts[m]
      /\ posts'[k.id] = posts[k.id] + 1
      /\ accepted' \subseteq Notifications
      /\ accepted \subseteq accepted'
      /\ k.id \in accepted'
  BY <1>2, CountFacts
<1>4. outbox' = [outbox EXCEPT ![k.id] = e]
  BY DEF Accept, Write
<1>5. e \in Entries /\ e.status = "delivered" /\ e.cycles = k.cycles
  BY <1>1 DEF Entries, Statuses, Cycles
<1>6. posts'[k.id] >= Worth(e.cycles)
  <2>1. k.upTo - k.attempts \in Int /\ k.upTo - k.attempts <= MaxAttempts
    BY <1>1, OutboxAssumption
  <2>2. posts[k.id] >= Worth(k.cycles)
    BY <1>1, <2>1, OutboxAssumption
  <2>. QED
    BY <1>1, <1>3, <1>5, <2>2
<1>. HIDE DEF e
<1>7. /\ outbox' \in [Notifications -> Entries]
      /\ DeliveredWasAccepted'
      /\ EntriesEarned'
      /\ DeadLettersCounted'
  BY <1>2, <1>3, <1>4, <1>5, <1>6, WriteKeeps
<1>8. /\ call \in [Callers -> Cycles \cup {Idle}]
      /\ call' = [call EXCEPT ![c] = Idle]
      /\ UNCHANGED <<batch, running, up>>
      /\ watched' \in BOOLEAN
  BY DEF Accept, IInv, TypeOK
<1>9. /\ call' \in [Callers -> Cycles \cup {Idle}]
      /\ \A d \in Callers : call'[d] \in {call[d], Idle}
  BY <1>8
<1>10. CallsEarned' /\ BatchEarned'
  BY <1>3, <1>8, <1>9, ReturnKeeps
<1>11. TypeOK'
  BY <1>3, <1>7, <1>8, <1>9 DEF IInv, TypeOK, bounds
<1>. QED
  BY <1>7, <1>10, <1>11 DEF IInv

\* A refused post leaves the call with one attempt fewer.
LEMMA RetryKeeps ==
  ASSUME IInv, NEW c \in Callers, call[c] # Idle,
         Count(call[c].id, FALSE), Retry(c), UNCHANGED bounds
  PROVE  IInv'
<1>. DEFINE k == call[c]
<1>1. /\ k \in Cycles
      /\ k.upTo - k.attempts \in 1..MaxAttempts
      /\ Worth(k.cycles) \in Nat
      /\ posts[k.id] \in Nat
      /\ posts[k.id] >= Worth(k.cycles) + (MaxAttempts - (k.upTo - k.attempts))
  BY CallFacts
<1>2. /\ k.id \in Notifications
      /\ k.attempts \in Nat
      /\ k.upTo \in Nat
      /\ k.attempts + 1 < k.upTo
  BY <1>1 DEF Cycles, Retry
<1>3. /\ posts' \in [Notifications -> Nat]
      /\ \A m \in Notifications : posts'[m] >= posts[m]
      /\ posts'[k.id] = posts[k.id] + 1
      /\ accepted' \subseteq Notifications
      /\ accepted \subseteq accepted'
  BY <1>2, CountFacts
<1>4. UNCHANGED <<outbox, batch, watched, running, up, notifiesLeft,
                  commandsLeft, crashesLeft>>
  BY DEF Retry, worker, bounds
<1>5. call \in [Callers -> Cycles \cup {Idle}]
  BY DEF IInv, TypeOK
<1>6. call' = [call EXCEPT ![c] = [k EXCEPT !.attempts = k.attempts + 1]]
  BY DEF Retry
<1>7. /\ call'[c] \in Cycles
      /\ call'[c].id = k.id
      /\ call'[c].cycles = k.cycles
      /\ call'[c].upTo = k.upTo
      /\ call'[c].attempts = k.attempts + 1
  BY <1>1, <1>2, <1>5, <1>6 DEF Cycles
<1>8. /\ call' \in [Callers -> Cycles \cup {Idle}]
      /\ \A d \in Callers \ {c} : call'[d] = call[d]
  BY <1>5, <1>6, <1>7
<1>9. \A d \in Callers :
        call'[d] # Idle => call'[d].upTo - call'[d].attempts \in 1..MaxAttempts
  <2>1. k.upTo - (k.attempts + 1) \in 1..MaxAttempts
    BY <1>1, <1>2, OutboxAssumption
  <2>. QED
    BY <1>7, <1>8, <2>1 DEF IInv, TypeOK
<1>10. ASSUME NEW d \in Callers, call'[d] # Idle
       PROVE  posts'[call'[d].id] >=
                Worth(call'[d].cycles)
                  + (MaxAttempts - (call'[d].upTo - call'[d].attempts))
  <2>1. CASE d = c
    BY <2>1, <1>1, <1>2, <1>3, <1>7, OutboxAssumption
  <2>2. CASE d # c
    <3>1. call'[d] = call[d] /\ call[d] # Idle
      BY <1>8, <1>10, <2>2
    <3>2. posts'[call[d].id] >=
            Worth(call[d].cycles)
              + (MaxAttempts - (call[d].upTo - call[d].attempts))
      BY <1>3, <3>1, PostsKeep
    <3>. QED
      BY <3>1, <3>2
  <2>. QED
    BY <2>1, <2>2
<1>11. TypeOK'
  BY <1>3, <1>4, <1>8, <1>9 DEF IInv, TypeOK
<1>12. BatchEarned'
  BY <1>3, <1>4, PostsKeep DEF BatchEarned, Worth
<1>13. CallsEarned'
  BY <1>10 DEF CallsEarned, Worth
<1>14. EntriesEarned'
  <2>. SUFFICES ASSUME NEW n \in Notifications
               PROVE  posts'[n] >= Worth(outbox[n].cycles)
    BY <1>4 DEF EntriesEarned, Worth
  <2>1. Worth(outbox[n].cycles) \in Nat
    BY WorthFacts DEF IInv, TypeOK, Entries
  <2>2. posts[n] >= Worth(outbox[n].cycles)
    BY DEF IInv, EntriesEarned
  <2>. QED
    BY <1>3, <2>1, <2>2 DEF IInv, TypeOK
<1>15. DeliveredWasAccepted' /\ DeadLettersCounted'
  BY <1>3, <1>4 DEF IInv, DeliveredWasAccepted, DeadLettersCounted
<1>. QED
  BY <1>11, <1>12, <1>13, <1>14, <1>15 DEF IInv

\* The call whose cycle has failed returns, and a batch or a process may end
\* with it.
LEMMA ThrowFacts ==
  ASSUME IInv, NEW c \in Callers, Throw(c)
  PROVE  /\ call' \in [Callers -> Cycles \cup {Idle}]
         /\ \A d \in Callers : call'[d] \in {call[d], Idle}
         /\ batch' \subseteq batch
         /\ {watched', running', up'} \subseteq BOOLEAN
<1>1. /\ call \in [Callers -> Cycles \cup {Idle}]
      /\ {watched, running, up} \subseteq BOOLEAN
  BY DEF IInv, TypeOK
<1>2. CASE Dead
  BY <1>2, DeadKeeps
<1>3. CASE /\ call' = [call EXCEPT ![c] = Idle]
           /\ batch' = IF c = Worker THEN {} ELSE batch
           /\ UNCHANGED <<watched, running, up>>
  BY <1>1, <1>3
<1>. QED
  BY <1>2, <1>3 DEF Throw

\* The last refused post of a cycle completes the posts the cycle is worth.
LEMMA GiveUpKeeps ==
  ASSUME IInv, NEW c \in Callers, call[c] # Idle,
         Count(call[c].id, FALSE), GiveUp(c), UNCHANGED bounds
  PROVE  IInv'
<1>. DEFINE k == call[c]
            s == IF k.cycles + 1 >= MaxCycles THEN "dead-lettered" ELSE "failed"
            e == [status |-> s, attempts |-> k.attempts + 1,
                  cycles |-> k.cycles + 1, due |-> FALSE]
<1>1. /\ k \in Cycles
      /\ k.upTo - k.attempts \in 1..MaxAttempts
      /\ Worth(k.cycles) \in Nat
      /\ posts[k.id] \in Nat
      /\ posts[k.id] >= Worth(k.cycles) + (MaxAttempts - (k.upTo - k.attempts))
  BY CallFacts
<1>2. /\ k.id \in Notifications
      /\ k.attempts \in Nat
      /\ k.upTo \in Nat
      /\ k.cycles \in Nat
      /\ k.attempts + 1 >= k.upTo
  BY <1>1 DEF Cycles, GiveUp
<1>3. /\ posts' \in [Notifications -> Nat]
      /\ \A m \in Notifications : posts'[m] >= posts[m]
      /\ posts'[k.id] = posts[k.id] + 1
      /\ accepted' \subseteq Notifications
      /\ accepted \subseteq accepted'
  BY <1>2, CountFacts
<1>4. outbox' = [outbox EXCEPT ![k.id] = e]
  BY DEF GiveUp, Write
<1>5. /\ e \in Entries
      /\ e.status # "delivered"
      /\ e.cycles = k.cycles + 1
      /\ e.status = "dead-lettered" => e.cycles >= MaxCycles
  BY <1>2 DEF Entries, Statuses
<1>6. posts'[k.id] >= Worth(e.cycles)
  <2>1. k.upTo - k.attempts = 1
    BY <1>1, <1>2, OutboxAssumption
  <2>2. posts[k.id] >= Worth(k.cycles) + (MaxAttempts - 1)
    BY <1>1, <2>1
  <2>3. Worth(e.cycles) = Worth(k.cycles) + MaxAttempts
    BY <1>2, <1>5, WorthFacts
  <2>. QED
    BY <1>1, <1>3, <2>2, <2>3, OutboxAssumption
<1>. HIDE DEF e
<1>7. /\ outbox' \in [Notifications -> Entries]
      /\ DeliveredWasAccepted'
      /\ EntriesEarned'
      /\ DeadLettersCounted'
  BY <1>2, <1>3, <1>4, <1>5, <1>6, WriteKeeps
<1>8. /\ call' \in [Callers -> Cycles \cup {Idle}]
      /\ \A d \in Callers : call'[d] \in {call[d], Idle}
      /\ batch' \subseteq batch
      /\ {watched', running', up'} \subseteq BOOLEAN
  BY ThrowFacts DEF GiveUp
<1>9. CallsEarned' /\ BatchEarned'
  BY <1>3, <1>8, ReturnKeeps
<1>10. TypeOK'
  BY <1>3, <1>7, <1>8 DEF IInv, TypeOK, bounds
<1>. QED
  BY <1>7, <1>9, <1>10 DEF IInv

-----------------------------------------------------------------------------

\* Every step keeps the invariant.
LEMMA NextKeeps == IInv /\ [Next]_vars => IInv'
<1>. SUFFICES ASSUME IInv, [Next]_vars PROVE IInv'
  OBVIOUS
<1>1. ASSUME NEW c \in Posters, NEW n \in Notifications, Notify(c, n)
      PROVE  IInv'
  BY <1>1, NotifyKeeps
<1>2. ASSUME NEW c \in Posters, NEW n \in Notifications, Redeliver(c, n)
      PROVE  IInv'
  BY <1>2, RedeliverKeeps
<1>3. CASE RunWorker
  <2>1. UNCHANGED <<outbox, call, ghosts, notifiesLeft>>
    BY <1>3 DEF RunWorker, Command
  <2>2. batch' \subseteq {Read(n) : n \in Notifications}
    BY <1>3 DEF RunWorker, Eligible, Failed
  <2>3. {watched', running', up'} \subseteq BOOLEAN
    BY <1>3 DEF RunWorker, IInv, TypeOK
  <2>4. {commandsLeft', crashesLeft'} \subseteq Nat
    BY <1>3 DEF RunWorker, Command, IInv, TypeOK
  <2>. QED
    BY <2>1, <2>2, <2>3, <2>4, BatchKeeps
<1>4. CASE StartWorker
  BY <1>4, BatchKeeps DEF StartWorker, Command, IInv, TypeOK
<1>5. CASE StopWorker
  <2>1. UNCHANGED <<outbox, call, batch, ghosts, notifiesLeft>>
    BY <1>5 DEF StopWorker, Command
  <2>2. {watched', running', up'} \subseteq BOOLEAN
    BY <1>5 DEF StopWorker, IInv, TypeOK
  <2>3. {commandsLeft', crashesLeft'} \subseteq Nat
    BY <1>5 DEF StopWorker, Command, IInv, TypeOK
  <2>. QED
    BY <2>1, <2>2, <2>3, BatchKeeps
<1>6. CASE Tick
  BY <1>6, BatchKeeps DEF Tick, Eligible, Failed, bounds, IInv, TypeOK
<1>7. CASE TakeNext
  BY <1>7, TakeNextKeeps
<1>8. ASSUME NEW c \in Callers, NEW ok \in BOOLEAN, Answer(c, ok)
      PROVE  IInv'
  <2>1. CASE ok
    BY <1>8, <2>1, AcceptKeeps DEF Answer
  <2>2. CASE ~ok
    BY <1>8, <2>2, RetryKeeps, GiveUpKeeps DEF Answer
  <2>. QED
    BY <2>1, <2>2
<1>9. ASSUME NEW n \in Notifications, BackoffPasses(n)
      PROVE  IInv'
  BY <1>9, BackoffKeeps
<1>10. CASE Crash
  BY <1>10, CrashKeeps
<1>11. CASE Restart
  BY <1>11, BatchKeeps DEF Restart, bounds, IInv, TypeOK
<1>12. CASE UNCHANGED vars
  BY <1>12, BatchKeeps DEF vars, worker, bounds, IInv, TypeOK
<1>. QED
  BY <1>1, <1>2, <1>3, <1>4, <1>5, <1>6, <1>7, <1>8, <1>9, <1>10, <1>11, <1>12
     DEF Next, ServiceNext, WorkerNext, AnswerNext, EnvironmentNext

\* Every reachable state satisfies the invariant.
LEMMA InvariantHolds == Spec => []IInv
BY InitIInv, NextKeeps, PTL DEF Spec

\* The outbox is always well typed, and no call posts more often than its cycle
\* allows (the loop of postNotification).
THEOREM OutboxTypeCorrect == Spec => []TypeOK
<1>1. IInv => TypeOK
  BY DEF IInv
<1>. QED
  BY <1>1, InvariantHolds, PTL

\* An entry that says "delivered" had a 2xx answer.
THEOREM DeliveryIsTrue == Spec => []DeliveredWasAccepted
<1>1. IInv => DeliveredWasAccepted
  BY DEF IInv
<1>. QED
  BY <1>1, InvariantHolds, PTL

\* An entry is dead-lettered only after MaxCycles times MaxAttempts posts, for
\* any number of concurrent calls, crashes and operator's commands.
THEOREM DeadLetterAfterAllPosts == Spec => []DeadLetterIsEarned
<1>1. ASSUME IInv, NEW n \in Notifications, outbox[n].status = "dead-lettered"
      PROVE  posts[n] >= MaxCycles * MaxAttempts
  <2>1. outbox[n].cycles \in Nat /\ posts[n] \in Nat
    BY <1>1 DEF IInv, TypeOK, Entries
  <2>2. outbox[n].cycles >= MaxCycles
    BY <1>1 DEF IInv, DeadLettersCounted
  <2>3. posts[n] >= Worth(outbox[n].cycles)
    BY <1>1 DEF IInv, EntriesEarned
  <2>4. /\ Worth(outbox[n].cycles) >= Worth(MaxCycles)
        /\ Worth(outbox[n].cycles) \in Nat
        /\ Worth(MaxCycles) \in Nat
    BY <2>1, <2>2, WorthFacts, OutboxAssumption
  <2>5. posts[n] >= Worth(MaxCycles)
    BY <2>1, <2>3, <2>4
  <2>. QED
    BY <2>5 DEF Worth
<1>2. IInv => DeadLetterIsEarned
  BY <1>1 DEF DeadLetterIsEarned
<1>. QED
  BY <1>2, InvariantHolds, PTL

-----------------------------------------------------------------------------
(* How often a receiver is called.                                         *)
(*                                                                         *)
(* PostsAreBounded is not inductive either: what has been posted says      *)
(* nothing of what is still to be posted.  Every place where counts are    *)
(* kept promises posts: a call the rest of its cycle and the cycles after  *)
(* it, a failed entry the cycles that it has left.  The posts answered and *)
(* the posts promised together never exceed what was paid for.  The        *)
(* promises of the posters' calls are summed up: each may write its counts *)
(* back.  An entry and what the worker has read of it are alternatives:    *)
(* one of the two is all that will be posted.  While the worker posts, the *)
(* entry it has read promises again what was answered of the cycle; only a *)
(* crash lets that happen, and pays for it.                                *)

\* The cycles that are left after k of them have failed; there is always one.
Rounds(k) == IF k < MaxCycles THEN MaxCycles - k ELSE 1

\* The posts that a call in progress may still cause, and those of an entry.
CallWorth(k) == Worth(Rounds(k.cycles)) - (MaxAttempts - (k.upTo - k.attempts))

EntryWorth(e) == IF e.status = "failed" THEN Worth(Rounds(e.cycles)) ELSE 0

\* What was paid when a notifications, b commands and k crashes are left.
Paid(a, b, k) ==
  Worth(MaxCycles * ((MaxNotifies - a) + (MaxCommands - b)) + (MaxCrashes - k))

\* The posts of n that the posters' calls f may still cause, one by one.
OwedBy(f, n) ==
  [c \in Posters |-> IF f[c] # Idle /\ f[c].id = n THEN CallWorth(f[c]) ELSE 0]

Units(owed) == {u \in Posters \X Nat : u[2] \in 1..owed[u[1]]}

Promised(f, n) == Cardinality(Units(OwedBy(f, n)))

\* The posts of n that the worker's cycle has had answered.
Done(f, n) ==
  IF f[Worker] # Idle /\ f[Worker].id = n
  THEN MaxAttempts - (f[Worker].upTo - f[Worker].attempts)
  ELSE 0

CausesCounted ==
  /\ \A n \in Notifications : notifiesLeft[n] <= MaxNotifies
  /\ commandsLeft <= MaxCommands
  /\ crashesLeft <= MaxCrashes

PromisesFinite == \A n \in Notifications : IsFiniteSet(Units(OwedBy(call, n)))

\* The worker has every notification in one place at most.
WorkerOnce ==
  /\ \A r, s \in batch : r.id = s.id => r = s
  /\ call[Worker] # Idle => \A r \in batch : r.id # call[Worker].id

EntriesPaid ==
  \A n \in Notifications :
    posts[n] + Promised(call, n) + EntryWorth(outbox[n]) <=
      Paid(notifiesLeft[n], commandsLeft, crashesLeft) + Done(call, n)

WorkerPaid ==
  \A n \in Notifications :
    call[Worker] # Idle /\ call[Worker].id = n =>
      posts[n] + Promised(call, n) + CallWorth(call[Worker]) <=
        Paid(notifiesLeft[n], commandsLeft, crashesLeft)

BatchPaid ==
  \A n \in Notifications, r \in batch :
    r.id = n =>
      posts[n] + Promised(call, n) + Worth(Rounds(r.cycles)) <=
        Paid(notifiesLeft[n], commandsLeft, crashesLeft)

PInv ==
  /\ CausesCounted
  /\ PromisesFinite
  /\ WorkerOnce
  /\ EntriesPaid
  /\ WorkerPaid
  /\ BatchPaid

\* The part of TypeOK that is about the calls, of any calls.
CallsTyped(f) ==
  /\ f \in [Callers -> Cycles \cup {Idle}]
  /\ \A c \in Callers : f[c] # Idle => f[c].upTo - f[c].attempts \in 1..MaxAttempts

-----------------------------------------------------------------------------

\* What the cycles that are left are worth.
LEMMA RoundFacts ==
  ASSUME NEW k \in Nat
  PROVE  /\ Rounds(k) \in Nat
         /\ Worth(Rounds(k)) \in Nat
         /\ Worth(Rounds(k)) >= MaxAttempts
         /\ Worth(Rounds(k)) <= Worth(MaxCycles)
         /\ k + 1 < MaxCycles => Worth(Rounds(k)) = Worth(Rounds(k + 1)) + MaxAttempts
<1>. USE OutboxAssumption
<1>1. Rounds(k) \in Nat /\ Rounds(k) >= 1 /\ Rounds(k) <= MaxCycles
  BY DEF Rounds
<1>2. Worth(1) = MaxAttempts
  BY WorthFacts
<1>3. Worth(Rounds(k)) \in Nat /\ Worth(Rounds(k)) >= Worth(1)
  BY <1>1, WorthFacts
<1>4. Worth(Rounds(k)) <= Worth(MaxCycles)
  BY <1>1, <1>3, WorthFacts
<1>5. ASSUME k + 1 < MaxCycles
      PROVE  Worth(Rounds(k)) = Worth(Rounds(k + 1)) + MaxAttempts
  <2>1. Rounds(k) = Rounds(k + 1) + 1 /\ Rounds(k + 1) \in Nat
    BY <1>5 DEF Rounds
  <2>. QED
    BY <2>1, WorthFacts
<1>. QED
  BY <1>1, <1>2, <1>3, <1>4, <1>5

\* A call in progress promises at least the attempts it has left.
LEMMA CallWorthFacts ==
  ASSUME NEW k \in Cycles, k.upTo - k.attempts \in 1..MaxAttempts
  PROVE  /\ CallWorth(k) \in Nat
         /\ CallWorth(k) >= k.upTo - k.attempts
         /\ CallWorth(k) <= Worth(Rounds(k.cycles))
<1>1. /\ k.cycles \in Nat
      /\ k.upTo \in Nat
      /\ k.attempts \in Nat
  BY DEF Cycles
<1>2. Worth(Rounds(k.cycles)) \in Nat /\ Worth(Rounds(k.cycles)) >= MaxAttempts
  BY <1>1, RoundFacts
<1>. QED
  BY <1>1, <1>2, OutboxAssumption DEF CallWorth

LEMMA EntryWorthFacts ==
  ASSUME NEW e \in Entries
  PROVE  EntryWorth(e) \in Nat
BY RoundFacts DEF EntryWorth, Entries

\* A notification or a command pays MaxCycles cycles, and a crash pays one.
LEMMA PaidFacts ==
  ASSUME NEW a \in Nat, NEW b \in Nat, NEW k \in Nat,
         a <= MaxNotifies, b <= MaxCommands, k <= MaxCrashes
  PROVE  /\ Paid(a, b, k) \in Nat
         /\ a > 0 => Paid(a - 1, b, k) = Paid(a, b, k) + Worth(MaxCycles)
         /\ b > 0 => Paid(a, b - 1, k) = Paid(a, b, k) + Worth(MaxCycles)
         /\ k > 0 => Paid(a, b, k - 1) = Paid(a, b, k) + MaxAttempts
<1>. USE OutboxAssumption
<1> DEFINE c == (MaxNotifies - a) + (MaxCommands - b)
           w == MaxCycles * c + (MaxCrashes - k)
<1>1. c \in Nat /\ MaxCrashes - k \in Nat
  OBVIOUS
<1>2. MaxCycles * c \in Nat /\ MaxCycles * (c + 1) = MaxCycles * c + MaxCycles
  BY <1>1
<1>3. w \in Nat
  BY <1>1, <1>2
<1>4. Worth(w + MaxCycles) = Worth(w) + Worth(MaxCycles)
  <2>1. (w + MaxCycles) * MaxAttempts = w * MaxAttempts + MaxCycles * MaxAttempts
    BY <1>3
  <2>. QED
    BY <2>1 DEF Worth
<1>5. Worth(w) \in Nat /\ Worth(w + 1) = Worth(w) + MaxAttempts
  BY <1>3, WorthFacts
<1>6. Paid(a, b, k) = Worth(w)
  BY DEF Paid
<1>7. (MaxNotifies - (a - 1)) + (MaxCommands - b) = c + 1
  OBVIOUS
<1>8. (MaxNotifies - a) + (MaxCommands - (b - 1)) = c + 1
  OBVIOUS
<1>9. MaxCycles * (c + 1) + (MaxCrashes - k) = w + MaxCycles
  BY <1>1, <1>2
<1>10. MaxCycles * c + (MaxCrashes - (k - 1)) = w + 1
  BY <1>1, <1>2
<1>11. Paid(a - 1, b, k) = Worth(w + MaxCycles)
  BY <1>7, <1>9 DEF Paid
<1>12. Paid(a, b - 1, k) = Worth(w + MaxCycles)
  BY <1>8, <1>9 DEF Paid
<1>13. Paid(a, b, k - 1) = Worth(w + 1)
  BY <1>10 DEF Paid
<1>. QED
  BY <1>4, <1>5, <1>6, <1>11, <1>12, <1>13

\* A block of n units has n elements.
LEMMA UnitsOfOne ==
  ASSUME NEW c, NEW n \in Nat
  PROVE  IsFiniteSet({c} \X (1..n)) /\ Cardinality({c} \X (1..n)) = n
<1>1. IsFiniteSet({c}) /\ Cardinality({c}) = 1
  BY FS_Singleton
<1>2. IsFiniteSet(1..n) /\ Cardinality(1..n) = n
  BY FS_Interval
<1>3. /\ IsFiniteSet({c} \X (1..n))
      /\ Cardinality({c} \X (1..n)) = Cardinality({c}) * Cardinality(1..n)
  BY <1>1, <1>2, FS_Product
<1>. QED
  BY <1>1, <1>2, <1>3

\* The units of all posters are those of one of them and those of the others.
LEMMA UnitsSplit ==
  ASSUME NEW f \in [Posters -> Nat], NEW c \in Posters, NEW Rest,
         Rest = {u \in Units(f) : u[1] # c}, IsFiniteSet(Rest)
  PROVE  /\ IsFiniteSet(Units(f))
         /\ Cardinality(Rest) \in Nat
         /\ Cardinality(Units(f)) = Cardinality(Rest) + f[c]
<1> DEFINE B == {c} \X (1..f[c])
<1>1. f[c] \in Nat
  OBVIOUS
<1>2. IsFiniteSet(B) /\ Cardinality(B) = f[c]
  BY <1>1, UnitsOfOne
<1>3. Units(f) = Rest \cup B
  <2>1. ASSUME NEW u \in Units(f) PROVE u \in Rest \cup B
    BY <2>1 DEF Units
  <2>2. ASSUME NEW u \in B PROVE u \in Units(f)
    <3>1. u \in Posters \X Nat /\ u[1] = c /\ u[2] \in 1..f[c]
      BY <1>1
    <3>. QED
      BY <3>1 DEF Units
  <2>. QED
    BY <2>1, <2>2
<1>4. Rest \cap B = {}
  OBVIOUS
<1>. HIDE DEF B
<1>5. /\ IsFiniteSet(Rest \cup B)
      /\ Cardinality(Rest \cup B) =
           Cardinality(Rest) + Cardinality(B) - Cardinality(Rest \cap B)
  BY <1>2, FS_Union
<1>6. Cardinality(Rest \cap B) = 0
  BY <1>4, FS_EmptySet
<1>7. Cardinality(Rest) \in Nat
  BY FS_CardinalityType
<1>8. Cardinality(Rest \cup B) = Cardinality(Rest) + f[c]
  BY <1>1, <1>2, <1>5, <1>6, <1>7
<1>. QED
  BY <1>3, <1>5, <1>7, <1>8

\* When one poster's promise changes, the sum changes by the difference.
LEMMA UnitsChange ==
  ASSUME NEW f \in [Posters -> Nat], NEW g \in [Posters -> Nat], NEW c \in Posters,
         \A d \in Posters : d # c => g[d] = f[d],
         IsFiniteSet(Units(f))
  PROVE  /\ IsFiniteSet(Units(g))
         /\ Cardinality(Units(f)) \in Nat
         /\ Cardinality(Units(g)) \in Nat
         /\ Cardinality(Units(g)) = Cardinality(Units(f)) - f[c] + g[c]
<1> DEFINE Rest == {u \in Units(f) : u[1] # c}
<1>1. Rest = {u \in Units(g) : u[1] # c}
  BY DEF Units
<1>2. IsFiniteSet(Rest)
  BY FS_Subset
<1>3. /\ Cardinality(Rest) \in Nat
      /\ Cardinality(Units(f)) = Cardinality(Rest) + f[c]
  BY <1>2, UnitsSplit
<1>4. /\ IsFiniteSet(Units(g))
      /\ Cardinality(Units(g)) = Cardinality(Rest) + g[c]
  BY <1>1, <1>2, UnitsSplit
<1>5. f[c] \in Nat /\ g[c] \in Nat
  OBVIOUS
<1>. QED
  BY <1>3, <1>4, <1>5

\* Smaller promises have a smaller sum.
LEMMA UnitsShrink ==
  ASSUME NEW f \in [Posters -> Nat], NEW g \in [Posters -> Nat],
         \A d \in Posters : g[d] <= f[d],
         IsFiniteSet(Units(f))
  PROVE  /\ IsFiniteSet(Units(g))
         /\ Cardinality(Units(f)) \in Nat
         /\ Cardinality(Units(g)) \in Nat
         /\ Cardinality(Units(g)) <= Cardinality(Units(f))
<1>1. ASSUME NEW u \in Units(g) PROVE u \in Units(f)
  <2>1. u \in Posters \X Nat /\ u[2] \in 1..g[u[1]]
    BY DEF Units
  <2>2. g[u[1]] \in Nat /\ f[u[1]] \in Nat /\ g[u[1]] <= f[u[1]] /\ u[2] \in Nat
    BY <2>1
  <2>3. u[2] \in 1..f[u[1]]
    BY <2>1, <2>2
  <2>. QED
    BY <2>1, <2>3 DEF Units
<1>2. Units(g) \in SUBSET Units(f)
  BY <1>1
<1>3. IsFiniteSet(Units(g)) /\ Cardinality(Units(g)) <= Cardinality(Units(f))
  BY <1>2, FS_Subset
<1>. QED
  BY <1>3, FS_CardinalityType

\* What a poster owes is a number.
LEMMA OwedType ==
  ASSUME NEW f, CallsTyped(f), NEW n
  PROVE  OwedBy(f, n) \in [Posters -> Nat]
<1>1. ASSUME NEW c \in Posters, f[c] # Idle PROVE CallWorth(f[c]) \in Nat
  BY <1>1, CallWorthFacts DEF CallsTyped, Callers
<1>. QED
  BY <1>1 DEF OwedBy

\* What the invariants say of the terms of the three inequalities.
LEMMA PaidTypes ==
  ASSUME IInv, PInv, NEW n \in Notifications
  PROVE  /\ CallsTyped(call)
         /\ posts[n] \in Nat
         /\ outbox[n] \in Entries
         /\ EntryWorth(outbox[n]) \in Nat
         /\ IsFiniteSet(Units(OwedBy(call, n)))
         /\ Promised(call, n) \in Nat
         /\ Paid(notifiesLeft[n], commandsLeft, crashesLeft) \in Nat
         /\ Done(call, n) \in Nat
         /\ Done(call, n) < MaxAttempts
<1>1. CallsTyped(call)
  BY DEF IInv, TypeOK, CallsTyped
<1>2. posts[n] \in Nat /\ outbox[n] \in Entries
  BY DEF IInv, TypeOK
<1>3. EntryWorth(outbox[n]) \in Nat
  BY <1>2, EntryWorthFacts
<1>4. IsFiniteSet(Units(OwedBy(call, n)))
  BY DEF PInv, PromisesFinite
<1>5. Promised(call, n) \in Nat
  BY <1>4, FS_CardinalityType DEF Promised
<1>6. Paid(notifiesLeft[n], commandsLeft, crashesLeft) \in Nat
  BY PaidFacts DEF IInv, TypeOK, PInv, CausesCounted
<1>7. Done(call, n) \in Nat /\ Done(call, n) < MaxAttempts
  BY <1>1, OutboxAssumption DEF Done, CallsTyped, Callers
<1>. QED
  BY <1>1, <1>2, <1>3, <1>4, <1>5, <1>6, <1>7

\* Calls that only return promise no more.
LEMMA PromisedShrinks ==
  ASSUME IInv, PInv, NEW g, CallsTyped(g), \A d \in Posters : g[d] \in {call[d], Idle},
         NEW n \in Notifications
  PROVE  /\ IsFiniteSet(Units(OwedBy(g, n)))
         /\ Promised(g, n) \in Nat
         /\ Promised(g, n) <= Promised(call, n)
<1>1. OwedBy(call, n) \in [Posters -> Nat] /\ OwedBy(g, n) \in [Posters -> Nat]
  BY PaidTypes, OwedType
<1>2. ASSUME NEW d \in Posters PROVE OwedBy(g, n)[d] <= OwedBy(call, n)[d]
  <2>1. CASE g[d] = call[d]
    <3>1. OwedBy(g, n)[d] = OwedBy(call, n)[d]
      BY <2>1 DEF OwedBy
    <3>. QED
      BY <1>1, <3>1
  <2>2. CASE g[d] = Idle
    <3>1. OwedBy(g, n)[d] = 0
      BY <2>2 DEF OwedBy
    <3>. QED
      BY <1>1, <3>1
  <2>. QED
    BY <2>1, <2>2
<1>3. IsFiniteSet(Units(OwedBy(call, n)))
  BY PaidTypes
<1>. QED
  BY <1>1, <1>2, <1>3, UnitsShrink DEF Promised

\* When the call of one poster changes, so does what is promised.
LEMMA PromisedChanges ==
  ASSUME IInv, PInv, NEW g, CallsTyped(g), NEW c \in Posters,
         \A d \in Posters : d # c => g[d] = call[d],
         NEW n \in Notifications
  PROVE  /\ IsFiniteSet(Units(OwedBy(g, n)))
         /\ Promised(g, n) \in Nat
         /\ OwedBy(call, n)[c] \in Nat
         /\ OwedBy(g, n)[c] \in Nat
         /\ Promised(g, n) = Promised(call, n) - OwedBy(call, n)[c] + OwedBy(g, n)[c]
<1>1. OwedBy(call, n) \in [Posters -> Nat] /\ OwedBy(g, n) \in [Posters -> Nat]
  BY PaidTypes, OwedType
<1>2. \A d \in Posters : d # c => OwedBy(g, n)[d] = OwedBy(call, n)[d]
  BY DEF OwedBy
<1>3. IsFiniteSet(Units(OwedBy(call, n)))
  BY PaidTypes
<1>. QED
  BY <1>1, <1>2, <1>3, UnitsChange DEF Promised

\* The calls stay typed.
LEMMA NextCallsTyped ==
  ASSUME IInv'
  PROVE  CallsTyped(call')
BY DEF IInv, TypeOK, CallsTyped

\* Nothing is paid at the start, and nothing is owed.
LEMMA InitPInv == Init => PInv
<1>. SUFFICES ASSUME Init PROVE PInv
  OBVIOUS
<1>1. CausesCounted
  BY OutboxAssumption DEF Init, CausesCounted
<1>2. ASSUME NEW n \in Notifications
      PROVE  Units(OwedBy(call, n)) = {}
  <2>1. \A c \in Posters : OwedBy(call, n)[c] = 0
    BY DEF Init, OwedBy, Callers
  <2>. QED
    BY <2>1 DEF Units
<1>3. IsFiniteSet({}) /\ Cardinality({}) = 0
  BY FS_EmptySet
<1>4. call[Worker] = Idle /\ batch = {}
  BY DEF Init, Callers
<1>5. EntriesPaid
  <2>. SUFFICES ASSUME NEW n \in Notifications
               PROVE  posts[n] + Promised(call, n) + EntryWorth(outbox[n]) <=
                        Paid(notifiesLeft[n], commandsLeft, crashesLeft) + Done(call, n)
    BY DEF EntriesPaid
  <2>1. posts[n] = 0 /\ EntryWorth(outbox[n]) = 0
    BY DEF Init, NoEntry, EntryWorth
  <2>2. Promised(call, n) = 0
    BY <1>2, <1>3 DEF Promised
  <2>3. Done(call, n) = 0
    BY <1>4 DEF Done
  <2>4. Paid(notifiesLeft[n], commandsLeft, crashesLeft) \in Nat
    BY PaidFacts, OutboxAssumption DEF Init
  <2>. QED
    BY <2>1, <2>2, <2>3, <2>4
<1>. QED
  BY <1>1, <1>2, <1>3, <1>4, <1>5
     DEF PInv, PromisesFinite, WorkerOnce, WorkerPaid, BatchPaid

\* The worker stays as it is, and whatever is posted or promised anew takes the
\* place of another promise or is paid for.
LEMMA BalancedKeeps ==
  ASSUME IInv, PInv, IInv', CausesCounted', PromisesFinite',
         call'[Worker] = call[Worker], batch' \subseteq batch,
         \A n \in Notifications :
           posts'[n] + Promised(call', n)
             + Paid(notifiesLeft[n], commandsLeft, crashesLeft) <=
           posts[n] + Promised(call, n)
             + Paid(notifiesLeft'[n], commandsLeft', crashesLeft'),
         \A n \in Notifications :
           posts'[n] + Promised(call', n) + EntryWorth(outbox'[n])
             + Paid(notifiesLeft[n], commandsLeft, crashesLeft) <=
           posts[n] + Promised(call, n) + EntryWorth(outbox[n])
             + Paid(notifiesLeft'[n], commandsLeft', crashesLeft')
  PROVE  PInv'
<1>1. WorkerOnce'
  BY DEF PInv, WorkerOnce
<1>2. ASSUME NEW n \in Notifications
      PROVE  /\ Paid(notifiesLeft'[n], commandsLeft', crashesLeft') \in Nat
             /\ EntryWorth(outbox'[n]) \in Nat
             /\ posts'[n] \in Nat
             /\ Promised(call', n) \in Nat
  <2>1. Paid(notifiesLeft'[n], commandsLeft', crashesLeft') \in Nat
    BY PaidFacts DEF IInv, TypeOK, CausesCounted
  <2>2. EntryWorth(outbox'[n]) \in Nat /\ posts'[n] \in Nat
    BY EntryWorthFacts DEF IInv, TypeOK
  <2>3. Promised(call', n) \in Nat
    BY FS_CardinalityType DEF Promised, PromisesFinite
  <2>. QED
    BY <2>1, <2>2, <2>3
<1>3. \A n \in Notifications : Done(call', n) = Done(call, n)
  BY DEF Done
<1>4. EntriesPaid'
  <2>. SUFFICES ASSUME NEW n \in Notifications
               PROVE  posts'[n] + Promised(call', n) + EntryWorth(outbox'[n]) <=
                        Paid(notifiesLeft'[n], commandsLeft', crashesLeft') + Done(call', n)
    BY DEF EntriesPaid
  <2>1. posts[n] + Promised(call, n) + EntryWorth(outbox[n]) <=
          Paid(notifiesLeft[n], commandsLeft, crashesLeft) + Done(call, n)
    BY DEF PInv, EntriesPaid
  <2>. QED
    BY <1>2, <1>3, <2>1, PaidTypes
<1>5. WorkerPaid'
  <2>. SUFFICES ASSUME NEW n \in Notifications, call[Worker] # Idle, call[Worker].id = n
               PROVE  posts'[n] + Promised(call', n) + CallWorth(call[Worker]) <=
                        Paid(notifiesLeft'[n], commandsLeft', crashesLeft')
    BY DEF WorkerPaid
  <2>1. posts[n] + Promised(call, n) + CallWorth(call[Worker]) <=
          Paid(notifiesLeft[n], commandsLeft, crashesLeft)
    BY DEF PInv, WorkerPaid
  <2>2. CallWorth(call[Worker]) \in Nat
    BY CallWorthFacts, PaidTypes DEF CallsTyped, Callers
  <2>. QED
    BY <1>2, <2>1, <2>2, PaidTypes
<1>6. BatchPaid'
  <2>. SUFFICES ASSUME NEW n \in Notifications, NEW r \in batch, r.id = n
               PROVE  posts'[n] + Promised(call', n) + Worth(Rounds(r.cycles)) <=
                        Paid(notifiesLeft'[n], commandsLeft', crashesLeft')
    BY DEF BatchPaid
  <2>1. posts[n] + Promised(call, n) + Worth(Rounds(r.cycles)) <=
          Paid(notifiesLeft[n], commandsLeft, crashesLeft)
    BY DEF PInv, BatchPaid
  <2>2. Worth(Rounds(r.cycles)) \in Nat
    BY RoundFacts DEF IInv, TypeOK, Reads
  <2>. QED
    BY <1>2, <2>1, <2>2, PaidTypes
<1>. QED
  BY <1>1, <1>4, <1>5, <1>6 DEF PInv

\* Nothing is posted, the calls and the worker's entries stay, no entry promises
\* more, and nothing that was paid is taken back.
LEMMA StandsKeeps ==
  ASSUME IInv, PInv, IInv', CausesCounted', UNCHANGED <<call, posts>>, batch' \subseteq batch,
         \A n \in Notifications : EntryWorth(outbox'[n]) <= EntryWorth(outbox[n]),
         \A n \in Notifications :
           Paid(notifiesLeft'[n], commandsLeft', crashesLeft') >=
             Paid(notifiesLeft[n], commandsLeft, crashesLeft)
  PROVE  PInv'
<1>1. PromisesFinite'
  BY DEF PInv, PromisesFinite
<1>2. ASSUME NEW n \in Notifications
      PROVE  /\ Paid(notifiesLeft'[n], commandsLeft', crashesLeft') \in Nat
             /\ EntryWorth(outbox'[n]) \in Nat
  BY PaidFacts, EntryWorthFacts DEF IInv, TypeOK, CausesCounted
<1>3. ASSUME NEW n \in Notifications
      PROVE  /\ posts[n] + Promised(call, n)
                  + Paid(notifiesLeft[n], commandsLeft, crashesLeft) <=
                posts[n] + Promised(call, n)
                  + Paid(notifiesLeft'[n], commandsLeft', crashesLeft')
             /\ posts[n] + Promised(call, n) + EntryWorth(outbox'[n])
                  + Paid(notifiesLeft[n], commandsLeft, crashesLeft) <=
                posts[n] + Promised(call, n) + EntryWorth(outbox[n])
                  + Paid(notifiesLeft'[n], commandsLeft', crashesLeft')
  BY <1>2, PaidTypes
<1>. QED
  BY <1>1, <1>3, BalancedKeeps

\* The operator's command pays for every notification.
LEMMA CommandPays ==
  ASSUME IInv, PInv, Command
  PROVE  /\ CausesCounted'
         /\ \A n \in Notifications :
              Paid(notifiesLeft'[n], commandsLeft', crashesLeft') =
                Paid(notifiesLeft[n], commandsLeft, crashesLeft) + Worth(MaxCycles)
         /\ Worth(MaxCycles) \in Nat
<1>1. CausesCounted'
  BY OutboxAssumption DEF Command, IInv, TypeOK, PInv, CausesCounted
<1>2. ASSUME NEW n \in Notifications
      PROVE  Paid(notifiesLeft'[n], commandsLeft', crashesLeft') =
               Paid(notifiesLeft[n], commandsLeft, crashesLeft) + Worth(MaxCycles)
  BY PaidFacts DEF Command, IInv, TypeOK, PInv, CausesCounted
<1>3. Worth(MaxCycles) \in Nat
  BY WorthFacts, OutboxAssumption
<1>. QED
  BY <1>1, <1>2, <1>3

\* A batch promises what its entries promised: it is only read when the worker
\* has no other.
LEMMA BatchIsPaid ==
  ASSUME IInv, PInv, IInv', CausesCounted', UNCHANGED <<call, posts, outbox>>, ~InFlight,
         batch' = {Read(n) : n \in Eligible},
         \A n \in Notifications :
           Paid(notifiesLeft'[n], commandsLeft', crashesLeft') >=
             Paid(notifiesLeft[n], commandsLeft, crashesLeft)
  PROVE  PInv'
<1>1. call[Worker] = Idle
  BY DEF InFlight
<1>2. PromisesFinite'
  BY DEF PInv, PromisesFinite
<1>3. ASSUME NEW r \in batch'
      PROVE  \E n \in Notifications :
               /\ r = Read(n)
               /\ r.id = n
               /\ outbox[n].status = "failed"
               /\ r.cycles = outbox[n].cycles
  BY <1>3 DEF Eligible, Failed, Read
<1>4. WorkerOnce'
  BY <1>1, <1>3 DEF WorkerOnce
<1>5. ASSUME NEW n \in Notifications
      PROVE  Paid(notifiesLeft'[n], commandsLeft', crashesLeft') \in Nat
  BY PaidFacts DEF IInv, TypeOK, CausesCounted
<1>6. ASSUME NEW n \in Notifications
      PROVE  posts[n] + Promised(call, n) + EntryWorth(outbox[n]) <=
               Paid(notifiesLeft'[n], commandsLeft', crashesLeft')
  <2>1. posts[n] + Promised(call, n) + EntryWorth(outbox[n]) <=
          Paid(notifiesLeft[n], commandsLeft, crashesLeft) + Done(call, n)
    BY DEF PInv, EntriesPaid
  <2>2. Done(call, n) = 0
    BY <1>1 DEF Done
  <2>. QED
    BY <1>5, <2>1, <2>2, PaidTypes
<1>7. EntriesPaid'
  <2>. SUFFICES ASSUME NEW n \in Notifications
               PROVE  posts[n] + Promised(call, n) + EntryWorth(outbox[n]) <=
                        Paid(notifiesLeft'[n], commandsLeft', crashesLeft') + Done(call, n)
    BY DEF EntriesPaid
  <2>1. Done(call, n) = 0
    BY <1>1 DEF Done
  <2>. QED
    BY <1>5, <1>6, <2>1
<1>8. BatchPaid'
  <2>. SUFFICES ASSUME NEW n \in Notifications, NEW r \in batch', r.id = n
               PROVE  posts[n] + Promised(call, n) + Worth(Rounds(r.cycles)) <=
                        Paid(notifiesLeft'[n], commandsLeft', crashesLeft')
    BY DEF BatchPaid
  <2>1. EntryWorth(outbox[n]) = Worth(Rounds(r.cycles))
    BY <1>3 DEF EntryWorth
  <2>. QED
    BY <1>6, <2>1
<1>9. WorkerPaid'
  BY <1>1 DEF WorkerPaid
<1>. QED
  BY <1>2, <1>4, <1>7, <1>8, <1>9 DEF PInv

\* A poster's call that begins promises no more than its cause has paid.
LEMMA PosterBegins ==
  ASSUME IInv, PInv, IInv', CausesCounted',
         NEW c \in Posters, NEW r \in Reads, Begin(c, r),
         UNCHANGED <<posts, outbox, batch>>,
         \A n \in Notifications :
           Paid(notifiesLeft'[n], commandsLeft', crashesLeft') >=
             Paid(notifiesLeft[n], commandsLeft, crashesLeft)
               + (IF n = r.id THEN Worth(MaxCycles) ELSE 0)
  PROVE  PInv'
<1>1. CallsTyped(call) /\ CallsTyped(call')
  BY PaidTypes, NextCallsTyped DEF IInv, TypeOK, CallsTyped
<1>2. /\ c \in Callers /\ Worker \in Callers /\ c # Worker
      /\ call[c] = Idle
      /\ call'[c] = CycleFrom(r)
      /\ \A d \in Callers : d # c => call'[d] = call[d]
  BY <1>1, OutboxAssumption DEF Begin, CallsTyped, Callers
<1>3. ASSUME NEW n \in Notifications
      PROVE  /\ IsFiniteSet(Units(OwedBy(call', n)))
             /\ Promised(call', n) \in Nat
             /\ Promised(call', n) <=
                  Promised(call, n) + (IF n = r.id THEN Worth(MaxCycles) ELSE 0)
  <2>1. \A d \in Posters : d # c => call'[d] = call[d]
    BY <1>2 DEF Callers
  <2>2. /\ IsFiniteSet(Units(OwedBy(call', n)))
        /\ Promised(call', n) \in Nat
        /\ OwedBy(call', n)[c] \in Nat
        /\ Promised(call', n) = Promised(call, n) - OwedBy(call, n)[c] + OwedBy(call', n)[c]
    BY <1>1, <2>1, PromisedChanges
  <2>3. OwedBy(call, n)[c] = 0
    BY <1>2 DEF OwedBy
  <2>4. OwedBy(call', n)[c] <= (IF n = r.id THEN Worth(MaxCycles) ELSE 0)
    <3>1. Worth(MaxCycles) \in Nat
      BY WorthFacts, OutboxAssumption
    <3>2. CASE call'[c] = Idle
      BY <3>1, <3>2 DEF OwedBy
    <3>3. CASE call'[c] # Idle
      <4>1. /\ CallWorth(call'[c]) \in Nat
            /\ CallWorth(call'[c]) <= Worth(Rounds(call'[c].cycles))
        BY <1>1, <1>2, <3>3, CallWorthFacts DEF CallsTyped
      <4>2. call'[c].id = r.id /\ call'[c].cycles = r.cycles /\ r.cycles \in Nat
        BY <1>2 DEF CycleFrom, Reads
      <4>3. Worth(Rounds(r.cycles)) \in Nat /\ Worth(Rounds(r.cycles)) <= Worth(MaxCycles)
        BY <4>2, RoundFacts
      <4>4. OwedBy(call', n)[c] = IF n = r.id THEN CallWorth(call'[c]) ELSE 0
        BY <3>3, <4>2 DEF OwedBy
      <4>. QED
        BY <3>1, <4>1, <4>2, <4>3, <4>4
    <3>. QED
      BY <3>2, <3>3
  <2>5. (IF n = r.id THEN Worth(MaxCycles) ELSE 0) \in Nat
    BY WorthFacts, OutboxAssumption
  <2>6. Promised(call, n) \in Nat
    BY PaidTypes
  <2>. QED
    BY <2>2, <2>3, <2>4, <2>5, <2>6
<1>4. PromisesFinite'
  BY <1>3 DEF PromisesFinite
<1>5. ASSUME NEW n \in Notifications
      PROVE  /\ posts'[n] + Promised(call', n)
                  + Paid(notifiesLeft[n], commandsLeft, crashesLeft) <=
                posts[n] + Promised(call, n)
                  + Paid(notifiesLeft'[n], commandsLeft', crashesLeft')
             /\ posts'[n] + Promised(call', n) + EntryWorth(outbox'[n])
                  + Paid(notifiesLeft[n], commandsLeft, crashesLeft) <=
                posts[n] + Promised(call, n) + EntryWorth(outbox[n])
                  + Paid(notifiesLeft'[n], commandsLeft', crashesLeft')
  <2>1. Paid(notifiesLeft'[n], commandsLeft', crashesLeft') \in Nat
    BY PaidFacts DEF IInv, TypeOK, CausesCounted
  <2>2. Worth(MaxCycles) \in Nat
    BY WorthFacts, OutboxAssumption
  <2>. QED
    BY <1>3, <2>1, <2>2, PaidTypes
<1>. QED
  BY <1>2, <1>4, <1>5, BalancedKeeps

\* What a poster posts, and what it then writes or has left, was promised.
LEMMA PosterAnswers ==
  ASSUME IInv, PInv, IInv', UNCHANGED bounds, UNCHANGED batch,
         NEW c \in Posters, call[c] # Idle,
         \A d \in Callers : d # c => call'[d] = call[d],
         posts' = [posts EXCEPT ![call[c].id] = @ + 1],
         \A n \in Notifications : n # call[c].id => outbox'[n] = outbox[n],
         \A n \in Notifications : n # call[c].id => OwedBy(call', n)[c] = 0,
         OwedBy(call', call[c].id)[c] + 1 <= CallWorth(call[c]),
         \/ outbox' = outbox
         \/ OwedBy(call', call[c].id)[c] + 1 + EntryWorth(outbox'[call[c].id])
              <= CallWorth(call[c])
  PROVE  PInv'
<1>1. CallsTyped(call) /\ CallsTyped(call')
  BY PaidTypes, NextCallsTyped DEF IInv, TypeOK, CallsTyped
<1>2. c \in Callers /\ Worker \in Callers /\ c # Worker
  BY OutboxAssumption DEF Callers
<1>3. CallWorth(call[c]) \in Nat
  BY <1>1, <1>2, CallWorthFacts DEF CallsTyped
<1>4. ASSUME NEW n \in Notifications
      PROVE  /\ IsFiniteSet(Units(OwedBy(call', n)))
             /\ Promised(call', n) \in Nat
             /\ OwedBy(call', n)[c] \in Nat
             /\ Promised(call', n) =
                  Promised(call, n) - (IF n = call[c].id THEN CallWorth(call[c]) ELSE 0)
                    + OwedBy(call', n)[c]
  <2>1. \A d \in Posters : d # c => call'[d] = call[d]
    BY DEF Callers
  <2>2. /\ IsFiniteSet(Units(OwedBy(call', n)))
        /\ Promised(call', n) \in Nat
        /\ OwedBy(call', n)[c] \in Nat
        /\ Promised(call', n) = Promised(call, n) - OwedBy(call, n)[c] + OwedBy(call', n)[c]
    BY <1>1, <2>1, PromisedChanges
  <2>3. OwedBy(call, n)[c] = IF n = call[c].id THEN CallWorth(call[c]) ELSE 0
    BY DEF OwedBy
  <2>. QED
    BY <2>2, <2>3
<1>5. PromisesFinite'
  BY <1>4 DEF PromisesFinite
<1>6. CausesCounted' /\ UNCHANGED <<notifiesLeft, commandsLeft, crashesLeft>>
  BY DEF bounds, PInv, CausesCounted
<1>7. ASSUME NEW n \in Notifications
      PROVE  /\ posts'[n] + Promised(call', n) <= posts[n] + Promised(call, n)
             /\ posts'[n] + Promised(call', n) + EntryWorth(outbox'[n]) <=
                  posts[n] + Promised(call, n) + EntryWorth(outbox[n])
             /\ posts'[n] \in Nat /\ EntryWorth(outbox'[n]) \in Nat
  <2>1. posts \in [Notifications -> Nat] /\ EntryWorth(outbox'[n]) \in Nat
    BY EntryWorthFacts DEF IInv, TypeOK
  <2>2. CASE n = call[c].id
    <3>1. posts'[n] = posts[n] + 1
      BY <2>1, <2>2
    <3>. QED
      BY <1>3, <1>4, <2>1, <2>2, <3>1, PaidTypes
  <2>3. CASE n # call[c].id
    <3>1. posts'[n] = posts[n] /\ outbox'[n] = outbox[n]
      BY <2>1, <2>3
    <3>2. Promised(call', n) = Promised(call, n)
      BY <1>4, <2>3, PaidTypes
    <3>. QED
      BY <1>4, <2>1, <3>1, <3>2, PaidTypes
  <2>. QED
    BY <2>2, <2>3
<1>8. ASSUME NEW n \in Notifications
      PROVE  /\ posts'[n] + Promised(call', n)
                  + Paid(notifiesLeft[n], commandsLeft, crashesLeft) <=
                posts[n] + Promised(call, n)
                  + Paid(notifiesLeft'[n], commandsLeft', crashesLeft')
             /\ posts'[n] + Promised(call', n) + EntryWorth(outbox'[n])
                  + Paid(notifiesLeft[n], commandsLeft, crashesLeft) <=
                posts[n] + Promised(call, n) + EntryWorth(outbox[n])
                  + Paid(notifiesLeft'[n], commandsLeft', crashesLeft')
  BY <1>4, <1>6, <1>7, PaidTypes
<1>. QED
  BY <1>2, <1>5, <1>6, <1>8, BalancedKeeps

\* The worker promises with its cycle what it has read.
LEMMA TakeNextPaid ==
  ASSUME IInv, PInv, IInv', TakeNext
  PROVE  PInv'
<1>1. PICK r \in batch :
        /\ Begin(Worker, r)
        /\ batch' = batch \ {r}
        /\ UNCHANGED <<outbox, watched, running, up, ghosts, bounds>>
  BY DEF TakeNext
<1>2. UNCHANGED <<outbox, posts, notifiesLeft, commandsLeft, crashesLeft>>
  BY <1>1 DEF ghosts, bounds
<1>3. CallsTyped(call) /\ CallsTyped(call') /\ r \in Reads
  BY NextCallsTyped DEF IInv, TypeOK, CallsTyped
<1>4. /\ Worker \in Callers
      /\ call[Worker] = Idle
      /\ call'[Worker] = CycleFrom(r)
      /\ \A d \in Posters : call'[d] = call[d]
  BY <1>1, <1>3, OutboxAssumption DEF Begin, CallsTyped, Callers
<1>5. /\ call'[Worker].id = r.id
      /\ call'[Worker].cycles = r.cycles
      /\ call'[Worker].upTo - call'[Worker].attempts = MaxAttempts
  BY <1>3, <1>4, OutboxAssumption DEF CycleFrom, Reads
<1>6. \A n : OwedBy(call', n) = OwedBy(call, n)
  BY <1>4 DEF OwedBy
<1>7. \A n : Promised(call', n) = Promised(call, n)
  BY <1>6 DEF Promised
<1>8. PromisesFinite' /\ CausesCounted'
  BY <1>2, <1>6 DEF PInv, PromisesFinite, CausesCounted
<1>9. WorkerOnce'
  BY <1>1, <1>5 DEF PInv, WorkerOnce
<1>10. \A n \in Notifications : Done(call', n) = 0 /\ Done(call, n) = 0
  BY <1>4, <1>5, OutboxAssumption DEF Done
<1>11. EntriesPaid'
  BY <1>2, <1>7, <1>10 DEF PInv, EntriesPaid
<1>12. BatchPaid'
  BY <1>1, <1>2, <1>7 DEF PInv, BatchPaid
<1>13. WorkerPaid'
  <2>. SUFFICES ASSUME NEW n \in Notifications, call'[Worker] # Idle, call'[Worker].id = n
               PROVE  posts[n] + Promised(call, n) + CallWorth(call'[Worker]) <=
                        Paid(notifiesLeft[n], commandsLeft, crashesLeft)
    BY <1>2, <1>7 DEF WorkerPaid
  <2>1. posts[n] + Promised(call, n) + Worth(Rounds(r.cycles)) <=
          Paid(notifiesLeft[n], commandsLeft, crashesLeft)
    BY <1>5 DEF PInv, BatchPaid
  <2>2. /\ CallWorth(call'[Worker]) \in Nat
        /\ CallWorth(call'[Worker]) <= Worth(Rounds(call'[Worker].cycles))
    BY <1>3, <1>4, CallWorthFacts DEF CallsTyped
  <2>3. Worth(Rounds(r.cycles)) \in Nat
    BY <1>3, RoundFacts DEF Reads
  <2>. QED
    BY <1>5, <2>1, <2>2, <2>3, PaidTypes
<1>. QED
  BY <1>8, <1>9, <1>11, <1>12, <1>13 DEF PInv

\* What the worker posts was promised by what it has read, and so is what it
\* writes; its entry promises again only what its cycle has not had answered.
LEMMA WorkerAnswers ==
  ASSUME IInv, PInv, IInv', UNCHANGED bounds, batch' \subseteq batch,
         call[Worker] # Idle,
         \A d \in Posters : call'[d] \in {call[d], Idle},
         posts' = [posts EXCEPT ![call[Worker].id] = @ + 1],
         \A n \in Notifications : n # call[Worker].id => outbox'[n] = outbox[n],
         \/ /\ call'[Worker] = Idle
            /\ EntryWorth(outbox'[call[Worker].id]) + 1 <= CallWorth(call[Worker])
         \/ /\ outbox' = outbox
            /\ call'[Worker] # Idle
            /\ call'[Worker].id = call[Worker].id
            /\ CallWorth(call'[Worker]) + 1 = CallWorth(call[Worker])
            /\ call'[Worker].upTo - call'[Worker].attempts + 1 =
                 call[Worker].upTo - call[Worker].attempts
  PROVE  PInv'
<1>. DEFINE m == call[Worker].id
<1>1. CallsTyped(call) /\ CallsTyped(call')
  BY NextCallsTyped DEF IInv, TypeOK, CallsTyped
<1>2. Worker \in Callers /\ m \in Notifications
  BY <1>1 DEF Callers, CallsTyped, Cycles
<1>3. CausesCounted' /\ UNCHANGED <<notifiesLeft, commandsLeft, crashesLeft>>
  BY DEF bounds, PInv, CausesCounted
<1>4. /\ posts'[m] = posts[m] + 1
      /\ \A n \in Notifications : n # m => posts'[n] = posts[n]
  BY <1>2 DEF IInv, TypeOK
<1>5. \A n \in Notifications :
        /\ IsFiniteSet(Units(OwedBy(call', n)))
        /\ Promised(call', n) \in Nat
        /\ Promised(call', n) <= Promised(call, n)
  BY <1>1, PromisedShrinks
<1>6. PromisesFinite'
  BY <1>5 DEF PromisesFinite
<1>7. CallWorth(call[Worker]) \in Nat
  BY <1>1, <1>2, CallWorthFacts DEF CallsTyped
<1>8. posts[m] + Promised(call, m) + CallWorth(call[Worker]) <=
        Paid(notifiesLeft[m], commandsLeft, crashesLeft)
  BY <1>2 DEF PInv, WorkerPaid
<1>9. WorkerOnce'
  BY DEF PInv, WorkerOnce
<1>10. BatchPaid'
  <2>. SUFFICES ASSUME NEW n \in Notifications, NEW r \in batch, r.id = n
               PROVE  posts'[n] + Promised(call', n) + Worth(Rounds(r.cycles)) <=
                        Paid(notifiesLeft[n], commandsLeft, crashesLeft)
    BY <1>3 DEF BatchPaid
  <2>1. n # m
    BY DEF PInv, WorkerOnce
  <2>2. posts[n] + Promised(call, n) + Worth(Rounds(r.cycles)) <=
          Paid(notifiesLeft[n], commandsLeft, crashesLeft)
    BY DEF PInv, BatchPaid
  <2>3. Worth(Rounds(r.cycles)) \in Nat
    BY RoundFacts DEF IInv, TypeOK, Reads
  <2>. QED
    BY <1>4, <1>5, <2>1, <2>2, <2>3, PaidTypes
<1>11. WorkerPaid'
  <2>. SUFFICES ASSUME NEW n \in Notifications, call'[Worker] # Idle, call'[Worker].id = n
               PROVE  posts'[n] + Promised(call', n) + CallWorth(call'[Worker]) <=
                        Paid(notifiesLeft[n], commandsLeft, crashesLeft)
    BY <1>3 DEF WorkerPaid
  <2>1. n = m /\ CallWorth(call'[Worker]) + 1 = CallWorth(call[Worker])
    OBVIOUS
  <2>2. CallWorth(call'[Worker]) \in Nat
    BY <1>1, <1>2, CallWorthFacts DEF CallsTyped
  <2>. QED
    BY <1>4, <1>5, <1>7, <1>8, <2>1, <2>2, PaidTypes
<1>12. EntriesPaid'
  <2>. SUFFICES ASSUME NEW n \in Notifications
               PROVE  posts'[n] + Promised(call', n) + EntryWorth(outbox'[n]) <=
                        Paid(notifiesLeft[n], commandsLeft, crashesLeft) + Done(call', n)
    BY <1>3 DEF EntriesPaid
  <2>1. EntryWorth(outbox'[n]) \in Nat
    BY EntryWorthFacts DEF IInv, TypeOK
  <2>2. posts[n] + Promised(call, n) + EntryWorth(outbox[n]) <=
          Paid(notifiesLeft[n], commandsLeft, crashesLeft) + Done(call, n)
    BY DEF PInv, EntriesPaid
  <2>3. CASE n # m
    <3>1. Done(call, n) = 0 /\ Done(call', n) = 0
      BY <2>3 DEF Done
    <3>. QED
      BY <1>4, <1>5, <2>1, <2>2, <2>3, <3>1, PaidTypes
  <2>4. CASE n = m /\ call'[Worker] = Idle
    <3>1. Done(call', n) = 0
      BY <2>4 DEF Done
    <3>2. EntryWorth(outbox'[n]) + 1 <= CallWorth(call[Worker])
      BY <2>4, <1>1, <1>2 DEF CallsTyped
    <3>. QED
      BY <1>4, <1>5, <1>7, <1>8, <2>1, <2>4, <3>1, <3>2, PaidTypes
  <2>5. CASE n = m /\ call'[Worker] # Idle
    <3>1. outbox' = outbox
      BY <2>5
    <3>2. Done(call', n) = Done(call, n) + 1
      BY <1>1, <1>2, <2>5, OutboxAssumption DEF Done, CallsTyped, Cycles
    <3>. QED
      BY <1>4, <1>5, <2>1, <2>2, <2>5, <3>1, <3>2, PaidTypes
  <2>. QED
    BY <2>3, <2>4, <2>5
<1>. QED
  BY <1>3, <1>6, <1>9, <1>10, <1>11, <1>12 DEF PInv

\* What is left of a call and of its entry: after an accepted post, after a
\* refused one that is tried again, and after the last one of a failed cycle.
LEMMA AcceptLeaves ==
  ASSUME IInv, NEW c \in Callers, call[c] # Idle, Accept(c)
  PROVE  /\ call'[c] = Idle
         /\ \A d \in Callers : d # c => call'[d] = call[d]
         /\ UNCHANGED batch
         /\ \A n \in Notifications : n # call[c].id => outbox'[n] = outbox[n]
         /\ EntryWorth(outbox'[call[c].id]) = 0
<1>1. call \in [Callers -> Cycles \cup {Idle}] /\ outbox \in [Notifications -> Entries]
  BY DEF IInv, TypeOK
<1>2. call[c].id \in Notifications
  BY <1>1 DEF Cycles
<1>3. outbox'[call[c].id].status = "delivered"
  BY <1>1, <1>2 DEF Accept, Write
<1>4. EntryWorth(outbox'[call[c].id]) = 0
  BY <1>3 DEF EntryWorth
<1>. QED
  BY <1>1, <1>2, <1>4 DEF Accept, Write

LEMMA RetryLeaves ==
  ASSUME IInv, NEW c \in Callers, call[c] # Idle, Retry(c)
  PROVE  /\ call'[c] # Idle
         /\ call'[c].id = call[c].id
         /\ CallWorth(call'[c]) + 1 = CallWorth(call[c])
         /\ call'[c].upTo - call'[c].attempts + 1 = call[c].upTo - call[c].attempts
         /\ \A d \in Callers : d # c => call'[d] = call[d]
         /\ UNCHANGED <<outbox, batch>>
<1>1. call \in [Callers -> Cycles \cup {Idle}]
  BY DEF IInv, TypeOK
<1>2. /\ call[c] \in Cycles
      /\ call[c].upTo - call[c].attempts \in 1..MaxAttempts
  BY CallFacts
<1>3. call' = [call EXCEPT ![c] = [call[c] EXCEPT !.attempts = call[c].attempts + 1]]
  BY DEF Retry
<1>4. /\ call'[c].id = call[c].id
      /\ call'[c].cycles = call[c].cycles
      /\ call'[c].upTo = call[c].upTo
      /\ call'[c].attempts = call[c].attempts + 1
      /\ \A d \in Callers : d # c => call'[d] = call[d]
  BY <1>1, <1>2, <1>3 DEF Cycles
<1>5. /\ call[c].upTo \in Nat
      /\ call[c].attempts \in Nat
      /\ call[c].cycles \in Nat
      /\ call[c].upTo > 0
  BY <1>2, OutboxAssumption DEF Cycles
<1>6. call'[c] # Idle
  BY <1>4, <1>5 DEF Idle
<1>7. Worth(Rounds(call[c].cycles)) \in Nat
  BY <1>5, RoundFacts
<1>8. CallWorth(call'[c]) + 1 = CallWorth(call[c])
  BY <1>4, <1>5, <1>7, OutboxAssumption DEF CallWorth
<1>9. call'[c].upTo - call'[c].attempts + 1 = call[c].upTo - call[c].attempts
  BY <1>4, <1>5
<1>. QED
  BY <1>4, <1>6, <1>8, <1>9 DEF Retry, worker

LEMMA GiveUpLeaves ==
  ASSUME IInv, NEW c \in Callers, call[c] # Idle, GiveUp(c)
  PROVE  /\ call'[c] = Idle
         /\ \A d \in Callers : call'[d] \in {call[d], Idle}
         /\ batch' \subseteq batch
         /\ c # Worker => /\ \A d \in Callers : d # c => call'[d] = call[d]
                          /\ UNCHANGED batch
         /\ \A n \in Notifications : n # call[c].id => outbox'[n] = outbox[n]
         /\ EntryWorth(outbox'[call[c].id]) + 1 <= CallWorth(call[c])
<1>. DEFINE k == call[c]
<1>1. call \in [Callers -> Cycles \cup {Idle}] /\ outbox \in [Notifications -> Entries]
  BY DEF IInv, TypeOK
<1>2. /\ k \in Cycles
      /\ k.upTo - k.attempts \in 1..MaxAttempts
      /\ k.id \in Notifications
      /\ k.cycles \in Nat
  BY CallFacts DEF Cycles
<1>3. /\ call'[c] = Idle
      /\ \A d \in Callers : call'[d] \in {call[d], Idle}
      /\ batch' \subseteq batch
      /\ c # Worker => /\ \A d \in Callers : d # c => call'[d] = call[d]
                       /\ UNCHANGED batch
  <2>1. CASE c = Worker /\ watched
    BY <1>1, <2>1 DEF GiveUp, Throw, Dead
  <2>2. CASE ~(c = Worker /\ watched)
    BY <1>1, <2>2 DEF GiveUp, Throw
  <2>. QED
    BY <2>1, <2>2
<1>4. /\ \A n \in Notifications : n # k.id => outbox'[n] = outbox[n]
      /\ outbox'[k.id].cycles = k.cycles + 1
      /\ outbox'[k.id].status = IF k.cycles + 1 >= MaxCycles THEN "dead-lettered" ELSE "failed"
  BY <1>1, <1>2 DEF GiveUp, Write
<1>5. EntryWorth(outbox'[k.id]) + 1 <= CallWorth(k)
  <2>1. CallWorth(k) \in Nat /\ CallWorth(k) >= 1
    BY <1>2, CallWorthFacts, OutboxAssumption
  <2>2. CASE k.cycles + 1 >= MaxCycles
    <3>1. EntryWorth(outbox'[k.id]) = 0
      BY <1>4, <2>2 DEF EntryWorth
    <3>. QED
      BY <2>1, <3>1
  <2>3. CASE k.cycles + 1 < MaxCycles
    <3>1. ~(k.cycles + 1 >= MaxCycles)
      BY <1>2, <2>3, OutboxAssumption
    <3>2. outbox'[k.id].status = "failed"
      BY <1>4, <3>1
    <3>3. EntryWorth(outbox'[k.id]) = Worth(Rounds(k.cycles + 1))
      BY <1>4, <3>2 DEF EntryWorth
    <3>4. /\ Worth(Rounds(k.cycles)) = Worth(Rounds(k.cycles + 1)) + MaxAttempts
          /\ Worth(Rounds(k.cycles)) \in Nat
          /\ Worth(Rounds(k.cycles + 1)) \in Nat
      BY <1>2, <2>3, RoundFacts
    <3>5. k.upTo - k.attempts >= 1 /\ k.upTo - k.attempts \in Int
      BY <1>2, OutboxAssumption
    <3>. QED
      BY <3>3, <3>4, <3>5, OutboxAssumption DEF CallWorth
  <2>. QED
    BY <1>2, <2>2, <2>3, OutboxAssumption
<1>. QED
  BY <1>3, <1>4, <1>5

\* An answer takes a promised post.
LEMMA AnswerPaid ==
  ASSUME IInv, PInv, IInv', NEW c \in Callers, NEW ok \in BOOLEAN, Answer(c, ok)
  PROVE  PInv'
<1>1. /\ call[c] # Idle
      /\ posts' = [posts EXCEPT ![call[c].id] = @ + 1]
      /\ UNCHANGED bounds
  BY DEF Answer, Count
<1>2. /\ CallWorth(call[c]) \in Nat
      /\ CallWorth(call[c]) >= 1
      /\ call[c].id \in Notifications
  BY <1>1, CallFacts, CallWorthFacts, OutboxAssumption DEF Cycles
<1>3. CASE Accept(c) \/ GiveUp(c)
  <2>1. /\ call'[c] = Idle
        /\ \A d \in Callers : call'[d] \in {call[d], Idle}
        /\ batch' \subseteq batch
        /\ c # Worker => /\ \A d \in Callers : d # c => call'[d] = call[d]
                         /\ UNCHANGED batch
        /\ \A n \in Notifications : n # call[c].id => outbox'[n] = outbox[n]
        /\ EntryWorth(outbox'[call[c].id]) + 1 <= CallWorth(call[c])
    BY <1>1, <1>2, <1>3, AcceptLeaves, GiveUpLeaves
  <2>2. CASE c = Worker
    BY <1>1, <2>1, <2>2, WorkerAnswers DEF Callers
  <2>3. CASE c \in Posters
    <3>1. c # Worker
      BY <2>3, OutboxAssumption
    <3>2. \A n \in Notifications : OwedBy(call', n)[c] = 0
      BY <2>1, <2>3 DEF OwedBy
    <3>3. EntryWorth(outbox'[call[c].id]) \in Nat
      BY <1>2, EntryWorthFacts DEF IInv, TypeOK
    <3>4. /\ OwedBy(call', call[c].id)[c] + 1 <= CallWorth(call[c])
          /\ OwedBy(call', call[c].id)[c] + 1 + EntryWorth(outbox'[call[c].id])
               <= CallWorth(call[c])
      BY <1>2, <2>1, <3>2, <3>3
    <3>. QED
      BY <1>1, <2>1, <2>3, <3>1, <3>2, <3>4, PosterAnswers
  <2>. QED
    BY <2>2, <2>3 DEF Callers
<1>4. CASE Retry(c)
  <2>1. /\ call'[c] # Idle
        /\ call'[c].id = call[c].id
        /\ CallWorth(call'[c]) + 1 = CallWorth(call[c])
        /\ call'[c].upTo - call'[c].attempts + 1 = call[c].upTo - call[c].attempts
        /\ \A d \in Callers : d # c => call'[d] = call[d]
        /\ UNCHANGED <<outbox, batch>>
    BY <1>1, <1>4, RetryLeaves
  <2>2. CASE c = Worker
    <3>1. \A d \in Posters : call'[d] = call[d]
      BY <2>1, <2>2, OutboxAssumption DEF Callers
    <3>. QED
      BY <1>1, <2>1, <2>2, <3>1, WorkerAnswers
  <2>3. CASE c \in Posters
    <3>1. \A n \in Notifications : n # call[c].id => OwedBy(call', n)[c] = 0
      BY <2>1, <2>3 DEF OwedBy
    <3>2. OwedBy(call', call[c].id)[c] = CallWorth(call'[c])
      BY <2>1, <2>3 DEF OwedBy
    <3>3. CallWorth(call'[c]) \in Nat
      BY <2>1, CallWorthFacts, NextCallsTyped DEF CallsTyped
    <3>4. OwedBy(call', call[c].id)[c] + 1 <= CallWorth(call[c])
      BY <1>2, <2>1, <3>2, <3>3
    <3>. QED
      BY <1>1, <2>1, <2>3, <3>1, <3>4, PosterAnswers
  <2>. QED
    BY <2>2, <2>3 DEF Callers
<1>. QED
  BY <1>3, <1>4 DEF Answer

\* A crash loses all that was promised but the entries, and pays for what the
\* worker's entry promises again.
LEMMA CrashPaid ==
  ASSUME IInv, PInv, IInv', Crash
  PROVE  PInv'
<1>1. /\ \A c \in Callers : call'[c] = Idle
      /\ batch' = {}
      /\ UNCHANGED <<outbox, posts, notifiesLeft, commandsLeft>>
      /\ crashesLeft > 0
      /\ crashesLeft' = crashesLeft - 1
  BY DEF Crash, Dead, ghosts
<1>2. /\ Worker \in Callers
      /\ \A d \in Posters : call'[d] \in {call[d], Idle}
  BY <1>1 DEF Callers
<1>3. CallsTyped(call')
  BY NextCallsTyped
<1>4. \A n \in Notifications :
        /\ IsFiniteSet(Units(OwedBy(call', n)))
        /\ Promised(call', n) \in Nat
        /\ Promised(call', n) <= Promised(call, n)
  BY <1>2, <1>3, PromisedShrinks
<1>5. CausesCounted'
  BY <1>1, OutboxAssumption DEF IInv, TypeOK, PInv, CausesCounted
<1>6. EntriesPaid'
  <2>. SUFFICES ASSUME NEW n \in Notifications
               PROVE  posts[n] + Promised(call', n) + EntryWorth(outbox[n]) <=
                        Paid(notifiesLeft[n], commandsLeft, crashesLeft') + Done(call', n)
    BY <1>1 DEF EntriesPaid
  <2>1. posts[n] + Promised(call, n) + EntryWorth(outbox[n]) <=
          Paid(notifiesLeft[n], commandsLeft, crashesLeft) + Done(call, n)
    BY DEF PInv, EntriesPaid
  <2>2. Paid(notifiesLeft[n], commandsLeft, crashesLeft') =
          Paid(notifiesLeft[n], commandsLeft, crashesLeft) + MaxAttempts
    BY <1>1, PaidFacts DEF IInv, TypeOK, PInv, CausesCounted
  <2>3. Done(call', n) = 0
    BY <1>1, <1>2 DEF Done
  <2>. QED
    BY <1>4, <2>1, <2>2, <2>3, PaidTypes, OutboxAssumption
<1>. QED
  BY <1>1, <1>2, <1>4, <1>5, <1>6
     DEF PInv, PromisesFinite, WorkerOnce, WorkerPaid, BatchPaid

\* Every step keeps what was posted and what is promised within what was paid.
LEMMA NextPaid == IInv /\ PInv /\ [Next]_vars => PInv'
<1>. SUFFICES ASSUME IInv, PInv, [Next]_vars PROVE PInv'
  OBVIOUS
<1>1. IInv'
  BY NextKeeps
<1>2. \A n \in Notifications : Paid(notifiesLeft[n], commandsLeft, crashesLeft) \in Nat
  BY PaidTypes
<1>3. Worth(MaxCycles) \in Nat
  BY WorthFacts, OutboxAssumption
<1>4. ASSUME UNCHANGED bounds
      PROVE  /\ CausesCounted'
             /\ \A n \in Notifications :
                  Paid(notifiesLeft'[n], commandsLeft', crashesLeft') >=
                    Paid(notifiesLeft[n], commandsLeft, crashesLeft)
  BY <1>2, <1>4 DEF bounds, PInv, CausesCounted
<1>5. ASSUME Command
      PROVE  /\ CausesCounted'
             /\ \A n \in Notifications :
                  Paid(notifiesLeft'[n], commandsLeft', crashesLeft') >=
                    Paid(notifiesLeft[n], commandsLeft, crashesLeft) + Worth(MaxCycles)
             /\ \A n \in Notifications :
                  Paid(notifiesLeft'[n], commandsLeft', crashesLeft') >=
                    Paid(notifiesLeft[n], commandsLeft, crashesLeft)
  BY <1>2, <1>3, <1>5, CommandPays
<1>6. \A n \in Notifications : EntryWorth(outbox[n]) \in Nat
  BY PaidTypes
<1>7. ASSUME UNCHANGED <<outbox, call, posts>>, batch' \subseteq batch,
             UNCHANGED bounds \/ Command
      PROVE  PInv'
  BY <1>1, <1>4, <1>5, <1>6, <1>7, StandsKeeps
<1>8. ASSUME NEW c \in Posters, NEW n \in Notifications, Notify(c, n)
      PROVE  PInv'
  <2>1. /\ UNCHANGED <<posts, batch, commandsLeft, crashesLeft>>
        /\ notifiesLeft[n] > 0
        /\ notifiesLeft' = [notifiesLeft EXCEPT ![n] = @ - 1]
    BY <1>8 DEF Notify, worker, ghosts
  <2>2. CausesCounted'
    BY <2>1, OutboxAssumption DEF IInv, TypeOK, PInv, CausesCounted
  <2>3. ASSUME NEW m \in Notifications
        PROVE  Paid(notifiesLeft'[m], commandsLeft', crashesLeft') =
                 Paid(notifiesLeft[m], commandsLeft, crashesLeft)
                   + (IF m = n THEN Worth(MaxCycles) ELSE 0)
    <3>1. CASE m = n
      <4>1. notifiesLeft'[m] = notifiesLeft[m] - 1
        BY <2>1, <3>1 DEF IInv, TypeOK
      <4>. QED
        BY <2>1, <3>1, <4>1, PaidFacts DEF IInv, TypeOK, PInv, CausesCounted
    <3>2. CASE m # n
      <4>1. notifiesLeft'[m] = notifiesLeft[m]
        BY <2>1, <3>2 DEF IInv, TypeOK
      <4>. QED
        BY <1>2, <2>1, <3>2, <4>1
    <3>. QED
      BY <3>1, <3>2
  <2>4. CASE Begin(c, Unread(n)) /\ UNCHANGED outbox
    <3>1. Unread(n) \in Reads /\ Unread(n).id = n
      BY DEF Unread, Reads
    <3>2. \A m \in Notifications :
            Paid(notifiesLeft'[m], commandsLeft', crashesLeft') >=
              Paid(notifiesLeft[m], commandsLeft, crashesLeft)
                + (IF m = Unread(n).id THEN Worth(MaxCycles) ELSE 0)
      BY <1>2, <1>3, <2>3, <3>1
    <3>. QED
      BY <1>1, <2>1, <2>2, <2>4, <3>1, <3>2, PosterBegins
  <2>5. CASE outbox' = [outbox EXCEPT ![n] = SkippedEntry] /\ UNCHANGED call
    <3>1. EntryWorth(SkippedEntry) = 0
      BY DEF SkippedEntry, NoEntry, EntryWorth
    <3>2. \A m \in Notifications : EntryWorth(outbox'[m]) <= EntryWorth(outbox[m])
      BY <1>6, <2>5, <3>1 DEF IInv, TypeOK
    <3>3. \A m \in Notifications :
            Paid(notifiesLeft'[m], commandsLeft', crashesLeft') >=
              Paid(notifiesLeft[m], commandsLeft, crashesLeft)
      BY <1>2, <1>3, <2>3
    <3>. QED
      BY <1>1, <2>1, <2>2, <2>5, <3>2, <3>3, StandsKeeps
  <2>. QED
    BY <1>8, <2>4, <2>5 DEF Notify
<1>9. ASSUME NEW c \in Posters, NEW n \in Notifications, Redeliver(c, n)
      PROVE  PInv'
  <2>1. Read(n) \in Reads
    BY ReadEarned
  <2>2. Command /\ Begin(c, Read(n)) /\ UNCHANGED <<posts, outbox, batch>>
    BY <1>9 DEF Redeliver, worker, ghosts
  <2>3. \A m \in Notifications :
          Paid(notifiesLeft'[m], commandsLeft', crashesLeft') >=
            Paid(notifiesLeft[m], commandsLeft, crashesLeft)
              + (IF m = Read(n).id THEN Worth(MaxCycles) ELSE 0)
    BY <1>2, <1>5, <2>2
  <2>. QED
    BY <1>1, <1>5, <2>1, <2>2, <2>3, PosterBegins
<1>10. CASE RunWorker
  BY <1>1, <1>5, <1>10, BatchIsPaid DEF RunWorker, ghosts
<1>11. CASE StartWorker \/ StopWorker
  BY <1>7, <1>11 DEF StartWorker, StopWorker, ghosts
<1>12. CASE Tick
  <2>1. UNCHANGED <<outbox, call, posts, bounds>>
    BY <1>12 DEF Tick, ghosts
  <2>2. CASE UNCHANGED batch
    BY <1>7, <2>1, <2>2
  <2>3. CASE ~InFlight /\ batch' = {Read(n) : n \in Eligible}
    BY <1>1, <1>4, <2>1, <2>3, BatchIsPaid
  <2>. QED
    BY <1>12, <2>2, <2>3 DEF Tick
<1>13. CASE TakeNext
  BY <1>1, <1>13, TakeNextPaid
<1>14. ASSUME NEW c \in Callers, NEW ok \in BOOLEAN, Answer(c, ok)
       PROVE  PInv'
  BY <1>1, <1>14, AnswerPaid
<1>15. ASSUME NEW n \in Notifications, BackoffPasses(n)
       PROVE  PInv'
  <2>1. UNCHANGED <<call, posts, batch>> /\ UNCHANGED bounds
    BY <1>15 DEF BackoffPasses, worker, ghosts
  <2>2. \A m \in Notifications :
          /\ outbox'[m].status = outbox[m].status
          /\ outbox'[m].cycles = outbox[m].cycles
    BY <1>15 DEF BackoffPasses, IInv, TypeOK, Entries
  <2>3. \A m \in Notifications : EntryWorth(outbox'[m]) <= EntryWorth(outbox[m])
    BY <1>6, <2>2 DEF EntryWorth
  <2>. QED
    BY <1>1, <1>4, <2>1, <2>3, StandsKeeps
<1>16. CASE Crash
  BY <1>1, <1>16, CrashPaid
<1>17. CASE Restart
  BY <1>7, <1>17 DEF Restart, ghosts
<1>18. CASE UNCHANGED vars
  BY <1>7, <1>18 DEF vars, worker, ghosts
<1>. QED
  BY <1>8, <1>9, <1>10, <1>11, <1>12, <1>13, <1>14, <1>15, <1>16, <1>17, <1>18
     DEF Next, ServiceNext, WorkerNext, AnswerNext, EnvironmentNext

\* A receiver is not called without end: for any number of concurrent calls,
\* batches and crashes, each notified settlement and each command of the
\* operator causes MaxCycles cycles at most, and each crash one.
THEOREM ReceiverIsSpared == Spec => []PostsAreBounded
<1>1. ASSUME IInv, PInv, NEW n \in Notifications
      PROVE  posts[n] <= Paid(notifiesLeft[n], commandsLeft, crashesLeft)
  <2>1. CASE call[Worker] # Idle /\ call[Worker].id = n
    <3>1. posts[n] + Promised(call, n) + CallWorth(call[Worker]) <=
            Paid(notifiesLeft[n], commandsLeft, crashesLeft)
      BY <1>1, <2>1 DEF PInv, WorkerPaid
    <3>2. CallWorth(call[Worker]) \in Nat
      BY <1>1, <2>1, CallWorthFacts, PaidTypes DEF CallsTyped, Callers
    <3>. QED
      BY <1>1, <3>1, <3>2, PaidTypes
  <2>2. CASE ~(call[Worker] # Idle /\ call[Worker].id = n)
    <3>1. Done(call, n) = 0
      BY <2>2 DEF Done
    <3>2. posts[n] + Promised(call, n) + EntryWorth(outbox[n]) <=
            Paid(notifiesLeft[n], commandsLeft, crashesLeft) + Done(call, n)
      BY <1>1 DEF PInv, EntriesPaid
    <3>. QED
      BY <1>1, <3>1, <3>2, PaidTypes
  <2>. QED
    BY <2>1, <2>2
<1>2. ASSUME IInv, PInv PROVE PostsAreBounded
  <2>. SUFFICES ASSUME NEW n \in Notifications
               PROVE  posts[n] <=
                        MaxAttempts * (MaxCycles * ((MaxNotifies - notifiesLeft[n])
                                         + (MaxCommands - commandsLeft))
                                       + (MaxCrashes - crashesLeft))
    BY DEF PostsAreBounded
  <2>. DEFINE c == (MaxNotifies - notifiesLeft[n]) + (MaxCommands - commandsLeft)
              w == MaxCycles * c + (MaxCrashes - crashesLeft)
  <2>1. MaxAttempts \in Nat /\ MaxCycles \in Nat /\ c \in Int /\ MaxCrashes - crashesLeft \in Int
    BY <1>2, OutboxAssumption DEF IInv, TypeOK
  <2>2. w \in Int
    BY <2>1
  <2>3. w * MaxAttempts = MaxAttempts * w
    BY <2>1, <2>2
  <2>4. Paid(notifiesLeft[n], commandsLeft, crashesLeft) = w * MaxAttempts
    BY DEF Paid, Worth
  <2>5. posts[n] <= Paid(notifiesLeft[n], commandsLeft, crashesLeft)
    BY <1>1, <1>2
  <2>. QED
    BY <2>3, <2>4, <2>5
<1>3. IInv /\ PInv => PostsAreBounded
  BY <1>2
<1>. QED
  BY <1>3, InitIInv, InitPInv, NextKeeps, NextPaid, PTL DEF Spec

=============================================================================
