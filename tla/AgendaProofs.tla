---------------------------- MODULE AgendaProofs ----------------------------
(***************************************************************************)
(* Proofs about the family calendar: when accounts are synced, what the    *)
(* agenda lists, and what it keeps when nothing new is synced.             *)
(***************************************************************************)
EXTENDS RasterProofs, SequenceTheorems

-----------------------------------------------------------------------------
(* Every set of natural numbers has a least element. *)
LEMMA Least ==
    ASSUME NEW T, T \subseteq Nat, T # {}
    PROVE  \E x \in T : \A y \in T : x <= y
<1>1. PICK x \in T : \A y \in T : <<y, x>> \notin OpToRel(<, Nat)
    BY NatLessThanWellFounded, WFMin
<1>2. \A y \in T : ~(y < x)
    BY <1>1 DEF OpToRel
<1> QED BY <1>2

(* Between a minute and an hour, whatever the intervals. *)
LEMMA WakesWithinTheHour ==
    ASSUME NEW S, S \subseteq Nat
    PROVE  NextWake(S) \in Nat /\ NextWake(S) <= Hour
<1>1. S # {} => MinOf(S) \in S
    BY Least DEF MinOf
<1>2. /\ Minute \in Nat /\ Quarter \in Nat /\ Hour \in Nat
      /\ Minute <= Hour /\ Quarter <= Hour
    BY TimesAssumption
<1>3. CASE S = {}
    BY <1>2, <1>3 DEF NextWake
<1>4. CASE S # {}
    <2> DEFINE smallest == MinOf(S)
    <2>1. smallest \in Nat
        BY <1>1, <1>4
    <2>2. NextWake(S) = IF smallest < Minute THEN Minute
                        ELSE IF smallest > Hour THEN Hour ELSE smallest
        BY <1>4 DEF NextWake
    <2> HIDE DEF smallest
    <2> QED BY <1>2, <2>1, <2>2
<1> QED BY <1>3, <1>4

-----------------------------------------------------------------------------
(* How long the fetches of the accounts outside of T may take. *)
Room(T) == (Cardinality(Accounts) - Cardinality(T)) * FetchTime

LEMMA RoomIsNat ==
    ASSUME NEW T, T \subseteq Accounts
    PROVE  Room(T) \in Nat
<1>1. IsFiniteSet(T) /\ Cardinality(T) <= Cardinality(Accounts)
    BY FS_Subset, TimesAssumption
<1>2. Cardinality(T) \in Nat /\ Cardinality(Accounts) \in Nat
    BY <1>1, FS_CardinalityType, TimesAssumption
<1> DEFINE k == Cardinality(Accounts) - Cardinality(T)
<1>3. k \in Nat
    BY <1>1, <1>2
<1>4. k * FetchTime \in Nat
    <2> HIDE DEF k
    <2> QED BY <1>3, TimesAssumption
<1> QED BY <1>4 DEF Room

LEMMA RoomGrows ==
    ASSUME NEW T, T \subseteq Accounts, NEW a \in T
    PROVE  Room(T \ {a}) = Room(T) + FetchTime
<1>1. IsFiniteSet(T)
    BY FS_Subset, TimesAssumption
<1>2. Cardinality(T \ {a}) = Cardinality(T) - 1
    BY <1>1, FS_RemoveElement
<1>3. Cardinality(T) \in Nat /\ Cardinality(Accounts) \in Nat
    BY <1>1, FS_CardinalityType, TimesAssumption
<1> DEFINE k == Cardinality(Accounts) - Cardinality(T)
<1>4. k \in Int /\ Cardinality(Accounts) - Cardinality(T \ {a}) = k + 1
    BY <1>2, <1>3
<1>5. (k + 1) * FetchTime = k * FetchTime + FetchTime
    <2> HIDE DEF k
    <2> QED BY <1>4, TimesAssumption
<1> QED BY <1>4, <1>5 DEF Room

LEMMA RoomForOne ==
    ASSUME NEW T, T \subseteq Accounts, NEW a \in Accounts \ T
    PROVE  Room(T) >= FetchTime
<1> DEFINE U == T \union {a}
<1>1. U \subseteq Accounts /\ a \in U /\ U \ {a} = T
    OBVIOUS
<1>2. Room(U) \in Nat
    BY <1>1, RoomIsNat
<1>3. Room(T) = Room(U) + FetchTime
    BY <1>1, RoomGrows
<1> QED BY <1>2, <1>3, TimesAssumption

-----------------------------------------------------------------------------
TimesTyped ==
    /\ account \in [Accounts -> TimesRow \union {NULL}]
    /\ loop \in {"sleeping", "passing"}
    /\ timer \in Nat
    /\ todo \subseteq Accounts
    /\ passed \in Nat /\ fetching \in Nat
    /\ forced \in [id : Accounts \union {NULL}, age : Nat]

(* The row has been synced, and is due for less than so many ticks. *)
DueFor(row, ticks) == ~row.new /\ row.age - row.interval < ticks

FetchesEnd ==
    /\ forced.age <= FetchTime
    /\ loop = "passing" => fetching <= FetchTime

(* A pass takes the time of the fetches that it has made.                  *)
PassAdvances ==
    loop = "passing" =>
        /\ passed <= Room(todo) + fetching
        /\ \A a \in Existing \ ({forced.id} \union todo) :
              DueFor(account[a], Room(todo) - FetchTime + fetching)

SleepEnds ==
    loop = "sleeping" =>
        /\ todo = {} /\ timer <= Hour
        /\ timer > 0 => \A a \in Existing \ {forced.id} :
              DueFor(account[a], Hour + Room({}) - FetchTime - timer)

(* What holds between the steps of the loop, of the requests and of time:  *)
(* an account that this pass has left behind is due for less than the pass *)
(* has taken since, and an account that waits for the timer for less than  *)
(* the whole of the last pass and of the sleep so far.                     *)
TimesInv == TimesTyped /\ FetchesEnd /\ PassAdvances /\ SleepEnds

-----------------------------------------------------------------------------
LEMMA TimesInvInit ==
    ASSUME Init
    PROVE  TimesInv
<1>1. CASE TimesIdle
    BY <1>1, TimesAssumption DEF TimesIdle, NotForced, TimesInv, TimesTyped, FetchesEnd,
        PassAdvances, SleepEnds
<1>2. CASE TimesInit
    <2>1. account \in [Accounts -> TimesRow \union {NULL}]
        BY <1>2, TimesAssumption DEF TimesInit, TimesRow
    <2> QED BY <1>2, <2>1, TimesAssumption DEF TimesInit, NotForced, TimesInv, TimesTyped,
            FetchesEnd, PassAdvances, SleepEnds
<1> QED BY <1>1, <1>2 DEF Init

(* The rows that a pass or a request's sync leaves. *)
LEMMA SyncedRows ==
    ASSUME TimesTyped, NEW a \in Accounts, NEW n \in Nat, Synced(a, n)
    PROVE  /\ account' \in [Accounts -> TimesRow \union {NULL}]
           /\ Existing' \subseteq Existing
           /\ \A b \in Existing' \ {a} : account'[b] = account[b]
           /\ a \in Existing' => DueFor(account'[a], n - Hour + 1)
<1>1. account[a] \in TimesRow \union {NULL}
    BY DEF TimesTyped
<1>2. account' = [account EXCEPT ![a] = IF account[a] = NULL THEN NULL
                      ELSE [account[a] EXCEPT !.age = n, !.new = FALSE]]
    BY DEF Synced
<1>3. account \in [Accounts -> TimesRow \union {NULL}]
    BY DEF TimesTyped
<1>4. account[a] # NULL => [account[a] EXCEPT !.age = n, !.new = FALSE] \in TimesRow
    BY <1>1 DEF TimesRow
<1>5. account' \in [Accounts -> TimesRow \union {NULL}]
    BY <1>2, <1>3, <1>4
<1>6. Existing' \subseteq Existing
    BY <1>2, <1>3 DEF Existing
<1>7. \A b \in Existing' \ {a} : account'[b] = account[b]
    BY <1>2, <1>3 DEF Existing
<1>8. ASSUME a \in Existing'
      PROVE  DueFor(account'[a], n - Hour + 1)
    <2>1. account[a] \in TimesRow /\ account[a] # NULL
        BY <1>1, <1>6, <1>8 DEF Existing
    <2>2. account'[a] = [account[a] EXCEPT !.age = n, !.new = FALSE]
        BY <1>2, <1>3, <2>1
    <2>3. account[a].interval \in Intervals
        BY <2>1 DEF TimesRow
    <2>4. /\ account'[a].interval = account[a].interval
          /\ account'[a].age = n /\ account'[a].new = FALSE
        BY <2>1, <2>2 DEF TimesRow
    <2> QED BY <2>3, <2>4, TimesAssumption DEF DueFor
<1> QED BY <1>5, <1>6, <1>7, <1>8

LEMMA DueForMore ==
    ASSUME NEW row \in TimesRow, NEW m \in Int, NEW n \in Int, m <= n, DueFor(row, m)
    PROVE  DueFor(row, n)
BY TimesAssumption DEF DueFor, TimesRow

LEMMA SleepsTyped ==
    ASSUME Sleeps, account' \in [Accounts -> TimesRow \union {NULL}]
    PROVE  loop' = "sleeping" /\ timer' \in Nat /\ timer' <= Hour
<1> DEFINE S == {account'[a].interval : a \in {b \in Accounts : account'[b] # NULL}}
<1>1. S \subseteq Nat
    BY TimesAssumption DEF TimesRow
<1>2. loop' = "sleeping" /\ timer' = NextWake(S)
    BY DEF Sleeps
<1> HIDE DEF S
<1> QED BY <1>1, <1>2, WakesWithinTheHour
-----------------------------------------------------------------------------
(* The steps of the loop, of time and of the requests. *)
LEMMA WakeUpTimes ==
    ASSUME TimesInv, WakeUp
    PROVE  TimesInv'
<1> DEFINE dues == {a \in Existing : due(a)}
<1>1. /\ loop = "sleeping" /\ todo' = dues /\ passed' = 0 /\ fetching' = 0
      /\ account' = account /\ forced' = forced
      /\ IF todo' = {} THEN Sleeps ELSE loop' = "passing" /\ timer' = timer
    BY DEF WakeUp
<1>2. account \in [Accounts -> TimesRow \union {NULL}] /\ dues \subseteq Accounts
    BY DEF TimesInv, TimesTyped, Existing
<1>3. \A a \in Existing \ dues : a \in Accounts /\ DueFor(account[a], 0)
    <2> TAKE a \in Existing \ dues
    <2>1. a \in Accounts /\ account[a] \in TimesRow /\ ~due(a)
        BY <1>2 DEF Existing
    <2>2. ~account[a].new /\ account[a].age < account[a].interval
        BY <2>1, TimesAssumption DEF due, TimesRow
    <2> QED BY <2>1, <2>2, TimesAssumption DEF DueFor, TimesRow
<1>4. Existing' = Existing
    BY <1>1 DEF Existing
<1>5. CASE todo' = {}
    <2>1. loop' = "sleeping" /\ timer' \in Nat /\ timer' <= Hour
        BY <1>1, <1>2, <1>5, SleepsTyped
    <2>2. TimesTyped'
        BY <1>1, <1>2, <1>5, <2>1 DEF TimesInv, TimesTyped
    <2>3. FetchesEnd' /\ PassAdvances'
        BY <1>1, <2>1 DEF TimesInv, FetchesEnd, PassAdvances
    <2>4. \A a \in Existing' \ {forced'.id} :
              DueFor(account'[a], Hour + Room({}) - FetchTime - timer')
        <3> TAKE a \in Existing' \ {forced'.id}
        <3>1. a \in Accounts /\ account[a] \in TimesRow /\ DueFor(account[a], 0)
            BY <1>1, <1>2, <1>3, <1>4, <1>5 DEF Existing
        <3>2. Room({}) >= FetchTime /\ Room({}) \in Nat
            BY <3>1, RoomForOne, RoomIsNat
        <3>3. Hour + Room({}) - FetchTime - timer' \in Int
              /\ 0 <= Hour + Room({}) - FetchTime - timer'
            BY <2>1, <3>2, TimesAssumption
        <3> QED BY <1>1, <3>1, <3>3, DueForMore
    <2> QED BY <1>5, <2>1, <2>2, <2>3, <2>4 DEF TimesInv, SleepEnds
<1>6. CASE todo' # {}
    <2>1. loop' = "passing" /\ timer' = timer
        BY <1>1, <1>6
    <2>2. TimesTyped'
        BY <1>1, <1>2, <2>1 DEF TimesInv, TimesTyped
    <2>3. FetchesEnd' /\ SleepEnds'
        BY <1>1, <2>1, TimesAssumption DEF TimesInv, FetchesEnd, SleepEnds
    <2>4. Room(todo') \in Nat
        BY <1>1, <1>2, RoomIsNat
    <2>5. \A a \in Existing' \ ({forced'.id} \union todo') :
              DueFor(account'[a], Room(todo') - FetchTime + fetching')
        <3> TAKE a \in Existing' \ ({forced'.id} \union todo')
        <3>1. a \in Accounts \ todo' /\ account[a] \in TimesRow /\ DueFor(account[a], 0)
            BY <1>1, <1>2, <1>3, <1>4 DEF Existing
        <3>2. Room(todo') >= FetchTime
            BY <1>1, <1>2, <3>1, RoomForOne
        <3>3. Room(todo') - FetchTime + fetching' \in Int
              /\ 0 <= Room(todo') - FetchTime + fetching'
            BY <1>1, <2>4, <3>2, TimesAssumption
        <3> QED BY <1>1, <3>1, <3>3, DueForMore
    <2>6. passed' <= Room(todo') + fetching'
        BY <1>1, <2>4
    <2> QED BY <2>2, <2>3, <2>5, <2>6 DEF TimesInv, PassAdvances
<1> QED BY <1>5, <1>6

LEMMA PassSyncsTimes ==
    ASSUME TimesInv, NEW a \in Accounts, PassSyncs(a)
    PROVE  TimesInv'
<1>1. /\ loop = "passing" /\ a \in todo /\ Synced(a, passed)
      /\ todo' = todo \ {a} /\ fetching' = 0 /\ passed' = passed /\ forced' = forced
      /\ IF todo' = {} THEN Sleeps ELSE loop' = loop /\ timer' = timer
    BY DEF PassSyncs
<1>2. TimesTyped /\ todo \subseteq Accounts /\ passed \in Nat /\ fetching \in Nat
    BY DEF TimesInv, TimesTyped
<1>3. /\ account' \in [Accounts -> TimesRow \union {NULL}]
      /\ Existing' \subseteq Existing
      /\ \A b \in Existing' \ {a} : account'[b] = account[b]
      /\ a \in Existing' => DueFor(account'[a], passed - Hour + 1)
    BY <1>1, <1>2, SyncedRows
<1>4. /\ Room(todo') = Room(todo) + FetchTime
      /\ Room(todo) \in Nat /\ todo' \subseteq Accounts
    BY <1>1, <1>2, RoomGrows, RoomIsNat
<1>5. /\ fetching <= FetchTime /\ passed <= Room(todo) + fetching
      /\ FetchTime \in Nat /\ Hour \in Nat /\ FetchTime < Hour
    BY <1>1, TimesAssumption DEF TimesInv, FetchesEnd, PassAdvances
<1>6. \A b \in Existing' \ ({forced'.id} \union todo') :
          b \in Accounts /\ account'[b] \in TimesRow /\ DueFor(account'[b], Room(todo))
    <2> TAKE b \in Existing' \ ({forced'.id} \union todo')
    <2>1. b \in Accounts /\ account'[b] \in TimesRow
        BY <1>3 DEF Existing
    <2>2. CASE b = a
        <3>1. passed - Hour + 1 \in Int /\ passed - Hour + 1 <= Room(todo)
            BY <1>2, <1>4, <1>5
        <3> QED BY <1>3, <1>4, <2>1, <2>2, <3>1, DueForMore
    <2>3. CASE b # a
        <3>1. b \in Existing \ ({forced.id} \union todo) /\ account'[b] = account[b]
            BY <1>1, <1>3, <2>3
        <3>2. DueFor(account'[b], Room(todo) - FetchTime + fetching)
            BY <1>1, <3>1 DEF TimesInv, PassAdvances
        <3>3. Room(todo) - FetchTime + fetching \in Int
              /\ Room(todo) - FetchTime + fetching <= Room(todo)
            BY <1>2, <1>4, <1>5
        <3> QED BY <1>4, <2>1, <3>2, <3>3, DueForMore
    <2> QED BY <2>2, <2>3
<1>7. FetchesEnd'
    BY <1>1, TimesAssumption DEF TimesInv, FetchesEnd
<1>8. CASE todo' = {}
    <2>1. loop' = "sleeping" /\ timer' \in Nat /\ timer' <= Hour
        BY <1>1, <1>3, <1>8, SleepsTyped
    <2>2. TimesTyped'
        BY <1>1, <1>2, <1>3, <1>4, <2>1 DEF TimesTyped
    <2>3. \A b \in Existing' \ {forced'.id} :
              DueFor(account'[b], Hour + Room({}) - FetchTime - timer')
        <3> TAKE b \in Existing' \ {forced'.id}
        <3>1. b \in Accounts /\ account'[b] \in TimesRow /\ DueFor(account'[b], Room(todo))
            BY <1>6, <1>8
        <3>2. Room({}) = Room(todo) + FetchTime
            BY <1>4, <1>8
        <3>3. Hour + Room({}) - FetchTime - timer' \in Int
              /\ Room(todo) <= Hour + Room({}) - FetchTime - timer'
            BY <1>4, <1>5, <2>1, <3>2
        <3> QED BY <1>4, <3>1, <3>3, DueForMore
    <2> QED BY <1>7, <1>8, <2>1, <2>2, <2>3 DEF TimesInv, PassAdvances, SleepEnds
<1>9. CASE todo' # {}
    <2>1. loop' = "passing" /\ timer' = timer
        BY <1>1, <1>9
    <2>2. TimesTyped'
        BY <1>1, <1>2, <1>3, <1>4, <2>1 DEF TimesTyped
    <2>3. Room(todo') - FetchTime + fetching' = Room(todo)
        BY <1>1, <1>4, <1>5
    <2>4. passed' <= Room(todo') + fetching'
        BY <1>1, <1>2, <1>4, <1>5
    <2> QED BY <1>6, <1>7, <2>1, <2>2, <2>3, <2>4 DEF TimesInv, PassAdvances, SleepEnds
<1> QED BY <1>8, <1>9

LEMMA TickTimes ==
    ASSUME TimesInv, Tick
    PROVE  TimesInv'
<1>1. /\ loop = "sleeping" => timer > 0
      /\ loop = "passing" => fetching < FetchTime
      /\ forced.id # NULL => forced.age < FetchTime
      /\ account' = [a \in Accounts |-> IF a \in Existing
                        THEN [account[a] EXCEPT !.age = @ + 1] ELSE NULL]
      /\ IF loop = "sleeping"
         THEN timer' = timer - 1 /\ passed' = passed /\ fetching' = fetching
         ELSE passed' = passed + 1 /\ fetching' = fetching + 1 /\ timer' = timer
      /\ forced' = IF forced.id = NULL THEN forced ELSE [forced EXCEPT !.age = @ + 1]
      /\ loop' = loop /\ todo' = todo
    BY DEF Tick
<1>2. TimesTyped /\ todo \subseteq Accounts /\ timer \in Nat /\ passed \in Nat /\ fetching \in Nat
      /\ account \in [Accounts -> TimesRow \union {NULL}]
      /\ forced \in [id : Accounts \union {NULL}, age : Nat]
      /\ loop \in {"sleeping", "passing"}
    BY DEF TimesInv, TimesTyped
<1>3. Hour \in Nat /\ FetchTime \in Nat
    BY TimesAssumption
<1>4. forced' \in [id : Accounts \union {NULL}, age : Nat] /\ forced'.id = forced.id
      /\ forced'.age <= FetchTime
    BY <1>1, <1>2, <1>3 DEF TimesInv, FetchesEnd
<1>5. ASSUME NEW a \in Existing
      PROVE  /\ account[a] \in TimesRow
             /\ account'[a] = [account[a] EXCEPT !.age = @ + 1]
             /\ account'[a] \in TimesRow
    <2>1. a \in Accounts /\ account[a] \in TimesRow
        BY <1>2 DEF Existing
    <2>2. account'[a] = [account[a] EXCEPT !.age = @ + 1]
        BY <1>1, <2>1
    <2> QED BY <2>1, <2>2 DEF TimesRow
<1>6. account' \in [Accounts -> TimesRow \union {NULL}]
    BY <1>1, <1>5
<1>7. Existing' \subseteq Existing
    BY <1>1 DEF Existing
<1>8. ASSUME NEW a \in Existing, NEW n \in Int, DueFor(account[a], n)
      PROVE  DueFor(account'[a], n + 1)
    <2>0. account[a] \in TimesRow
        BY <1>5
    <2>1. account[a].interval \in Int /\ account[a].age \in Nat
        BY <2>0, TimesAssumption DEF TimesRow
    <2>2. /\ account'[a].interval = account[a].interval
          /\ account'[a].age = account[a].age + 1
          /\ account'[a].new = account[a].new
        BY <1>5 DEF TimesRow
    <2> QED BY <1>8, <2>1, <2>2 DEF DueFor
<1>9. TimesTyped' /\ FetchesEnd'
    BY <1>1, <1>2, <1>3, <1>4, <1>6 DEF TimesTyped, TimesInv, FetchesEnd
<1>10. Room(todo) \in Nat /\ Room({}) \in Nat
    BY <1>2, RoomIsNat
<1>11. CASE loop = "passing"
    <2>1. passed' = passed + 1 /\ fetching' = fetching + 1 /\ timer' = timer
        BY <1>1, <1>11
    <2>2. passed' <= Room(todo') + fetching'
        BY <1>1, <1>2, <1>10, <1>11, <2>1 DEF TimesInv, PassAdvances
    <2>3. \A a \in Existing' \ ({forced'.id} \union todo') :
              DueFor(account'[a], Room(todo') - FetchTime + fetching')
        <3> TAKE a \in Existing' \ ({forced'.id} \union todo')
        <3> DEFINE n == Room(todo) - FetchTime + fetching
        <3>1. a \in Existing /\ DueFor(account[a], n)
            BY <1>1, <1>4, <1>7, <1>11 DEF TimesInv, PassAdvances
        <3>2. n \in Int /\ n + 1 = Room(todo') - FetchTime + fetching'
            BY <1>1, <1>2, <1>3, <1>10, <2>1
        <3> HIDE DEF n
        <3> QED BY <1>8, <3>1, <3>2
    <2> QED BY <1>1, <1>9, <1>11, <2>2, <2>3 DEF TimesInv, PassAdvances, SleepEnds
<1>12. CASE loop = "sleeping"
    <2>1. /\ passed' = passed /\ fetching' = fetching /\ timer' = timer - 1
          /\ timer > 0 /\ timer' <= Hour /\ todo = {}
        BY <1>1, <1>2, <1>3, <1>12 DEF TimesInv, SleepEnds
    <2>2. \A a \in Existing' \ {forced'.id} :
              DueFor(account'[a], Hour + Room({}) - FetchTime - timer')
        <3> TAKE a \in Existing' \ {forced'.id}
        <3> DEFINE n == Hour + Room({}) - FetchTime - timer
        <3>1. a \in Existing /\ DueFor(account[a], n)
            BY <1>4, <1>7, <1>12, <2>1 DEF TimesInv, SleepEnds
        <3>2. n \in Int /\ n + 1 = Hour + Room({}) - FetchTime - timer'
            BY <1>2, <1>3, <1>10, <2>1
        <3> HIDE DEF n
        <3> QED BY <1>8, <3>1, <3>2
    <2>3. TimesTyped'
        BY <1>2, <2>1, <1>9
    <2> QED BY <1>1, <1>9, <1>12, <2>1, <2>2, <2>3 DEF TimesInv, PassAdvances, SleepEnds
<1> QED BY <1>2, <1>11, <1>12

(* A request that adds, changes or removes an account leaves alone what is *)
(* known of all the others, or of all that it does not sync.               *)
LEMMA RequestTimes ==
    ASSUME TimesInv,
           account' \in [Accounts -> TimesRow \union {NULL}],
           forced' \in [id : Accounts \union {NULL}, age : Nat],
           forced'.age <= FetchTime,
           UNCHANGED <<loop, timer, todo, passed, fetching>>,
           \A a \in Existing' \ {forced'.id} :
               \/ a \in Existing /\ a # forced.id /\ account'[a] = account[a]
               \/ DueFor(account'[a], 0)
    PROVE  TimesInv'
<1>1. TimesTyped'
    BY DEF TimesInv, TimesTyped
<1>2. FetchesEnd'
    BY DEF TimesInv, FetchesEnd
<1>3. \A a \in Existing' : a \in Accounts /\ account'[a] \in TimesRow
    BY DEF Existing
<1>4. todo \subseteq Accounts /\ timer \in Nat /\ fetching \in Nat
      /\ Room(todo) \in Nat /\ Room({}) \in Nat /\ Hour \in Nat /\ FetchTime \in Nat
    BY RoomIsNat, TimesAssumption DEF TimesInv, TimesTyped
<1>5. ASSUME loop = "passing", NEW a \in Existing' \ ({forced'.id} \union todo)
      PROVE  DueFor(account'[a], Room(todo) - FetchTime + fetching)
    <2>1. CASE a \in Existing /\ a # forced.id /\ account'[a] = account[a]
        BY <1>5, <2>1 DEF TimesInv, PassAdvances
    <2>2. CASE DueFor(account'[a], 0)
        <3>1. Room(todo) >= FetchTime
            BY <1>3, <1>4, <1>5, RoomForOne
        <3>2. Room(todo) - FetchTime + fetching \in Int
              /\ 0 <= Room(todo) - FetchTime + fetching
            BY <1>4, <3>1
        <3> QED BY <1>3, <2>2, <3>2, DueForMore
    <2> QED BY <1>5, <2>1, <2>2
<1>6. ASSUME loop = "sleeping", timer > 0, NEW a \in Existing' \ {forced'.id}
      PROVE  DueFor(account'[a], Hour + Room({}) - FetchTime - timer)
    <2>1. CASE a \in Existing /\ a # forced.id /\ account'[a] = account[a]
        BY <1>6, <2>1 DEF TimesInv, SleepEnds
    <2>2. CASE DueFor(account'[a], 0)
        <3>1. Room({}) >= FetchTime /\ timer <= Hour
            BY <1>3, <1>6, RoomForOne DEF TimesInv, SleepEnds
        <3>2. Hour + Room({}) - FetchTime - timer \in Int
              /\ 0 <= Hour + Room({}) - FetchTime - timer
            BY <1>4, <3>1
        <3> QED BY <1>3, <2>2, <3>2, DueForMore
    <2> QED BY <1>6, <2>1, <2>2
<1>7. PassAdvances'
    BY <1>5 DEF TimesInv, PassAdvances
<1>8. SleepEnds'
    BY <1>6 DEF TimesInv, SleepEnds
<1> QED BY <1>1, <1>2, <1>7, <1>8 DEF TimesInv

LEMMA AddAccountTimes ==
    ASSUME TimesInv, NEW a \in Accounts, AddAccount(a)
    PROVE  TimesInv'
<1>1. account \in [Accounts -> TimesRow \union {NULL}]
    BY DEF TimesInv, TimesTyped
<1>2. PICK i \in Intervals :
          account' = [account EXCEPT ![a] = [interval |-> i, age |-> 0, new |-> TRUE]]
    BY DEF AddAccount
<1>3. /\ UNCHANGED <<loop, timer, todo, passed, fetching>>
      /\ forced.id = NULL /\ forced' = [id |-> a, age |-> 0]
    BY DEF AddAccount, Forces
<1>4. account' \in [Accounts -> TimesRow \union {NULL}]
    <2>1. [interval |-> i, age |-> 0, new |-> TRUE] \in TimesRow
        BY DEF TimesRow
    <2> QED BY <1>1, <1>2, <2>1
<1>5. \A b \in Existing' \ {forced'.id} :
          b \in Existing /\ b # forced.id /\ account'[b] = account[b]
    BY <1>1, <1>2, <1>3, TimesAssumption DEF Existing
<1>6. forced' \in [id : Accounts \union {NULL}, age : Nat] /\ forced'.age <= FetchTime
    BY <1>3, TimesAssumption
<1> QED BY <1>3, <1>4, <1>5, <1>6, RequestTimes

LEMMA ChangeIntervalTimes ==
    ASSUME TimesInv, NEW a \in Accounts, ChangeInterval(a)
    PROVE  TimesInv'
<1>1. account \in [Accounts -> TimesRow \union {NULL}]
    BY DEF TimesInv, TimesTyped
<1>2. a \in Existing /\ \E i \in Intervals : account' = [account EXCEPT ![a].interval = i]
    BY DEF ChangeInterval
<1>3. PICK i \in Intervals : account' = [account EXCEPT ![a].interval = i]
    BY <1>2
<1>4. /\ UNCHANGED <<loop, timer, todo, passed, fetching>>
      /\ forced.id = NULL /\ forced' = [id |-> a, age |-> 0]
    BY DEF ChangeInterval, Forces
<1>5. account' \in [Accounts -> TimesRow \union {NULL}]
    <2>1. account[a] \in TimesRow
        BY <1>1, <1>2 DEF Existing
    <2>2. [account[a] EXCEPT !.interval = i] \in TimesRow
        BY <2>1 DEF TimesRow
    <2> QED BY <1>1, <1>3, <2>2
<1>6. \A b \in Existing' \ {forced'.id} :
          b \in Existing /\ b # forced.id /\ account'[b] = account[b]
    BY <1>1, <1>3, <1>4, TimesAssumption DEF Existing
<1>7. forced' \in [id : Accounts \union {NULL}, age : Nat] /\ forced'.age <= FetchTime
    BY <1>4, TimesAssumption
<1> QED BY <1>4, <1>5, <1>6, <1>7, RequestTimes

LEMMA RemoveAccountTimes ==
    ASSUME TimesInv, NEW a \in Accounts, RemoveAccount(a)
    PROVE  TimesInv'
<1>1. /\ account \in [Accounts -> TimesRow \union {NULL}]
      /\ forced \in [id : Accounts \union {NULL}, age : Nat]
      /\ forced.age <= FetchTime
    BY DEF TimesInv, TimesTyped, FetchesEnd
<1>2. /\ account' = [account EXCEPT ![a] = NULL]
      /\ UNCHANGED <<loop, timer, todo, passed, fetching>> /\ forced' = forced
    BY DEF RemoveAccount
<1>3. account' \in [Accounts -> TimesRow \union {NULL}]
    BY <1>1, <1>2
<1>4. \A b \in Existing' \ {forced'.id} :
          b \in Existing /\ b # forced.id /\ account'[b] = account[b]
    BY <1>1, <1>2 DEF Existing
<1> QED BY <1>1, <1>2, <1>3, <1>4, RequestTimes

LEMMA ForcedEndsTimes ==
    ASSUME TimesInv, ForcedEnds
    PROVE  TimesInv'
<1>1. /\ TimesTyped
      /\ forced.id \in Accounts /\ forced.age \in Nat /\ forced.age <= FetchTime
    BY DEF TimesInv, TimesTyped, FetchesEnd, ForcedEnds
<1>2. /\ Synced(forced.id, forced.age) /\ forced' = NotForced
      /\ UNCHANGED <<loop, timer, todo, passed, fetching>>
    BY DEF ForcedEnds
<1>3. /\ account' \in [Accounts -> TimesRow \union {NULL}]
      /\ Existing' \subseteq Existing
      /\ \A b \in Existing' \ {forced.id} : account'[b] = account[b]
      /\ forced.id \in Existing' => DueFor(account'[forced.id], forced.age - Hour + 1)
    BY <1>1, <1>2, SyncedRows
<1>4. ASSUME forced.id \in Existing'
      PROVE  DueFor(account'[forced.id], 0)
    <2>1. account'[forced.id] \in TimesRow
        BY <1>1, <1>3, <1>4 DEF Existing
    <2>2. forced.age - Hour + 1 \in Int /\ forced.age - Hour + 1 <= 0
        BY <1>1, TimesAssumption
    <2> QED BY <1>3, <1>4, <2>1, <2>2, DueForMore
<1>5. \A b \in Existing' \ {forced'.id} :
          \/ b \in Existing /\ b # forced.id /\ account'[b] = account[b]
          \/ DueFor(account'[b], 0)
    BY <1>3, <1>4
<1>6. forced' \in [id : Accounts \union {NULL}, age : Nat] /\ forced'.age <= FetchTime
    BY <1>2, TimesAssumption DEF NotForced
<1> QED BY <1>2, <1>3, <1>5, <1>6, RequestTimes

LEMMA TimesInvNext ==
    ASSUME TimesInv, [Next]_panelVars
    PROVE  TimesInv'
<1>1. CASE UNCHANGED timesVars
    BY <1>1 DEF timesVars, TimesInv, TimesTyped, FetchesEnd, PassAdvances,
        SleepEnds, Existing
<1>2. CASE TimesStep
    BY <1>2, WakeUpTimes, TickTimes, ForcedEndsTimes, PassSyncsTimes, AddAccountTimes,
        ChangeIntervalTimes, RemoveAccountTimes DEF TimesStep
<1> QED BY <1>1, <1>2 DEF Next, panelVars

(* A pass that ends leaves every account that it need not sync due for     *)
(* less than the other accounts' fetches, and the loop sleeps for an hour  *)
(* at most: whatever the intervals are changed to meanwhile, and however   *)
(* many accounts there are (SyncDue, NextWake, runCalendarSync).           *)
THEOREM AccountsSyncedInTime == Spec => []SyncedInTime
<1>1. Init => TimesInv
    BY TimesInvInit
<1>2. TimesInv /\ [Next]_panelVars => TimesInv'
    BY TimesInvNext
<1>3. TimesInv => SyncedInTime
    <2> SUFFICES ASSUME TimesInv, loop = "sleeping", timer > 0,
                        NEW a \in Existing \ {forced.id}
                 PROVE  Overdue(a) + timer < Hour + (Cardinality(Accounts) - 1) * FetchTime
        BY DEF SyncedInTime
    <2>1. DueFor(account[a], Hour + Room({}) - FetchTime - timer)
        BY DEF TimesInv, SleepEnds
    <2>2. account[a] \in TimesRow /\ timer \in Nat
        BY DEF TimesInv, TimesTyped, Existing
    <2>3. Overdue(a) \in Int /\ Overdue(a) < Hour + Room({}) - FetchTime - timer
        BY <2>1, <2>2, TimesAssumption DEF DueFor, Overdue, TimesRow
    <2> DEFINE n == Cardinality(Accounts)
    <2>4. n \in Nat /\ Room({}) \in Nat /\ FetchTime \in Nat /\ Hour \in Nat
        BY FS_CardinalityType, RoomIsNat, TimesAssumption
    <2>5. Room({}) = n * FetchTime
        BY <2>4, FS_EmptySet DEF Room
    <2>6. (n - 1) * FetchTime = n * FetchTime - FetchTime
        <3> HIDE DEF n
        <3> QED BY <2>4
    <2> QED BY <2>2, <2>3, <2>4, <2>5, <2>6
<1> QED BY <1>1, <1>2, <1>3, PTL DEF Spec

-----------------------------------------------------------------------------
(* The order of events, and of an account's rows. *)
Timed(e) == e.title \in Nat /\ e.start \in Nat

LEMMA NotBefore ==
    ASSUME NEW e, NEW f, NEW g, Timed(e), Timed(f), Timed(g), ~Before(e, f), ~Before(f, g)
    PROVE  ~Before(e, g)
BY DEF Timed, Before

LEMMA BeforeOnce ==
    ASSUME NEW e, NEW f, Timed(e), Timed(f)
    PROVE  /\ ~Before(e, e)
           /\ Before(e, f) => ~Before(f, e)
           /\ ~Before(e, f) /\ ~Before(f, e) => e.title = f.title /\ e.start = f.start
BY DEF Timed, Before

LEMMA RowsTimed ==
    ASSUME NEW table \in Seq(Row), NEW n \in DOMAIN table
    PROVE  /\ Timed(table[n].event) /\ n \in Nat
           /\ table[n] \in Row /\ table[n].account \in Accounts /\ table[n].event \in Event
           /\ table[n].event.title \in Titles /\ table[n].event.start \in Starts
<1>1. table[n] \in Row /\ n \in Nat
    OBVIOUS
<1>2. table[n].account \in Accounts /\ table[n].event \in Event
    BY <1>1 DEF Row
<1>3. table[n].event.title \in Titles /\ table[n].event.start \in Starts
    BY <1>2 DEF Event
<1> QED BY <1>1, <1>2, <1>3, AgendaAssumption DEF Timed

LEMMA PrecedesOrder ==
    ASSUME NEW table \in Seq(Row), NEW l \in DOMAIN table, NEW m \in DOMAIN table,
           NEW n \in DOMAIN table
    PROVE  /\ ~Precedes(table, m, m)
           /\ Precedes(table, l, m) /\ Precedes(table, m, n) => Precedes(table, l, n)
           /\ m # n => Precedes(table, m, n) \/ Precedes(table, n, m)
           /\ Precedes(table, m, n) => ~Before(table[n].event, table[m].event)
<1> DEFINE e == table[l].event
           f == table[m].event
           g == table[n].event
<1>1. Timed(e) /\ Timed(f) /\ Timed(g) /\ l \in Nat /\ m \in Nat /\ n \in Nat
    BY RowsTimed
<1>2. /\ Precedes(table, m, m) <=> Before(f, f) \/ (~Before(f, f) /\ m < m)
      /\ Precedes(table, l, m) <=> Before(e, f) \/ (~Before(f, e) /\ l < m)
      /\ Precedes(table, m, n) <=> Before(f, g) \/ (~Before(g, f) /\ m < n)
      /\ Precedes(table, n, m) <=> Before(g, f) \/ (~Before(f, g) /\ n < m)
      /\ Precedes(table, l, n) <=> Before(e, g) \/ (~Before(g, e) /\ l < n)
    BY Zenon DEF Precedes
<1> HIDE DEF e, f, g
<1>3. ~Precedes(table, m, m)
    BY <1>1, <1>2, BeforeOnce
<1>4. ASSUME Precedes(table, l, m), Precedes(table, m, n)
      PROVE  Precedes(table, l, n)
    BY <1>1, <1>2, <1>4 DEF Before, Timed
<1>5. m # n => Precedes(table, m, n) \/ Precedes(table, n, m)
    BY <1>1, <1>2
<1>6. Precedes(table, m, n) => ~Before(g, f)
    BY <1>1, <1>2, BeforeOnce
<1> QED BY <1>3, <1>4, <1>5, <1>6, Zenon DEF f, g

-----------------------------------------------------------------------------
(* Sorted puts the ids in order, each once: the numbers of rows that       *)
(* precede a row are all different, and so they are all there.             *)
Below(table, ids, n) == {m \in ids : Precedes(table, m, n)}

LEMMA UpTo ==
    ASSUME NEW n \in Nat
    PROVE  IsFiniteSet(1..n) /\ Cardinality(1..n) = n
BY FS_Interval

LEMMA IdsFinite ==
    ASSUME NEW table \in Seq(Row), NEW ids, ids \subseteq DOMAIN table
    PROVE  IsFiniteSet(ids) /\ Cardinality(ids) \in Nat
<1>1. IsFiniteSet(1..Len(table))
    BY FS_Interval
<1>2. ids \subseteq 1..Len(table)
    OBVIOUS
<1> QED BY <1>1, <1>2, FS_Subset, FS_CardinalityType

LEMMA BelowGrows ==
    ASSUME NEW table \in Seq(Row), NEW ids, ids \subseteq DOMAIN table,
           NEW m \in ids, NEW n \in ids, Precedes(table, m, n)
    PROVE  Cardinality(Below(table, ids, m)) < Cardinality(Below(table, ids, n))
<1> DEFINE B(k) == Below(table, ids, k)
<1>1. B(m) \subseteq ids /\ B(n) \subseteq ids /\ m \notin B(m) /\ B(m) \union {m} \subseteq B(n)
    <2>1. m \notin B(m)
        BY PrecedesOrder DEF Below
    <2>2. ASSUME NEW l \in B(m)
          PROVE  l \in B(n)
        BY PrecedesOrder DEF Below
    <2> QED BY <2>1, <2>2 DEF Below
<1> HIDE DEF B
<1>2. IsFiniteSet(ids)
    BY IdsFinite
<1>3. IsFiniteSet(B(m)) /\ IsFiniteSet(B(n))
    BY <1>1, <1>2, FS_Subset
<1>4. Cardinality(B(m) \union {m}) = Cardinality(B(m)) + 1
    BY <1>1, <1>3, FS_AddElement
<1>5. Cardinality(B(m) \union {m}) <= Cardinality(B(n))
    BY <1>1, <1>3, FS_Subset
<1>6. Cardinality(B(m)) \in Nat /\ Cardinality(B(n)) \in Nat
    BY <1>3, FS_CardinalityType
<1>7. Cardinality(B(m)) < Cardinality(B(n))
    BY <1>4, <1>5, <1>6
<1> QED BY <1>7 DEF B

LEMMA SortedOrder ==
    ASSUME NEW table \in Seq(Row), NEW ids, ids \subseteq DOMAIN table
    PROVE  /\ Sorted(table, ids) \in [1..Cardinality(ids) -> ids]
           /\ \A n \in ids : \E k \in 1..Cardinality(ids) : Sorted(table, ids)[k] = n
           /\ \A i, j \in 1..Cardinality(ids) : i < j =>
                 ~Before(table[Sorted(table, ids)[j]].event, table[Sorted(table, ids)[i]].event)
<1> DEFINE N == Cardinality(ids)
           s == Sorted(table, ids)
           rank == [n \in ids |-> Cardinality(Below(table, ids, n)) + 1]
<1>1. IsFiniteSet(ids) /\ N \in Nat
    BY IdsFinite
<1>2. ASSUME NEW n \in ids
      PROVE  Cardinality(Below(table, ids, n)) \in 0..(N - 1)
    <2>1. Below(table, ids, n) \subseteq ids \ {n}
        BY PrecedesOrder DEF Below
    <2>2. IsFiniteSet(ids \ {n}) /\ Cardinality(ids \ {n}) = N - 1
        BY <1>1, FS_RemoveElement
    <2>3. IsFiniteSet(Below(table, ids, n)) /\ Cardinality(Below(table, ids, n)) <= N - 1
        BY <2>1, <2>2, FS_Subset
    <2>4. Cardinality(Below(table, ids, n)) \in Nat
        BY <2>3, FS_CardinalityType
    <2> QED BY <1>1, <2>3, <2>4
<1>3. \A n \in ids : rank[n] = Cardinality(Below(table, ids, n)) + 1
    OBVIOUS
<1>4. rank \in [ids -> 1..N]
    BY <1>1, <1>2
<1>5. ASSUME NEW m \in ids, NEW n \in ids, Precedes(table, m, n)
      PROVE  rank[m] < rank[n]
    <2>1. Cardinality(Below(table, ids, m)) < Cardinality(Below(table, ids, n))
        BY <1>5, BelowGrows
    <2> QED BY <1>1, <1>2, <1>3, <2>1
<1> HIDE DEF rank
<1>6. \A m, n \in ids : rank[m] = rank[n] => m = n
    <2> SUFFICES ASSUME NEW m \in ids, NEW n \in ids, rank[m] = rank[n], m # n
                 PROVE  FALSE
        OBVIOUS
    <2>1. Precedes(table, m, n) \/ Precedes(table, n, m)
        BY PrecedesOrder
    <2>2. rank[m] \in Nat /\ rank[n] \in Nat
        BY <1>1, <1>4
    <2> QED BY <1>5, <2>1, <2>2
<1>7. rank \in Surjection(ids, 1..N)
    <2>1. rank \in Injection(ids, 1..N)
        BY <1>4, <1>6 DEF Injection, IsInjective
    <2>2. IsFiniteSet(1..N) /\ Cardinality(1..N) = N
        BY <1>1, UpTo
    <2> QED BY <2>1, <2>2, FS_Injection
<1>8. \A k \in 1..N : \E n \in ids : rank[n] = k
    BY <1>7 DEF Surjection
<1>9. ASSUME NEW k \in 1..N
      PROVE  s[k] \in ids /\ rank[s[k]] = k
    <2>1. ASSUME NEW n \in ids
          PROVE  rank[n] = k <=> Cardinality({m \in ids : Precedes(table, m, n)}) = k - 1
        <3> DEFINE c == Cardinality(Below(table, ids, n))
        <3>1. c \in 0..(N - 1) /\ rank[n] = c + 1
            BY <1>2, <1>3
        <3>2. c = Cardinality({m \in ids : Precedes(table, m, n)})
            BY DEF Below
        <3> HIDE DEF c
        <3>3. rank[n] = k <=> c = k - 1
            BY <1>1, <3>1
        <3> QED BY <3>2, <3>3, Zenon
    <2>2. s[k] = CHOOSE n \in ids : Cardinality({m \in ids : Precedes(table, m, n)}) = k - 1
        BY DEF Sorted
    <2>3. PICK n \in ids : Cardinality({m \in ids : Precedes(table, m, n)}) = k - 1
        BY <1>8, <2>1
    <2>4. s[k] \in ids /\ Cardinality({m \in ids : Precedes(table, m, s[k])}) = k - 1
        BY <2>2, <2>3, Zenon
    <2> QED BY <2>1, <2>4, Zenon
<1>10. s \in [1..N -> ids]
    BY <1>9 DEF Sorted
<1>11. \A n \in ids : \E k \in 1..N : s[k] = n
    <2> TAKE n \in ids
    <2>1. rank[n] \in 1..N
        BY <1>4
    <2> HIDE DEF s
    <2>2. s[rank[n]] = n
        BY <1>6, <1>9, <2>1
    <2> QED BY <2>1, <2>2
<1>12. ASSUME NEW i \in 1..N, NEW j \in 1..N, i < j
       PROVE  ~Before(table[s[j]].event, table[s[i]].event)
    <2> HIDE DEF s
    <2>1. s[i] \in ids /\ s[j] \in ids /\ rank[s[i]] = i /\ rank[s[j]] = j
        BY <1>9
    <2>2. s[i] # s[j] /\ ~Precedes(table, s[j], s[i])
        BY <1>1, <1>5, <1>12, <2>1
    <2>3. Precedes(table, s[i], s[j])
        BY <2>1, <2>2, PrecedesOrder
    <2> QED BY <2>1, <2>3, PrecedesOrder
<1> HIDE DEF s, N
<1> QED BY <1>10, <1>11, <1>12, Zenon DEF s, N

-----------------------------------------------------------------------------
(* The merged list of the rows D of a table: one entry for each key, that  *)
(* shows the first of the key's rows and has the markers of all of them.   *)
Keys == {dedupKey(e) : e \in Event}

Entry == [key : Keys, title : Titles, start : Starts, markers : Seq(Markers)]

Of(table, D, key) == {n \in D : dedupKey(table[n].event) = key}

MarkersOf(table, D) == {marker[table[n].account] : n \in D} \ {NULL}

ShowsFirst(entry, table, D) ==
    \E n \in D : /\ entry.title = table[n].event.title /\ entry.start = table[n].event.start
                 /\ \A m \in D : ~Before(table[m].event, table[n].event)

HasMarkers(entry, table, D) ==
    IsInjective(entry.markers) /\ Range(entry.markers) = MarkersOf(table, D)

IsMerged(list, table, D) ==
    /\ list \in Seq(Entry)
    /\ \A i, j \in DOMAIN list : list[i].key = list[j].key => i = j
    /\ \A i, j \in DOMAIN list : i < j => ~Before(list[j], list[i])
    /\ \A i \in DOMAIN list : ShowsFirst(list[i], table, Of(table, D, list[i].key))
    /\ \A i \in DOMAIN list : HasMarkers(list[i], table, Of(table, D, list[i].key))
    /\ \A n \in D : \E i \in DOMAIN list : list[i].key = dedupKey(table[n].event)

MarkersTyped == marker \in [Accounts -> Markers \union {NULL}]

LEMMA IsSeqOf ==
    ASSUME NEW S, NEW N \in Nat, NEW f \in [1..N -> S]
    PROVE  f \in Seq(S) /\ Len(f) = N /\ DOMAIN f = 1..N
OBVIOUS

LEMMA SeqChanged ==
    ASSUME NEW S, NEW s \in Seq(S), NEW i \in DOMAIN s, NEW v \in S
    PROVE  /\ [s EXCEPT ![i] = v] \in Seq(S) /\ Len([s EXCEPT ![i] = v]) = Len(s)
           /\ DOMAIN [s EXCEPT ![i] = v] = DOMAIN s
<1>1. s \in [1..Len(s) -> S] /\ Len(s) \in Nat /\ DOMAIN s = 1..Len(s)
    OBVIOUS
<1>2. [s EXCEPT ![i] = v] \in [1..Len(s) -> S]
    BY <1>1
<1> QED BY <1>1, <1>2, IsSeqOf, Zenon

LEMMA SeqAppended ==
    ASSUME NEW S, NEW s \in Seq(S), NEW v \in S
    PROVE  LET N == Len(s) + 1
               t == Append(s, v)
           IN  /\ t \in Seq(S) /\ DOMAIN t = (DOMAIN s) \union {N} /\ Len(t) = N
               /\ N \notin DOMAIN s /\ t[N] = v /\ N \in Nat /\ N > 0
               /\ \A i \in DOMAIN s : t[i] = s[i] /\ i < N /\ i \in Nat /\ i <= Len(s) /\ i > 0
OBVIOUS

LEMMA RangeAppended ==
    ASSUME NEW S, NEW s \in Seq(S), NEW v \in S
    PROVE  Append(s, v) \in Seq(S) /\ Range(Append(s, v)) = Range(s) \union {v}
<1> DEFINE t == Append(s, v)
<1>1. /\ t \in Seq(S) /\ DOMAIN t = (DOMAIN s) \union {Len(s) + 1} /\ t[Len(s) + 1] = v
      /\ \A i \in DOMAIN s : t[i] = s[i]
    BY SeqAppended
<1> HIDE DEF t
<1>2. Range(t) = Range(s) \union {v}
    BY <1>1 DEF Range
<1> QED BY <1>1, <1>2 DEF t

LEMMA SliceMore ==
    ASSUME NEW S, NEW s \in Seq(S), NEW m \in 1..Len(s), NEW n \in m..Len(s), n < Len(s)
    PROVE  /\ SubSeq(s, m, n) \in Seq(S)
           /\ SubSeq(s, m, n + 1) = Append(SubSeq(s, m, n), s[n + 1])
<1> DEFINE k == n + 1
<1>1. /\ k \in 1..Len(s) /\ k \in m..Len(s) /\ k - 1 = n
      /\ n \in Int /\ m \in Int
    OBVIOUS
<1>2. s[k] \in S /\ \A i \in m..n : s[i] \in S
    BY <1>1
<1>3. SubSeq(s, m, n) \in Seq(S)
    BY <1>1, <1>2, SubSeqProperties
<1>4. SubSeq(s, m, k) = SubSeq(s, m, k - 1) \o <<s[k]>>
    BY <1>1, SubSeqRecursiveSecond
<1>5. Append(SubSeq(s, m, n), s[k]) = SubSeq(s, m, n) \o <<s[k]>>
    BY <1>2, <1>3, AppendIsConcat
<1> QED BY <1>1, <1>3, <1>4, <1>5, Zenon

LEMMA SliceOne ==
    ASSUME NEW S, NEW s \in Seq(S), NEW k \in 1..Len(s)
    PROVE  SubSeq(s, k, k) = <<s[k]>>
<1>1. k \in k..Len(s) /\ k \in Int /\ k - 1 \in Int /\ k - 1 < k
    OBVIOUS
<1>2. SubSeq(s, k, k) = SubSeq(s, k, k - 1) \o <<s[k]>>
    BY <1>1, SubSeqRecursiveSecond
<1>3. SubSeq(s, k, k - 1) = <<>>
    BY <1>1, SubSeqEmpty
<1>4. <<s[k]>> \in Seq(S)
    OBVIOUS
<1>5. <<>> \o <<s[k]>> = <<s[k]>>
    BY <1>4, ConcatEmptySeq
<1> QED BY <1>2, <1>3, <1>5, Zenon

LEMMA MarkerAdded ==
    ASSUME NEW dst \in Seq(Markers), IsInjective(dst), NEW m \in Markers \union {NULL}
    PROVE  /\ addMarkers(dst, m) \in Seq(Markers)
           /\ IsInjective(addMarkers(dst, m))
           /\ Range(addMarkers(dst, m)) = Range(dst) \union ({m} \ {NULL})
<1>1. CASE m = NULL
    <2>1. addMarkers(dst, m) = dst
        BY <1>1 DEF addMarkers
    <2> QED BY <1>1, <2>1
<1>2. CASE m # NULL /\ m \in Range(dst)
    <2>1. addMarkers(dst, m) = dst
        BY <1>2 DEF addMarkers
    <2> QED BY <1>2, <2>1
<1>3. CASE m # NULL /\ m \notin Range(dst)
    <2> DEFINE new == Append(dst, m)
    <2>1. addMarkers(dst, m) = new /\ m \in Markers
        BY <1>3 DEF addMarkers
    <2>2. /\ new \in Seq(Markers) /\ DOMAIN new = (DOMAIN dst) \union {Len(dst) + 1}
          /\ \A i \in DOMAIN dst : new[i] = dst[i]
          /\ new[Len(dst) + 1] = m
          /\ Len(dst) + 1 \notin DOMAIN dst
        BY <2>1
    <2> HIDE DEF new
    <2>3. \A i \in DOMAIN dst : dst[i] # m
        BY <1>3 DEF Range
    <2>4. IsInjective(new)
        BY <2>2, <2>3 DEF IsInjective
    <2>5. Range(new) = Range(dst) \union {m}
        BY <2>1, RangeAppended DEF new
    <2> QED BY <1>3, <2>1, <2>2, <2>4, <2>5
<1> QED BY <1>1, <1>2, <1>3
LEMMA MarkersOfMore ==
    ASSUME NEW table, NEW D, NEW n
    PROVE  MarkersOf(table, D \union {n}) =
               MarkersOf(table, D) \union ({marker[table[n].account]} \ {NULL})
BY DEF MarkersOf

(* A row of a known key, that comes after the rows there are. *)
LEMMA MergeKnown ==
    ASSUME MarkersTyped, NEW table \in Seq(Row), NEW D, D \subseteq DOMAIN table,
           NEW n \in DOMAIN table, NEW list, IsMerged(list, table, D),
           \A m \in D : ~Before(table[n].event, table[m].event),
           NEW j \in DOMAIN list, list[j].key = dedupKey(table[n].event)
    PROVE  IsMerged(MergeInto(list, table[n]), table, D \union {n})
<1> DEFINE k == dedupKey(table[n].event)
           m == marker[table[n].account]
           E == D \union {n}
           known == {i \in DOMAIN list : list[i].key = k}
           new == [i \in DOMAIN list |->
                      IF i \in known THEN [list[i] EXCEPT !.markers = addMarkers(@, m)]
                                     ELSE list[i]]
<1>1. MergeInto(list, table[n]) = new
    BY Zenon DEF MergeInto
<1>2. m \in Markers \union {NULL}
    BY RowsTimed DEF MarkersTyped
<1>3. /\ list \in Seq(Entry)
      /\ \A i \in DOMAIN list : HasMarkers(list[i], table, Of(table, D, list[i].key))
      /\ \A i \in DOMAIN list : ShowsFirst(list[i], table, Of(table, D, list[i].key))
      /\ \A i, h \in DOMAIN list : list[i].key = list[h].key => i = h
      /\ \A i, h \in DOMAIN list : i < h => ~Before(list[h], list[i])
      /\ \A l \in D : \E i \in DOMAIN list : list[i].key = dedupKey(table[l].event)
    BY Zenon DEF IsMerged
<1>4. ASSUME NEW i \in DOMAIN list
      PROVE  /\ new[i] \in Entry
             /\ new[i].key = list[i].key
             /\ new[i].title = list[i].title /\ new[i].start = list[i].start
             /\ HasMarkers(new[i], table, Of(table, E, new[i].key))
    <2>1. list[i] \in Entry
        BY <1>3
    <2>2. list[i].markers \in Seq(Markers) /\ IsInjective(list[i].markers)
        BY <1>3, <2>1 DEF Entry, HasMarkers
    <2> DEFINE added == addMarkers(list[i].markers, m)
    <2>3. /\ added \in Seq(Markers) /\ IsInjective(added)
          /\ Range(added) = Range(list[i].markers) \union ({m} \ {NULL})
        BY <1>2, <2>2, MarkerAdded
    <2>4. CASE list[i].key = k
        <3>1. new[i] = [list[i] EXCEPT !.markers = added]
            BY <2>4
        <3>2. /\ new[i] \in Entry /\ new[i].key = list[i].key
              /\ new[i].title = list[i].title /\ new[i].start = list[i].start
              /\ new[i].markers = added
            <4> HIDE DEF added, new
            <4> QED BY <2>1, <2>3, <3>1 DEF Entry
        <3>3. Of(table, E, new[i].key) = Of(table, D, list[i].key) \union {n}
            BY <2>4, <3>2 DEF Of
        <3>4. Range(added) = MarkersOf(table, Of(table, D, list[i].key) \union {n})
            BY <1>3, <2>3, MarkersOfMore DEF HasMarkers
        <3> HIDE DEF added, new, E
        <3> QED BY <2>3, <3>2, <3>3, <3>4, Zenon DEF HasMarkers
    <2>5. CASE list[i].key # k
        <3>1. new[i] = list[i]
            BY <2>5
        <3>2. Of(table, E, list[i].key) = Of(table, D, list[i].key)
            BY <2>5 DEF Of
        <3> HIDE DEF added, new, E
        <3> QED BY <1>3, <2>1, <3>1, <3>2, Zenon
    <2> QED BY <2>4, <2>5
<1>5. DOMAIN new = DOMAIN list /\ new \in Seq(Entry)
    <2>1. DOMAIN new = 1..Len(list) /\ DOMAIN list = 1..Len(list) /\ Len(list) \in Nat
        BY <1>3
    <2> HIDE DEF new
    <2>2. new = [i \in 1..Len(list) |-> new[i]]
        BY <2>1, Zenon DEF new
    <2>3. \A i \in 1..Len(list) : new[i] \in Entry
        BY <1>3, <1>4, <2>1
    <2>4. new \in [1..Len(list) -> Entry]
        BY <2>2, <2>3
    <2>5. new \in Seq(Entry)
        BY <2>1, <2>4, IsSeqOf, Zenon
    <2> QED BY <2>1, <2>5, Zenon
<1> HIDE DEF new
<1>6. \A i, h \in DOMAIN new : new[i].key = new[h].key => i = h
    BY <1>3, <1>4, <1>5
<1>7. \A i, h \in DOMAIN new : i < h => ~Before(new[h], new[i])
    BY <1>3, <1>4, <1>5 DEF Before
<1>8. ASSUME NEW i \in DOMAIN new
      PROVE  ShowsFirst(new[i], table, Of(table, E, new[i].key))
    <2>1. PICK l \in Of(table, D, list[i].key) :
              /\ list[i].title = table[l].event.title /\ list[i].start = table[l].event.start
              /\ \A h \in Of(table, D, list[i].key) : ~Before(table[h].event, table[l].event)
        BY <1>3, <1>5, <1>8, Zenon DEF ShowsFirst
    <2>2. l \in D /\ ~Before(table[n].event, table[l].event)
        BY <2>1 DEF Of
    <2>3. /\ l \in Of(table, E, new[i].key)
          /\ \A h \in Of(table, E, new[i].key) : ~Before(table[h].event, table[l].event)
        BY <1>4, <1>5, <2>1, <2>2 DEF Of
    <2>4. new[i].title = list[i].title /\ new[i].start = list[i].start
        BY <1>4, <1>5
    <2> HIDE DEF E
    <2> QED BY <2>1, <2>3, <2>4 DEF ShowsFirst
<1>9. \A l \in E : \E i \in DOMAIN new : new[i].key = dedupKey(table[l].event)
    BY <1>3, <1>4, <1>5
<1>10. \A i \in DOMAIN new : HasMarkers(new[i], table, Of(table, E, new[i].key))
    BY <1>4, <1>5
<1> HIDE DEF E
<1> QED BY <1>1, <1>5, <1>6, <1>7, <1>8, <1>9, <1>10, Zenon DEF IsMerged, E
(* A row of a new key: the list ends with an entry of its own. *)
LEMMA MergeNew ==
    ASSUME MarkersTyped, NEW table \in Seq(Row), NEW D, D \subseteq DOMAIN table,
           NEW n \in DOMAIN table, NEW list, IsMerged(list, table, D),
           \A m \in D : ~Before(table[n].event, table[m].event),
           \A j \in DOMAIN list : list[j].key # dedupKey(table[n].event)
    PROVE  IsMerged(MergeInto(list, table[n]), table, D \union {n})
<1> DEFINE k == dedupKey(table[n].event)
           m == marker[table[n].account]
           E == D \union {n}
           last == [key |-> k, title |-> table[n].event.title,
                    start |-> table[n].event.start, markers |-> addMarkers(<<>>, m)]
           new == Append(list, last)
           N == Len(list) + 1
<1>1. MergeInto(list, table[n]) = new
    <2>1. {i \in DOMAIN list : list[i].key = dedupKey(table[n].event)} = {}
        OBVIOUS
    <2> QED BY <2>1, Zenon DEF MergeInto
<1>2. m \in Markers \union {NULL}
    BY RowsTimed DEF MarkersTyped
<1>3. /\ list \in Seq(Entry)
      /\ \A i \in DOMAIN list : HasMarkers(list[i], table, Of(table, D, list[i].key))
      /\ \A i \in DOMAIN list : ShowsFirst(list[i], table, Of(table, D, list[i].key))
      /\ \A i, h \in DOMAIN list : list[i].key = list[h].key => i = h
      /\ \A i, h \in DOMAIN list : i < h => ~Before(list[h], list[i])
      /\ \A l \in D : \E i \in DOMAIN list : list[i].key = dedupKey(table[l].event)
    BY Zenon DEF IsMerged
<1>4. /\ addMarkers(<<>>, m) \in Seq(Markers) /\ IsInjective(addMarkers(<<>>, m))
      /\ Range(addMarkers(<<>>, m)) = {m} \ {NULL}
    <2> DEFINE none == <<>>
    <2>1. none \in Seq(Markers) /\ IsInjective(none) /\ Range(none) = {}
        BY DEF IsInjective, Range
    <2> HIDE DEF m, none
    <2>2. /\ addMarkers(none, m) \in Seq(Markers) /\ IsInjective(addMarkers(none, m))
          /\ Range(addMarkers(none, m)) = Range(none) \union ({m} \ {NULL})
        BY <1>2, <2>1, MarkerAdded
    <2> QED BY <2>1, <2>2 DEF none
<1>5. /\ last \in Entry /\ last.key = k /\ last.title = table[n].event.title
      /\ last.start = table[n].event.start /\ last.markers = addMarkers(<<>>, m)
    <2>1. k \in Keys
        BY RowsTimed DEF Keys
    <2>2. table[n].event.title \in Titles /\ table[n].event.start \in Starts
        BY RowsTimed
    <2> HIDE DEF k
    <2> QED BY <1>4, <2>1, <2>2 DEF Entry
<1> HIDE DEF last
<1>6. /\ new \in Seq(Entry) /\ DOMAIN new = (DOMAIN list) \union {N}
      /\ N \notin DOMAIN list /\ new[N] = last
      /\ \A i \in DOMAIN list : new[i] = list[i] /\ i < N /\ i \in Nat
      /\ N \in Nat
    BY <1>3, <1>5
<1> HIDE DEF new, N
<1>7. \A i, h \in DOMAIN new : new[i].key = new[h].key => i = h
    BY <1>3, <1>5, <1>6
<1>8. Of(table, E, k) = {n}
    <2>1. ASSUME NEW l \in D
          PROVE  dedupKey(table[l].event) # k
        BY <1>3
    <2> HIDE DEF k
    <2> QED BY <2>1 DEF Of, k
<1>9. \A i \in DOMAIN list : Of(table, E, list[i].key) = Of(table, D, list[i].key)
    BY DEF Of
<1>10. \A i \in DOMAIN list : ~Before(last, list[i])
    <2> TAKE i \in DOMAIN list
    <2>1. PICK l \in Of(table, D, list[i].key) :
              list[i].title = table[l].event.title /\ list[i].start = table[l].event.start
        BY <1>3, Zenon DEF ShowsFirst
    <2>2. ~Before(table[n].event, table[l].event)
        BY <2>1 DEF Of
    <2> QED BY <1>5, <2>1, <2>2 DEF Before
<1>11. \A i, h \in DOMAIN new : i < h => ~Before(new[h], new[i])
    BY <1>3, <1>6, <1>10
<1>12. ShowsFirst(last, table, {n})
    <2>1. ~Before(table[n].event, table[n].event)
        BY RowsTimed, BeforeOnce
    <2> QED BY <1>5, <2>1 DEF ShowsFirst
<1>13. HasMarkers(last, table, {n})
    BY <1>4, <1>5 DEF HasMarkers, MarkersOf
<1> HIDE DEF E, k
<1>14. \A i \in DOMAIN new : ShowsFirst(new[i], table, Of(table, E, new[i].key))
    BY <1>3, <1>5, <1>6, <1>8, <1>9, <1>12, Zenon
<1>15. \A i \in DOMAIN new : HasMarkers(new[i], table, Of(table, E, new[i].key))
    BY <1>3, <1>5, <1>6, <1>8, <1>9, <1>13, Zenon
<1>16. \A l \in E : \E i \in DOMAIN new : new[i].key = dedupKey(table[l].event)
    <2> TAKE l \in E
    <2>1. CASE l \in D
        <3>1. PICK i \in DOMAIN list : list[i].key = dedupKey(table[l].event)
            BY <1>3, <2>1
        <3> QED BY <1>6, <3>1, Zenon
    <2>2. CASE l = n
        BY <1>5, <1>6, <2>2, Zenon DEF k
    <2> QED BY <2>1, <2>2 DEF E
<1> QED BY <1>1, <1>6, <1>7, <1>11, <1>14, <1>15, <1>16, Zenon DEF IsMerged, E

LEMMA MergeStep ==
    ASSUME MarkersTyped, NEW table \in Seq(Row), NEW D, D \subseteq DOMAIN table,
           NEW n \in DOMAIN table, NEW list, IsMerged(list, table, D),
           \A m \in D : ~Before(table[n].event, table[m].event)
    PROVE  IsMerged(MergeInto(list, table[n]), table, D \union {n})
BY MergeKnown, MergeNew
LEMMA MergeTyped ==
    ASSUME MarkersTyped, NEW list \in Seq(Entry), NEW row \in Row
    PROVE  MergeInto(list, row) \in Seq(Entry)
<1> DEFINE k == dedupKey(row.event)
           m == marker[row.account]
           known == {i \in DOMAIN list : list[i].key = k}
           changed == [i \in DOMAIN list |->
                          IF i \in known THEN [list[i] EXCEPT !.markers = addMarkers(@, m)]
                                         ELSE list[i]]
           last == [key |-> k, title |-> row.event.title,
                    start |-> row.event.start, markers |-> addMarkers(<<>>, m)]
<1>1. MergeInto(list, row) = IF known # {} THEN changed ELSE Append(list, last)
    BY Zenon DEF MergeInto
<1>2. row.event \in Event /\ m \in Markers \union {NULL}
    BY DEF Row, MarkersTyped
<1>3. ASSUME NEW dst \in Seq(Markers)
      PROVE  addMarkers(dst, m) \in Seq(Markers)
    <2> HIDE DEF m
    <2> QED BY <1>2 DEF addMarkers
<1>4. last \in Entry
    <2>1. k \in Keys /\ row.event.title \in Titles /\ row.event.start \in Starts
        BY <1>2 DEF Keys, Event
    <2>2. addMarkers(<<>>, m) \in Seq(Markers)
        <3> DEFINE none == <<>>
        <3>1. none \in Seq(Markers)
            OBVIOUS
        <3> HIDE DEF none, m
        <3>2. addMarkers(none, m) \in Seq(Markers)
            BY <1>3, <3>1
        <3> QED BY <3>2 DEF none
    <2> HIDE DEF k, m
    <2> QED BY <2>1, <2>2 DEF Entry
<1>5. ASSUME NEW i \in 1..Len(list)
      PROVE  changed[i] \in Entry
    <2>1. list[i] \in Entry
        OBVIOUS
    <2>2. addMarkers(list[i].markers, m) \in Seq(Markers)
        BY <1>3, <2>1 DEF Entry
    <2> DEFINE added == addMarkers(list[i].markers, m)
    <2>3. changed[i] = [list[i] EXCEPT !.markers = added] \/ changed[i] = list[i]
        OBVIOUS
    <2> HIDE DEF added, changed
    <2> QED BY <2>1, <2>2, <2>3 DEF Entry, added
<1>6. changed \in Seq(Entry)
    <2>1. DOMAIN list = 1..Len(list) /\ Len(list) \in Nat
        OBVIOUS
    <2>2. changed = [i \in 1..Len(list) |-> changed[i]]
        BY <2>1, Zenon
    <2> HIDE DEF changed
    <2>3. changed \in [1..Len(list) -> Entry]
        BY <1>5, <2>2
    <2> QED BY <2>1, <2>3, IsSeqOf, Zenon
<1> HIDE DEF changed, last
<1> QED BY <1>1, <1>4, <1>6
-----------------------------------------------------------------------------
(* Merge goes through the sorted rows. *)
MergeRun(out, table, ids) ==
    /\ out \in [0..Cardinality(ids) -> Seq(Entry)] /\ out[0] = <<>>
    /\ \A k \in 1..Cardinality(ids) :
          out[k] = MergeInto(out[k - 1], table[Sorted(table, ids)[k]])

LEMMA MergeRuns ==
    ASSUME MarkersTyped, NEW table \in Seq(Row), NEW ids, ids \subseteq DOMAIN table
    PROVE  \E out : MergeRun(out, table, ids) /\ Merge(table, ids) = out[Cardinality(ids)]
<1> DEFINE N == Cardinality(ids)
           A == Seq(Entry)
           row(k) == table[Sorted(table, ids)[k]]
           step == [k \in 0..(N - 1) |-> [list \in A |-> MergeInto(list, row(k + 1))]]
           Solves(g) == g = [k \in 0..N |-> IF k = 0 THEN <<>> ELSE MergeInto(g[k - 1], row(k))]
<1>1. N \in Nat /\ <<>> \in A
    BY IdsFinite
<1>2. \A k \in 1..N : row(k) \in Row
    <2> TAKE k \in 1..N
    <2>1. Sorted(table, ids)[k] \in ids
        BY SortedOrder
    <2> QED BY <2>1, RowsTimed
<1>3. step \in Steps(A, N)
    <2>1. ASSUME NEW k \in 0..(N - 1), NEW list \in A
          PROVE  MergeInto(list, row(k + 1)) \in A
        <3>1. k + 1 \in 1..N
            BY <1>1
        <3>2. row(k + 1) \in Row
            BY <1>2, <3>1
        <3> HIDE DEF row
        <3> QED BY <3>2, MergeTyped
    <2> HIDE DEF row, A, N
    <2> QED BY <2>1 DEF Steps
<1> HIDE DEF N, A, row
<1>4. ASSUME NEW k \in 1..N, NEW list \in A
      PROVE  step[k - 1][list] = MergeInto(list, row(k))
    <2>1. k - 1 \in 0..(N - 1) /\ (k - 1) + 1 = k
        BY <1>1
    <2>2. step[k - 1] = [o \in A |-> MergeInto(o, row((k - 1) + 1))]
        BY <2>1
    <2> QED BY <2>1, <2>2
<1> HIDE DEF step
<1>5. PICK f : IsRun(f, A, <<>>, N, step)
    BY <1>1, <1>3, Iterates
<1>6. Solves(f)
    <2>1. f \in [0..N -> A] /\ f[0] = <<>> /\ \A k \in 1..N : f[k] = step[k - 1][f[k - 1]]
        BY <1>5 DEF IsRun
    <2>2. ASSUME NEW k \in 0..N, k # 0
          PROVE  f[k] = MergeInto(f[k - 1], row(k))
        <3>1. k \in 1..N /\ k - 1 \in 0..N
            BY <1>1, <2>2
        <3>2. f[k - 1] \in A
            BY <2>1, <3>1
        <3> QED BY <1>4, <2>1, <3>1, <3>2
    <2>3. ASSUME NEW k \in 0..N
          PROVE  f[k] = IF k = 0 THEN <<>> ELSE MergeInto(f[k - 1], row(k))
        BY <2>1, <2>2
    <2> QED BY <2>1, <2>3
<1> DEFINE out == CHOOSE g : Solves(g)
<1>7. Merge(table, ids) = out[N]
    BY Zenon DEF Merge, N, row
<1>8. Solves(out)
    <2> HIDE DEF Solves
    <2> QED BY <1>6
<1> HIDE DEF out
<1>9. out = [k \in 0..N |-> IF k = 0 THEN <<>> ELSE MergeInto(out[k - 1], row(k))]
    BY <1>8, Zenon
<1>10. /\ out = [k \in 0..N |-> out[k]] /\ out[0] = <<>>
       /\ \A k \in 1..N : out[k] = MergeInto(out[k - 1], row(k))
    <2>1. out = [k \in 0..N |-> out[k]]
        BY <1>9
    <2>2. out[0] = <<>>
        BY <1>1, <1>9
    <2>3. ASSUME NEW k \in 1..N
          PROVE  out[k] = MergeInto(out[k - 1], row(k))
        <3>1. k \in 0..N /\ k # 0
            BY <1>1
        <3> QED BY <1>9, <3>1, Zenon
    <2> QED BY <2>1, <2>2, <2>3
<1> HIDE DEF Solves
<1>11. \A k \in 1..N : out[k - 1] \in A => out[k] = step[k - 1][out[k - 1]]
    BY <1>4, <1>10
<1>12. IsRun(out, A, <<>>, N, step)
    BY <1>1, <1>3, <1>10, <1>11, RunFrom
<1>13. MergeRun(out, table, ids)
    BY <1>10, <1>12, Zenon DEF IsRun, MergeRun, N, A, row
<1> QED BY <1>7, <1>13, Zenon DEF N
(* Whatever the rows are, Merge makes the merged list of the chosen ones. *)
LEMMA MergeCorrect ==
    ASSUME MarkersTyped, NEW table \in Seq(Row), NEW ids, ids \subseteq DOMAIN table
    PROVE  IsMerged(Merge(table, ids), table, ids)
<1> DEFINE N == Cardinality(ids)
           s == Sorted(table, ids)
           First(k) == {s[i] : i \in 1..k}
<1>1. N \in Nat
    BY IdsFinite
<1>2. /\ s \in [1..N -> ids]
      /\ \A n \in ids : \E k \in 1..N : s[k] = n
      /\ \A i, j \in 1..N : i < j => ~Before(table[s[j]].event, table[s[i]].event)
    BY SortedOrder, Zenon
<1>3. PICK out : MergeRun(out, table, ids) /\ Merge(table, ids) = out[N]
    BY MergeRuns, Zenon
<1>4. /\ out[0] = <<>>
      /\ \A k \in 1..N : out[k] = MergeInto(out[k - 1], table[s[k]])
    BY <1>3, Zenon DEF MergeRun
<1> HIDE DEF N, s
<1> DEFINE T == {k \in Nat : k <= N => IsMerged(out[k], table, First(k))}
<1>5. ASSUME NEW k \in Nat, \A m \in Nat : m < k => m \in T
      PROVE  k \in T
    <2>1. CASE k = 0
        <3>1. First(0) = {}
            OBVIOUS
        <3> DEFINE none == <<>>
        <3>2. none \in Seq(Entry) /\ DOMAIN none = {}
            OBVIOUS
        <3> HIDE DEF none
        <3>3. IsMerged(none, table, {})
            BY <3>2 DEF IsMerged
        <3>4. out[0] = none
            BY <1>4 DEF none
        <3> HIDE DEF First
        <3> QED BY <2>1, <3>1, <3>3, <3>4
    <2>2. CASE k # 0 /\ k <= N
        <3> DEFINE m == k - 1
        <3>1. m \in Nat /\ m < k /\ m <= N /\ k \in 1..N /\ k = m + 1
            BY <1>1, <2>2
        <3>2. IsMerged(out[m], table, First(m))
            BY <1>5, <3>1
        <3>3. out[k] = MergeInto(out[m], table[s[k]])
            BY <1>4, <3>1
        <3> HIDE DEF m
        <3>4. First(m) \subseteq DOMAIN table /\ s[k] \in DOMAIN table
            BY <1>1, <1>2, <3>1
        <3>5. \A n \in First(m) : ~Before(table[s[k]].event, table[n].event)
            BY <1>1, <1>2, <3>1
        <3>6. First(k) = First(m) \union {s[k]}
            BY <3>1
        <3> HIDE DEF First
        <3>7. IsMerged(MergeInto(out[m], table[s[k]]), table, First(m) \union {s[k]})
            BY <3>2, <3>4, <3>5, MergeStep
        <3> QED BY <3>3, <3>6, <3>7
    <2>3. CASE ~(k <= N)
        BY <2>3
    <2> QED BY <2>1, <2>2, <2>3
<1>6. Nat \subseteq T
    <2> HIDE DEF T
    <2> QED BY <1>5, SetInduction
<1>7. IsMerged(out[N], table, First(N))
    <2> HIDE DEF First
    <2> QED BY <1>1, <1>6
<1>8. First(N) = ids
    BY <1>2
<1> QED BY <1>3, <1>7, <1>8, Zenon
-----------------------------------------------------------------------------
(* The days that the first n entries of a list belong to. *)
Day == [date : Nat, items : Seq(Entry)]

Ordered(list) == \A i, j \in DOMAIN list : i < j => ~Before(list[j], list[i])

ItemsAre(day, list, first, last, n) ==
    /\ first <= last /\ day.items = SubSeq(list, first, last)
    /\ \A i \in 1..n : DateOf(list[i]) = day.date <=> first <= i /\ i <= last

IsGrouped(days, list, n) ==
    /\ days \in Seq(Day)
    /\ n = 0 => days = <<>>
    /\ n > 0 => Len(days) > 0 /\ days[Len(days)].date = DateOf(list[n])
    /\ \A d, e \in DOMAIN days : d < e => days[d].date < days[e].date
    /\ \A i \in 1..n : \E d \in DOMAIN days : days[d].date = DateOf(list[i])
    /\ \A d \in DOMAIN days : \E first, last \in 1..n : ItemsAre(days[d], list, first, last, n)

LEMMA DatesInOrder ==
    ASSUME NEW s \in Nat, NEW t \in Nat, s <= t
    PROVE  s \div DayLength \in Nat /\ s \div DayLength <= t \div DayLength
<1> DEFINE w == DayLength
           a == s \div w
           b == t \div w
<1>1. w \in Nat /\ w > 0
    BY AgendaAssumption
<1> HIDE DEF w
<1>2. a \in Nat /\ b \in Nat /\ s >= a * w /\ t < (b + 1) * w
    <2>1. s = w * a + (s % w) /\ s % w \in 0..(w - 1) /\ a \in Nat
        BY <1>1
    <2>2. t = w * b + (t % w) /\ t % w \in 0..(w - 1) /\ b \in Nat
        BY <1>1
    <2> HIDE DEF a, b
    <2>3. w * a = a * w /\ w * b = b * w /\ (b + 1) * w = b * w + w
        BY <1>1, <2>1, <2>2
    <2>4. a * w \in Nat /\ b * w \in Nat
        BY <1>1, <2>1, <2>2
    <2> QED BY <1>1, <2>1, <2>2, <2>3, <2>4
<1> HIDE DEF a, b
<1>3. a <= b
    <2>1. SUFFICES ASSUME b < a PROVE FALSE
        BY <1>2
    <2> DEFINE c == a - (b + 1)
    <2>2. c \in Nat /\ a = (b + 1) + c
        BY <1>2, <2>1
    <2> HIDE DEF c
    <2>3. c * w >= 0 /\ c * w \in Nat /\ a * w = (b + 1) * w + c * w
        BY <1>1, <1>2, <2>2
    <2>4. (b + 1) * w \in Nat
        BY <1>1, <1>2
    <2> QED BY <1>2, <2>3, <2>4
<1> QED BY <1>2, <1>3 DEF a, b, w

LEMMA EntryDates ==
    ASSUME NEW list \in Seq(Entry), Ordered(list), NEW i \in DOMAIN list, NEW j \in DOMAIN list,
           i <= j
    PROVE  DateOf(list[i]) \in Nat /\ DateOf(list[i]) <= DateOf(list[j])
<1>1. /\ list[i].start \in Nat /\ list[i].title \in Nat
      /\ list[j].start \in Nat /\ list[j].title \in Nat
    <2>1. list[i] \in Entry /\ list[j] \in Entry
        OBVIOUS
    <2> QED BY <2>1, AgendaAssumption DEF Entry
<1>2. list[i].start <= list[j].start
    <2>1. CASE i = j
        BY <1>1, <2>1
    <2>2. CASE i # j
        <3>1. i < j
            BY <2>2
        <3>2. ~Before(list[j], list[i])
            BY <3>1 DEF Ordered
        <3> QED BY <1>1, <3>2 DEF Before
    <2> QED BY <2>1, <2>2
<1> QED BY <1>1, <1>2, DatesInOrder DEF DateOf

LEMMA DaysTyped ==
    ASSUME NEW days \in Seq(Day), NEW entry \in Entry
    PROVE  AddToDays(days, entry) \in Seq(Day)
<1> DEFINE n == Len(days)
           date == entry.start \div DayLength
           items == Append(days[n].items, entry)
<1>1. date \in Nat
    <2>1. entry.start \in Starts
        BY DEF Entry
    <2>2. entry.start \in Nat
        BY <2>1, AgendaAssumption
    <2>3. entry.start <= entry.start
        BY <2>2
    <2> QED BY <2>2, <2>3, DatesInOrder
<1>2. [date |-> date, items |-> <<entry>>] \in Day
    <2> HIDE DEF date
    <2> QED BY <1>1 DEF Day
<1>3. ASSUME n # 0
      PROVE  [days EXCEPT ![n].items = items] \in Seq(Day)
    <2>1. days[n] \in Day /\ n \in 1..n /\ n \in Nat /\ DOMAIN days = 1..n
        BY <1>3
    <2>2. items \in Seq(Entry)
        BY <2>1 DEF Day
    <2> DEFINE day == [days[n] EXCEPT !.items = items]
    <2>3. day \in Day
        <3> HIDE DEF items
        <3> QED BY <2>1, <2>2 DEF Day
    <2> HIDE DEF day
    <2>4. [days EXCEPT ![n] = day] \in Seq(Day)
        <3> HIDE DEF n
        <3> QED BY <2>1, <2>3, SeqChanged
    <2> QED BY <2>4 DEF day
<1>4. AddToDays(days, entry) = IF n = 0 \/ days[n].date # date
                               THEN Append(days, [date |-> date, items |-> <<entry>>])
                               ELSE [days EXCEPT ![n].items = items]
    BY DEF AddToDays
<1> HIDE DEF n, date, items
<1> QED BY <1>2, <1>3, <1>4
LEMMA NewDay ==
    ASSUME NEW list \in Seq(Entry), Ordered(list), NEW n \in Nat, n < Len(list),
           NEW days, IsGrouped(days, list, n),
           n = 0 \/ DateOf(list[n]) # DateOf(list[n + 1]),
           NEW new, new = Append(days, [date |-> DateOf(list[n + 1]),
                                        items |-> <<list[n + 1]>>])
    PROVE  IsGrouped(new, list, n + 1)
<1> DEFINE date == DateOf(list[n + 1])
           day == [date |-> date, items |-> <<list[n + 1]>>]
           N == Len(days) + 1
<1>1. DOMAIN list = 1..Len(list) /\ Len(list) \in Nat /\ n + 1 \in DOMAIN list
    OBVIOUS
<1>2. \A i, j \in DOMAIN list : i <= j =>
          DateOf(list[i]) \in Nat /\ DateOf(list[i]) <= DateOf(list[j])
    BY EntryDates
<1>3. date \in Nat /\ \A i \in 1..n : DateOf(list[i]) \in Nat /\ DateOf(list[i]) < date
    <2>1. date \in Nat
        BY <1>1, <1>2
    <2>2. ASSUME NEW i \in 1..n
          PROVE  DateOf(list[i]) \in Nat /\ DateOf(list[i]) < date
        <3>1. i \in DOMAIN list /\ n \in DOMAIN list /\ i <= n /\ n <= n + 1 /\ n <= n /\ n # 0
            BY <1>1
        <3>2. /\ DateOf(list[i]) \in Nat /\ DateOf(list[i]) <= DateOf(list[n])
              /\ DateOf(list[n]) \in Nat /\ DateOf(list[n]) <= date
            BY <1>1, <1>2, <3>1
        <3>3. DateOf(list[n]) # date
            BY <3>1
        <3> HIDE DEF date
        <3> QED BY <2>1, <3>2, <3>3 DEF date
    <2> QED BY <2>1, <2>2
<1>4. /\ days \in Seq(Day)
      /\ \A d, e \in DOMAIN days : d < e => days[d].date < days[e].date
      /\ \A i \in 1..n : \E d \in DOMAIN days : days[d].date = DateOf(list[i])
      /\ \A d \in DOMAIN days : \E first, last \in 1..n : ItemsAre(days[d], list, first, last, n)
    BY Zenon DEF IsGrouped
<1>5. day \in Day /\ day.date = date /\ day.items = <<list[n + 1]>>
    <2>1. <<list[n + 1]>> \in Seq(Entry)
        BY <1>1
    <2> HIDE DEF date
    <2> QED BY <1>3, <2>1 DEF Day
<1>6. new = Append(days, day)
    OBVIOUS
<1> HIDE DEF day
<1>7. /\ new \in Seq(Day) /\ DOMAIN new = (DOMAIN days) \union {N} /\ Len(new) = N
      /\ N \notin DOMAIN days /\ new[N] = day /\ N \in Nat /\ N > 0
      /\ \A d \in DOMAIN days : new[d] = days[d] /\ d < N /\ d \in Nat
    <2>1. days \in Seq(Day) /\ day \in Day
        BY <1>4, <1>5, Zenon
    <2>2. /\ new \in Seq(Day) /\ Len(new) = N /\ new[N] = day
          /\ DOMAIN new = (DOMAIN days) \union {N}
          /\ \A d \in DOMAIN days : new[d] = days[d]
        BY <1>6, <2>1, SeqAppended
    <2>3. /\ N \in Nat /\ N > 0 /\ N \notin DOMAIN days
          /\ \A d \in DOMAIN days : d < N /\ d \in Nat
        BY <2>1
    <2> QED BY <2>2, <2>3
<1> HIDE DEF N, date
<1>8. \A d \in DOMAIN days : days[d].date \in Nat /\ days[d].date < date
    <2> TAKE d \in DOMAIN days
    <2>1. PICK first, last \in 1..n : ItemsAre(days[d], list, first, last, n)
        BY <1>4
    <2>2. first <= first /\ first <= last
        BY <2>1 DEF ItemsAre
    <2>3. DateOf(list[first]) = days[d].date
        BY <2>1, <2>2 DEF ItemsAre
    <2> QED BY <1>3, <2>3
<1>9. n + 1 # 0 /\ Len(new) > 0 /\ new[Len(new)].date = DateOf(list[n + 1])
    BY <1>5, <1>7 DEF date
<1>10. ASSUME NEW d \in DOMAIN new, NEW e \in DOMAIN new, d < e
       PROVE  new[d].date < new[e].date
    <2>1. d \in DOMAIN days
        <3>1. e \in DOMAIN days => e < N /\ e \in Nat
            BY <1>7
        <3>2. d = N => ~(d < e)
            BY <1>7, <3>1
        <3> QED BY <1>7, <1>10, <3>2
    <2>2. CASE e \in DOMAIN days
        BY <1>4, <1>7, <1>10, <2>1, <2>2, Zenon
    <2>3. CASE e = N
        BY <1>5, <1>7, <1>8, <2>1, <2>3
    <2> QED BY <1>7, <2>2, <2>3
<1>11. \A i \in 1..(n + 1) : \E d \in DOMAIN new : new[d].date = DateOf(list[i])
    <2> TAKE i \in 1..(n + 1)
    <2>1. CASE i \in 1..n
        <3>1. PICK d \in DOMAIN days : days[d].date = DateOf(list[i])
            BY <1>4, <2>1
        <3> QED BY <1>7, <3>1, Zenon
    <2>2. CASE i = n + 1
        BY <1>5, <1>7, <2>2, Zenon DEF date
    <2> QED BY <2>1, <2>2
<1>12. ASSUME NEW d \in DOMAIN days
       PROVE  \E first, last \in 1..(n + 1) : ItemsAre(days[d], list, first, last, n + 1)
    <2>1. PICK first, last \in 1..n : ItemsAre(days[d], list, first, last, n)
        BY <1>4
    <2>2. first \in 1..(n + 1) /\ last \in 1..(n + 1) /\ ~(n + 1 <= last)
        OBVIOUS
    <2>3. DateOf(list[n + 1]) # days[d].date
        BY <1>3, <1>8 DEF date
    <2>4. \A i \in 1..(n + 1) : i \in 1..n \/ i = n + 1
        OBVIOUS
    <2>5. ItemsAre(days[d], list, first, last, n + 1)
        BY <2>1, <2>2, <2>3, <2>4, Zenon DEF ItemsAre
    <2> QED BY <2>2, <2>5
<1>13. ItemsAre(day, list, n + 1, n + 1, n + 1)
    <2>1. SubSeq(list, n + 1, n + 1) = <<list[n + 1]>>
        BY <1>1, SliceOne
    <2>2. \A i \in 1..(n + 1) : DateOf(list[i]) = date <=> n + 1 <= i /\ i <= n + 1
        <3>1. DateOf(list[n + 1]) = date
            BY DEF date
        <3> QED BY <1>3, <3>1
    <2> QED BY <1>5, <2>1, <2>2 DEF ItemsAre
<1>14. \A d \in DOMAIN new : \E first, last \in 1..(n + 1) :
           ItemsAre(new[d], list, first, last, n + 1)
    <2>1. n + 1 \in 1..(n + 1)
        OBVIOUS
    <2> QED BY <1>7, <1>12, <1>13, <2>1, Zenon
<1> QED BY <1>7, <1>9, <1>10, <1>11, <1>14, Zenon DEF IsGrouped
LEMMA SameDay ==
    ASSUME NEW list \in Seq(Entry), NEW n \in Nat \ {0}, n < Len(list),
           NEW days, IsGrouped(days, list, n),
           DateOf(list[n]) = DateOf(list[n + 1]),
           NEW new, new = [days EXCEPT ![Len(days)].items = Append(@, list[n + 1])]
    PROVE  IsGrouped(new, list, n + 1)
<1> DEFINE date == DateOf(list[n + 1])
           N == Len(days)
           day == [days[N] EXCEPT !.items = Append(days[N].items, list[n + 1])]
<1>1. DOMAIN list = 1..Len(list) /\ Len(list) \in Nat /\ n + 1 \in DOMAIN list
    OBVIOUS
<1>2. /\ days \in Seq(Day)
      /\ n > 0 => Len(days) > 0 /\ days[Len(days)].date = DateOf(list[n])
      /\ \A d, e \in DOMAIN days : d < e => days[d].date < days[e].date
      /\ \A i \in 1..n : \E d \in DOMAIN days : days[d].date = DateOf(list[i])
      /\ \A d \in DOMAIN days : \E first, last \in 1..n : ItemsAre(days[d], list, first, last, n)
    BY Zenon DEF IsGrouped
<1>3. /\ DOMAIN days = 1..N /\ N \in DOMAIN days /\ days[N] \in Day /\ days[N].date = date
      /\ N \in Nat
    BY <1>2
<1>4. day \in Day /\ day.date = date /\ day.items = Append(days[N].items, list[n + 1])
    <2> DEFINE items == Append(days[N].items, list[n + 1])
    <2>1. items \in Seq(Entry)
        BY <1>1, <1>3 DEF Day
    <2> DEFINE old == days[N]
    <2>2. old \in [date : Nat, items : Seq(Entry)] /\ old.date = date
        BY <1>3 DEF Day
    <2>3. day = [old EXCEPT !.items = items]
        OBVIOUS
    <2> HIDE DEF items, old, day
    <2>4. day \in Day /\ day.date = old.date /\ day.items = items
        BY <2>1, <2>2, <2>3 DEF Day
    <2> QED BY <2>2, <2>4, Zenon DEF items
<1>5. new = [days EXCEPT ![N] = day]
    OBVIOUS
<1> HIDE DEF N, date, day
<1>6. /\ new \in Seq(Day) /\ Len(new) = N /\ DOMAIN new = DOMAIN days
      /\ new[N] = day /\ \A d \in DOMAIN days : d # N => new[d] = days[d]
    <2>1. new[N] = day /\ \A d \in DOMAIN days : d # N => new[d] = days[d]
        BY <1>3, <1>5
    <2>2. new \in Seq(Day) /\ Len(new) = Len(days) /\ DOMAIN new = DOMAIN days
        <3>1. days \in Seq(Day) /\ N \in DOMAIN days /\ day \in Day
            BY <1>2, <1>3, <1>4
        <3> DEFINE c == [days EXCEPT ![N] = day]
        <3>2. c \in Seq(Day) /\ Len(c) = Len(days) /\ DOMAIN c = DOMAIN days
            BY <3>1, SeqChanged, Zenon
        <3> HIDE DEF c
        <3>3. new = c
            BY <1>5 DEF c
        <3> QED BY <3>2, <3>3, Zenon
    <2> QED BY <2>1, <2>2, Zenon DEF N
<1>7. \A d \in DOMAIN days : new[d].date = days[d].date
    BY <1>3, <1>4, <1>6
<1>8. \A i \in 1..(n + 1) : i \in 1..n \/ i = n + 1
    OBVIOUS
<1>9. n + 1 # 0 /\ N > 0 /\ new[N].date = DateOf(list[n + 1])
    BY <1>3, <1>4, <1>6 DEF date
<1>10. \A d, e \in DOMAIN new : d < e => new[d].date < new[e].date
    BY <1>2, <1>6, <1>7, Zenon
<1>11. \A i \in 1..(n + 1) : \E d \in DOMAIN new : new[d].date = DateOf(list[i])
    BY <1>2, <1>3, <1>6, <1>7, <1>8, Zenon DEF date
<1>12. ASSUME NEW d \in DOMAIN days, d # N
       PROVE  \E first, last \in 1..(n + 1) : ItemsAre(new[d], list, first, last, n + 1)
    <2>1. PICK first, last \in 1..n : ItemsAre(days[d], list, first, last, n)
        BY <1>2
    <2>2. first \in 1..(n + 1) /\ last \in 1..(n + 1) /\ ~(n + 1 <= last)
        OBVIOUS
    <2>3. d < N
        BY <1>3, <1>12
    <2>4. days[d].date < date
        BY <1>2, <1>3, <2>3, Zenon
    <2>5. days[d].date # date
        <3>1. days[d] \in Day
            BY <1>2
        <3>2. days[d].date \in Nat
            BY <3>1 DEF Day
        <3> QED BY <2>4, <3>2
    <2>6. ItemsAre(days[d], list, first, last, n + 1)
        BY <1>8, <2>1, <2>2, <2>5, Zenon DEF ItemsAre, date
    <2> QED BY <1>6, <1>12, <2>2, <2>6, Zenon
<1>13. \E first, last \in 1..(n + 1) : ItemsAre(day, list, first, last, n + 1)
    <2>1. PICK first, last \in 1..n : ItemsAre(days[N], list, first, last, n)
        BY <1>2, <1>3
    <2>2. DateOf(list[n]) = days[N].date /\ n \in 1..n
        BY <1>3 DEF date
    <2>3. first <= n /\ n <= last /\ first \in Nat
        BY <2>1, <2>2 DEF ItemsAre
    <2>4. last = n
        BY <2>3
    <2>5. SubSeq(list, first, n + 1) = Append(SubSeq(list, first, n), list[n + 1])
        <3>1. first \in 1..Len(list) /\ n \in first..Len(list)
            BY <1>1, <2>3
        <3> QED BY <3>1, SliceMore
    <2>6. day.items = SubSeq(list, first, n + 1)
        BY <1>4, <2>1, <2>4, <2>5, Zenon DEF ItemsAre
    <2>7. \A i \in 1..(n + 1) : DateOf(list[i]) = date <=> first <= i /\ i <= n + 1
        <3> TAKE i \in 1..(n + 1)
        <3>1. CASE i \in 1..n
            <4>1. DateOf(list[i]) = days[N].date <=> first <= i /\ i <= n
                BY <2>1, <2>4, <3>1, Zenon DEF ItemsAre
            <4> QED BY <1>3, <3>1, <4>1
        <3>2. CASE i = n + 1
            BY <2>3, <3>2 DEF date
        <3> QED BY <1>8, <3>1, <3>2
    <2>8. ItemsAre(day, list, first, n + 1, n + 1)
        BY <1>4, <2>3, <2>6, <2>7 DEF ItemsAre
    <2>9. first \in 1..(n + 1) /\ n + 1 \in 1..(n + 1)
        BY <2>3
    <2> QED BY <2>8, <2>9
<1>14. \A d \in DOMAIN new : \E first, last \in 1..(n + 1) :
           ItemsAre(new[d], list, first, last, n + 1)
    BY <1>6, <1>12, <1>13, Zenon
<1> QED BY <1>6, <1>9, <1>10, <1>11, <1>14, Zenon DEF IsGrouped

LEMMA GroupStep ==
    ASSUME NEW list \in Seq(Entry), Ordered(list), NEW n \in Nat, n < Len(list),
           NEW days, IsGrouped(days, list, n)
    PROVE  IsGrouped(AddToDays(days, list[n + 1]), list, n + 1)
<1> DEFINE N == Len(days)
           date == DateOf(list[n + 1])
           added == Append(days, [date |-> date, items |-> <<list[n + 1]>>])
           changed == [days EXCEPT ![N].items = Append(@, list[n + 1])]
<1>1. AddToDays(days, list[n + 1]) =
          IF N = 0 \/ days[N].date # date THEN added ELSE changed
    BY DEF AddToDays, DateOf
<1>2. /\ days \in Seq(Day) /\ N \in Nat
      /\ n = 0 => N = 0
      /\ n # 0 => N # 0 /\ days[N].date = DateOf(list[n])
    BY DEF IsGrouped
<1>3. CASE n = 0 \/ DateOf(list[n]) # date
    <2>1. AddToDays(days, list[n + 1]) = added
        BY <1>1, <1>2, <1>3, Zenon
    <2>2. IsGrouped(added, list, n + 1)
        <3> DEFINE new == added
        <3>1. new = Append(days, [date |-> DateOf(list[n + 1]), items |-> <<list[n + 1]>>])
            OBVIOUS
        <3> HIDE DEF new
        <3>2. n = 0 \/ DateOf(list[n]) # DateOf(list[n + 1])
            BY <1>3
        <3>3. IsGrouped(new, list, n + 1)
            BY <3>1, <3>2, NewDay
        <3> QED BY <3>3 DEF new
    <2> QED BY <2>1, <2>2, Zenon
<1>4. CASE n # 0 /\ DateOf(list[n]) = date
    <2>1. AddToDays(days, list[n + 1]) = changed
        BY <1>1, <1>2, <1>4, Zenon
    <2>2. IsGrouped(changed, list, n + 1)
        <3> DEFINE new == changed
        <3>1. new = [days EXCEPT ![Len(days)].items = Append(@, list[n + 1])]
            OBVIOUS
        <3> HIDE DEF new
        <3>2. n \in Nat \ {0} /\ DateOf(list[n]) = DateOf(list[n + 1])
            BY <1>4
        <3>3. IsGrouped(new, list, n + 1)
            BY <3>1, <3>2, SameDay
        <3> QED BY <3>3 DEF new
    <2> QED BY <2>1, <2>2, Zenon
<1> QED BY <1>3, <1>4, Zenon
(* groupByDay goes through the list. *)
LEMMA GroupRuns ==
    ASSUME NEW list \in Seq(Entry)
    PROVE  \E days : /\ days[0] = <<>>
                     /\ \A n \in 1..Len(list) : days[n] = AddToDays(days[n - 1], list[n])
                     /\ groupByDay(list) = days[Len(list)]
<1> DEFINE N == Len(list)
           A == Seq(Day)
           step == [n \in 0..(N - 1) |-> [days \in A |-> AddToDays(days, list[n + 1])]]
           Solves(g) == g = [n \in 0..N |-> IF n = 0 THEN <<>> ELSE AddToDays(g[n - 1], list[n])]
<1>1. N \in Nat /\ <<>> \in A /\ \A n \in 1..N : list[n] \in Entry
    OBVIOUS
<1>2. step \in Steps(A, N)
    <2>1. ASSUME NEW n \in 0..(N - 1), NEW days \in A
          PROVE  AddToDays(days, list[n + 1]) \in A
        <3>1. list[n + 1] \in Entry
            BY <1>1
        <3> QED BY <3>1, DaysTyped
    <2> HIDE DEF A, N
    <2> QED BY <2>1 DEF Steps
<1> HIDE DEF N, A
<1>3. ASSUME NEW n \in 1..N, NEW days \in A
      PROVE  step[n - 1][days] = AddToDays(days, list[n])
    <2>1. n - 1 \in 0..(N - 1) /\ (n - 1) + 1 = n
        BY <1>1
    <2>2. step[n - 1] = [o \in A |-> AddToDays(o, list[(n - 1) + 1])]
        BY <2>1
    <2> QED BY <2>1, <2>2
<1> HIDE DEF step
<1>4. PICK f : IsRun(f, A, <<>>, N, step)
    BY <1>1, <1>2, Iterates
<1>5. Solves(f)
    <2>1. f \in [0..N -> A] /\ f[0] = <<>> /\ \A n \in 1..N : f[n] = step[n - 1][f[n - 1]]
        BY <1>4 DEF IsRun
    <2>2. ASSUME NEW n \in 0..N, n # 0
          PROVE  f[n] = AddToDays(f[n - 1], list[n])
        <3>1. n \in 1..N /\ n - 1 \in 0..N
            BY <1>1, <2>2
        <3>2. f[n - 1] \in A
            BY <2>1, <3>1
        <3> QED BY <1>3, <2>1, <3>1, <3>2
    <2>3. ASSUME NEW n \in 0..N
          PROVE  f[n] = IF n = 0 THEN <<>> ELSE AddToDays(f[n - 1], list[n])
        BY <2>1, <2>2
    <2> QED BY <2>1, <2>3
<1> DEFINE days == CHOOSE g : Solves(g)
<1>6. groupByDay(list) = days[N]
    BY Zenon DEF groupByDay, N
<1>7. Solves(days)
    <2> HIDE DEF Solves
    <2> QED BY <1>5
<1> HIDE DEF days
<1>8. days = [n \in 0..N |-> IF n = 0 THEN <<>> ELSE AddToDays(days[n - 1], list[n])]
    BY <1>7, Zenon
<1>9. days[0] = <<>> /\ \A n \in 1..N : days[n] = AddToDays(days[n - 1], list[n])
    BY <1>1, <1>8
<1> QED BY <1>6, <1>9, Zenon DEF N

(* Whatever the list is, groupByDay makes its days. *)
LEMMA GroupCorrect ==
    ASSUME NEW list \in Seq(Entry), Ordered(list)
    PROVE  IsGrouped(groupByDay(list), list, Len(list))
<1> DEFINE N == Len(list)
<1>1. N \in Nat
    OBVIOUS
<1>2. PICK days : /\ days[0] = <<>>
                  /\ \A n \in 1..N : days[n] = AddToDays(days[n - 1], list[n])
                  /\ groupByDay(list) = days[N]
    BY GroupRuns
<1> DEFINE T == {n \in Nat : n <= N => IsGrouped(days[n], list, n)}
<1>3. ASSUME NEW n \in Nat, \A m \in Nat : m < n => m \in T
      PROVE  n \in T
    <2>1. CASE n = 0
        <3> DEFINE none == <<>>
        <3>1. none \in Seq(Day) /\ DOMAIN none = {} /\ 1..0 = {}
            OBVIOUS
        <3>2. none = <<>>
            OBVIOUS
        <3> HIDE DEF none
        <3>3. IsGrouped(none, list, 0)
            BY <3>1, <3>2 DEF IsGrouped
        <3> QED BY <1>2, <2>1, <3>3 DEF none
    <2>2. CASE n # 0 /\ n <= N
        <3> DEFINE m == n - 1
        <3>1. m \in Nat /\ m < n /\ m <= N /\ m < N /\ n \in 1..N /\ n = m + 1
            BY <1>1, <2>2
        <3>2. IsGrouped(days[m], list, m)
            BY <1>3, <3>1
        <3>3. days[n] = AddToDays(days[m], list[n])
            BY <1>2, <3>1
        <3> HIDE DEF m
        <3>4. IsGrouped(AddToDays(days[m], list[m + 1]), list, m + 1)
            BY <3>1, <3>2, GroupStep
        <3> QED BY <3>1, <3>3, <3>4
    <2>3. CASE ~(n <= N)
        BY <2>3
    <2> QED BY <2>1, <2>2, <2>3
<1>4. Nat \subseteq T
    <2> HIDE DEF T
    <2> QED BY <1>3, SetInduction
<1>5. IsGrouped(days[N], list, N)
    <2> HIDE DEF N
    <2> QED BY <1>1, <1>4
<1> QED BY <1>2, <1>5
-----------------------------------------------------------------------------
(* A sync replaces the rows of one account. *)
Others(table, a) == {r \in Range(table) : r.account # a}

LEMMA WithoutRuns ==
    ASSUME rows \in Seq(Row), NEW a
    PROVE  \E kept : /\ kept[0] = <<>>
                     /\ \A n \in 1..Len(rows) :
                           kept[n] = IF rows[n].account = a THEN kept[n - 1]
                                     ELSE Append(kept[n - 1], rows[n])
                     /\ Without(a) = kept[Len(rows)]
<1> DEFINE N == Len(rows)
           A == Seq(Row)
           Keep(list, n) == IF rows[n].account = a THEN list ELSE Append(list, rows[n])
           step == [n \in 0..(N - 1) |-> [list \in A |-> Keep(list, n + 1)]]
           Solves(g) == g = [n \in 0..N |-> IF n = 0 THEN <<>> ELSE Keep(g[n - 1], n)]
<1>1. N \in Nat /\ <<>> \in A /\ \A n \in 1..N : rows[n] \in Row
    OBVIOUS
<1>2. step \in Steps(A, N)
    <2>1. ASSUME NEW n \in 0..(N - 1), NEW list \in A
          PROVE  Keep(list, n + 1) \in A
        <3>1. rows[n + 1] \in Row
            BY <1>1
        <3> QED BY <3>1
    <2> HIDE DEF A, N, Keep
    <2> QED BY <2>1 DEF Steps
<1> HIDE DEF N, A, Keep
<1>3. ASSUME NEW n \in 1..N, NEW list \in A
      PROVE  step[n - 1][list] = Keep(list, n)
    <2>1. n - 1 \in 0..(N - 1) /\ (n - 1) + 1 = n
        BY <1>1
    <2>2. step[n - 1] = [o \in A |-> Keep(o, (n - 1) + 1)]
        BY <2>1
    <2> QED BY <2>1, <2>2
<1> HIDE DEF step
<1>4. PICK f : IsRun(f, A, <<>>, N, step)
    BY <1>1, <1>2, Iterates
<1>5. Solves(f)
    <2>1. f \in [0..N -> A] /\ f[0] = <<>> /\ \A n \in 1..N : f[n] = step[n - 1][f[n - 1]]
        BY <1>4 DEF IsRun
    <2>2. ASSUME NEW n \in 0..N, n # 0
          PROVE  f[n] = Keep(f[n - 1], n)
        <3>1. n \in 1..N /\ n - 1 \in 0..N
            BY <1>1, <2>2
        <3>2. f[n - 1] \in A
            BY <2>1, <3>1
        <3> QED BY <1>3, <2>1, <3>1, <3>2
    <2>3. ASSUME NEW n \in 0..N
          PROVE  f[n] = IF n = 0 THEN <<>> ELSE Keep(f[n - 1], n)
        BY <2>1, <2>2
    <2> QED BY <2>1, <2>3
<1> DEFINE kept == CHOOSE g : Solves(g)
<1>6. Without(a) = kept[N]
    BY Zenon DEF Without, N, Keep
<1>7. Solves(kept)
    <2> HIDE DEF Solves
    <2> QED BY <1>5
<1> HIDE DEF kept
<1>8. kept = [n \in 0..N |-> IF n = 0 THEN <<>> ELSE Keep(kept[n - 1], n)]
    BY <1>7, Zenon
<1>9. kept[0] = <<>> /\ \A n \in 1..N : kept[n] = Keep(kept[n - 1], n)
    BY <1>1, <1>8
<1> QED BY <1>6, <1>9, Zenon DEF N, Keep

LEMMA WithoutCorrect ==
    ASSUME rows \in Seq(Row), NEW a
    PROVE  Without(a) \in Seq(Row) /\ Range(Without(a)) = Others(rows, a)
<1> DEFINE N == Len(rows)
           Kept(n) == {r \in {rows[i] : i \in 1..n} : r.account # a}
<1>1. N \in Nat /\ DOMAIN rows = 1..N /\ \A n \in 1..N : rows[n] \in Row
    OBVIOUS
<1>2. PICK kept : /\ kept[0] = <<>>
                  /\ \A n \in 1..N : kept[n] = IF rows[n].account = a THEN kept[n - 1]
                                               ELSE Append(kept[n - 1], rows[n])
                  /\ Without(a) = kept[N]
    BY WithoutRuns
<1> HIDE DEF N
<1> DEFINE T == {n \in Nat : n <= N => kept[n] \in Seq(Row) /\ Range(kept[n]) = Kept(n)}
<1>3. ASSUME NEW n \in Nat, \A m \in Nat : m < n => m \in T
      PROVE  n \in T
    <2>1. CASE n = 0
        <3>1. <<>> \in Seq(Row) /\ Range(<<>>) = {} /\ Kept(0) = {}
            BY DEF Range
        <3> QED BY <1>2, <2>1, <3>1
    <2>2. CASE n # 0 /\ n <= N
        <3> DEFINE m == n - 1
                   list == kept[m]
        <3>1. m \in Nat /\ m < n /\ m <= N /\ n \in 1..N /\ n = m + 1
            BY <1>1, <2>2
        <3>2. list \in Seq(Row) /\ Range(list) = Kept(m)
            BY <1>3, <3>1
        <3>3. kept[n] = IF rows[n].account = a THEN list ELSE Append(list, rows[n])
            BY <1>2, <3>1
        <3>4. Kept(n) = IF rows[n].account = a THEN Kept(m) ELSE Kept(m) \union {rows[n]}
            <4>1. 1..n = (1..m) \union {n}
                BY <3>1
            <4> QED BY <4>1
        <3>5. rows[n] \in Row
            BY <1>1, <3>1
        <3> HIDE DEF m, list, Kept
        <3>6. Append(list, rows[n]) \in Seq(Row)
              /\ Range(Append(list, rows[n])) = Range(list) \union {rows[n]}
            BY <3>2, <3>5, RangeAppended
        <3> QED BY <3>2, <3>3, <3>4, <3>6
    <2>3. CASE ~(n <= N)
        BY <2>3
    <2> QED BY <2>1, <2>2, <2>3
<1>4. Nat \subseteq T
    <2> HIDE DEF T
    <2> QED BY <1>3, SetInduction
<1>5. kept[N] \in Seq(Row) /\ Range(kept[N]) = Kept(N)
    <2> HIDE DEF Kept
    <2> QED BY <1>1, <1>4
<1>6. Kept(N) = Others(rows, a)
    BY <1>1 DEF Others, Range
<1> QED BY <1>2, <1>5, <1>6
LEMMA InsertCorrect ==
    ASSUME NEW table \in Seq(Row), NEW a, NEW row \in Row, row.account = a
    PROVE  /\ InsertOrIgnore(table, row) \in Seq(Row)
           /\ Others(InsertOrIgnore(table, row), a) = Others(table, a)
<1>1. Append(table, row) \in Seq(Row) /\ Range(Append(table, row)) = Range(table) \union {row}
    BY RangeAppended
<1>2. InsertOrIgnore(table, row) = table \/ InsertOrIgnore(table, row) = Append(table, row)
    BY DEF InsertOrIgnore
<1> QED BY <1>1, <1>2 DEF Others

CalendarTyped == calendar \in [Accounts -> Seq(Event)]

LEMMA ReplaceRuns ==
    ASSUME rows \in Seq(Row), CalendarTyped, NEW a \in Accounts, ReplaceCalendarEvents(a)
    PROVE  \E table : /\ table[0] = Without(a)
                      /\ \A n \in 1..Len(calendar[a]) :
                            table[n] = InsertOrIgnore(table[n - 1],
                                           [account |-> a, event |-> calendar[a][n]])
                      /\ rows' = table[Len(calendar[a])]
<1> DEFINE N == Len(calendar[a])
           A == Seq(Row)
           row(n) == [account |-> a, event |-> calendar[a][n]]
           step == [n \in 0..(N - 1) |-> [list \in A |-> InsertOrIgnore(list, row(n + 1))]]
           Solves(g) == g = [i \in 0..N |-> IF i = 0 THEN Without(a)
                                            ELSE InsertOrIgnore(g[i - 1], row(i))]
<1>1. N \in Nat /\ Without(a) \in A /\ \A n \in 1..N : row(n) \in Row /\ row(n).account = a
    <2>1. calendar[a] \in Seq(Event)
        BY DEF CalendarTyped
    <2>2. N \in Nat /\ \A n \in 1..N : calendar[a][n] \in Event
        BY <2>1
    <2> QED BY <2>2, WithoutCorrect DEF Row
<1>2. step \in Steps(A, N)
    <2>1. ASSUME NEW n \in 0..(N - 1), NEW list \in A
          PROVE  InsertOrIgnore(list, row(n + 1)) \in A
        <3>1. row(n + 1) \in Row /\ row(n + 1).account = a
            BY <1>1
        <3> HIDE DEF row
        <3> QED BY <3>1, InsertCorrect
    <2> HIDE DEF A, N, row
    <2> QED BY <2>1 DEF Steps
<1> HIDE DEF N, A, row
<1>3. ASSUME NEW n \in 1..N, NEW list \in A
      PROVE  step[n - 1][list] = InsertOrIgnore(list, row(n))
    <2>1. n - 1 \in 0..(N - 1) /\ (n - 1) + 1 = n
        BY <1>1
    <2>2. step[n - 1] = [o \in A |-> InsertOrIgnore(o, row((n - 1) + 1))]
        BY <2>1
    <2> QED BY <2>1, <2>2
<1> HIDE DEF step
<1>4. PICK f : IsRun(f, A, Without(a), N, step)
    BY <1>1, <1>2, Iterates
<1>5. Solves(f)
    <2>1. /\ f \in [0..N -> A] /\ f[0] = Without(a)
          /\ \A n \in 1..N : f[n] = step[n - 1][f[n - 1]]
        BY <1>4 DEF IsRun
    <2>2. ASSUME NEW n \in 0..N, n # 0
          PROVE  f[n] = InsertOrIgnore(f[n - 1], row(n))
        <3>1. n \in 1..N /\ n - 1 \in 0..N
            BY <1>1, <2>2
        <3>2. f[n - 1] \in A
            BY <2>1, <3>1
        <3> QED BY <1>3, <2>1, <3>1, <3>2
    <2>3. ASSUME NEW n \in 0..N
          PROVE  f[n] = IF n = 0 THEN Without(a) ELSE InsertOrIgnore(f[n - 1], row(n))
        BY <2>1, <2>2
    <2> QED BY <2>1, <2>3
<1> DEFINE table == CHOOSE g : Solves(g)
<1>6. rows' = table[N]
    BY Zenon DEF ReplaceCalendarEvents, N, row
<1>7. Solves(table)
    <2> HIDE DEF Solves
    <2> QED BY <1>5
<1> HIDE DEF table
<1>8. table = [i \in 0..N |-> IF i = 0 THEN Without(a) ELSE InsertOrIgnore(table[i - 1], row(i))]
    BY <1>7, Zenon
<1>9. /\ table[0] = Without(a)
      /\ \A n \in 1..N : table[n] = InsertOrIgnore(table[n - 1], row(n))
    BY <1>1, <1>8
<1> QED BY <1>6, <1>9, Zenon DEF N, row

(* The rows of the other accounts stay. *)
LEMMA ReplaceCorrect ==
    ASSUME rows \in Seq(Row), CalendarTyped, NEW a \in Accounts, ReplaceCalendarEvents(a)
    PROVE  rows' \in Seq(Row) /\ Others(rows', a) = Others(rows, a)
<1> DEFINE N == Len(calendar[a])
           row(n) == [account |-> a, event |-> calendar[a][n]]
<1>1. N \in Nat /\ \A n \in 1..N : row(n) \in Row /\ row(n).account = a
    <2>1. calendar[a] \in Seq(Event)
        BY DEF CalendarTyped
    <2>2. N \in Nat /\ \A n \in 1..N : calendar[a][n] \in Event
        BY <2>1
    <2> QED BY <2>2 DEF Row
<1>2. PICK table : /\ table[0] = Without(a)
                   /\ \A n \in 1..N : table[n] = InsertOrIgnore(table[n - 1], row(n))
                   /\ rows' = table[N]
    BY ReplaceRuns
<1> HIDE DEF N, row
<1> DEFINE T == {n \in Nat : n <= N =>
                     table[n] \in Seq(Row) /\ Others(table[n], a) = Others(rows, a)}
<1>3. ASSUME NEW n \in Nat, \A m \in Nat : m < n => m \in T
      PROVE  n \in T
    <2>1. CASE n = 0
        <3>1. Without(a) \in Seq(Row) /\ Others(Without(a), a) = Others(rows, a)
            BY WithoutCorrect DEF Others
        <3> QED BY <1>2, <2>1, <3>1
    <2>2. CASE n # 0 /\ n <= N
        <3> DEFINE m == n - 1
        <3>1. m \in Nat /\ m < n /\ m <= N /\ n \in 1..N
            BY <1>1, <2>2
        <3>2. table[m] \in Seq(Row) /\ Others(table[m], a) = Others(rows, a)
            BY <1>3, <3>1
        <3>3. table[n] = InsertOrIgnore(table[m], row(n))
            BY <1>2, <3>1
        <3>4. row(n) \in Row /\ row(n).account = a
            BY <1>1, <3>1
        <3> HIDE DEF m
        <3> QED BY <3>2, <3>3, <3>4, InsertCorrect
    <2>3. CASE ~(n <= N)
        BY <2>3
    <2> QED BY <2>1, <2>2, <2>3
<1>4. Nat \subseteq T
    <2> HIDE DEF T
    <2> QED BY <1>3, SetInduction
<1>5. table[N] \in Seq(Row) /\ Others(table[N], a) = Others(rows, a)
    BY <1>1, <1>4
<1> QED BY <1>2, <1>5, Zenon
-----------------------------------------------------------------------------
(* The cap keeps the first entries of the merged list. *)
IsCapped(list, all, limit) ==
    /\ list \in Seq(Entry) /\ Len(list) <= Len(all)
    /\ \A i \in DOMAIN list : list[i] = all[i]
    /\ Len(list) # Len(all) => limit > 0 /\ Len(list) = limit
    /\ limit = 0 => list = all
    /\ limit > 0 => Len(list) <= limit

LEMMA AgendaCapped ==
    ASSUME NEW table, NEW accountIDs, NEW from, NEW to, NEW limit \in Nat, NEW all \in Seq(Entry),
           all = Merge(table, Listed(table, accountIDs, from, to))
    PROVE  IsCapped(Agenda(table, accountIDs, from, to, limit), all, limit)
<1> DEFINE list == Agenda(table, accountIDs, from, to, limit)
<1>1. list = IF limit > 0 /\ Len(all) > limit THEN SubSeq(all, 1, limit) ELSE all
    BY Zenon DEF Agenda
<1> HIDE DEF list
<1>2. ASSUME limit > 0 /\ Len(all) > limit
      PROVE  IsCapped(list, all, limit)
    <2>1. list = SubSeq(all, 1, limit) /\ limit \in Int /\ 1 \in Int /\ 1 <= limit
        BY <1>1, <1>2
    <2>2. \A i \in 1..limit : all[i] \in Entry
        BY <1>2
    <2>3. /\ SubSeq(all, 1, limit) \in Seq(Entry)
          /\ Len(SubSeq(all, 1, limit)) = IF 1 <= limit THEN limit - 1 + 1 ELSE 0
          /\ \A i \in 1..(limit - 1 + 1) : SubSeq(all, 1, limit)[i] = all[1 + i - 1]
        BY <2>1, <2>2, SubSeqProperties
    <2>4. limit - 1 + 1 = limit /\ \A i \in 1..limit : 1 + i - 1 = i
        OBVIOUS
    <2>5. list \in Seq(Entry) /\ Len(list) = limit /\ \A i \in 1..limit : list[i] = all[i]
        BY <2>1, <2>3, <2>4
    <2>6. DOMAIN list = 1..limit
        BY <2>5
    <2> QED BY <1>2, <2>5, <2>6 DEF IsCapped
<1>3. ASSUME ~(limit > 0 /\ Len(all) > limit)
      PROVE  IsCapped(list, all, limit)
    <2>1. list = all
        BY <1>1, <1>3
    <2>2. Len(all) \in Nat /\ (limit > 0 => Len(all) <= limit)
        BY <1>3
    <2> QED BY <2>1, <2>2 DEF IsCapped
<1> QED BY <1>2, <1>3 DEF list

LEMMA ListedRows ==
    ASSUME NEW table \in Seq(Row), NEW accountIDs, NEW from, NEW to
    PROVE  Listed(table, accountIDs, from, to) \subseteq DOMAIN table
BY DEF Listed

(* What every state has: typed tables, so that Merge and groupByDay make   *)
(* what the lemmas above say.                                              *)
AgendaInv == rows \in Seq(Row) /\ CalendarTyped /\ MarkersTyped

LEMMA AgendaInvInit == Init => AgendaInv
<1>1. AgendaIdle => AgendaInv
    BY DEF AgendaIdle, AgendaInv, CalendarTyped, MarkersTyped
<1>2. ASSUME NEW c \in Calendars, calendar = c.calendar, marker = c.marker, rows = <<>>
      PROVE  AgendaInv
    BY <1>2, CalendarsAssumption DEF AgendaInv, CalendarTyped, MarkersTyped
<1> QED BY <1>1, <1>2 DEF Init

LEMMA AgendaInvNext ==
    ASSUME AgendaInv, [Next]_panelVars
    PROVE  AgendaInv'
<1>1. CASE UNCHANGED agendaVars
    BY <1>1 DEF AgendaInv, CalendarTyped, MarkersTyped, agendaVars
<1>2. ASSUME NEW a \in Accounts, Sync(a)
      PROVE  AgendaInv'
    BY <1>2, ReplaceCorrect DEF AgendaInv, CalendarTyped, MarkersTyped, Sync
<1> QED BY <1>1, <1>2 DEF Next, panelVars

LEMMA AgendaInvHolds == Spec => []AgendaInv
BY AgendaInvInit, AgendaInvNext, PTL DEF Spec

LEMMA InjectiveLength ==
    ASSUME NEW S, NEW s \in Seq(S), IsInjective(s)
    PROVE  Len(s) = Cardinality(Range(s))
<1> DEFINE D == 1..Len(s)
<1>1. Len(s) \in Nat /\ DOMAIN s = D /\ s = [i \in D |-> s[i]]
    OBVIOUS
<1>2. s \in Bijection(D, Range(s))
    BY <1>1 DEF IsInjective, Bijection, Injection, Surjection, Range
<1>3. IsFiniteSet(D) /\ Cardinality(D) = Len(s)
    BY <1>1, UpTo
<1> HIDE DEF D
<1>4. Cardinality(D) = Cardinality(Range(s))
    BY <1>2, <1>3, FS_Bijection DEF ExistsBijection
<1> QED BY <1>3, <1>4
LEMMA EntriesTimed ==
    ASSUME NEW list \in Seq(Entry), NEW i \in DOMAIN list
    PROVE  Timed(list[i]) /\ list[i] \in Entry /\ list[i].markers \in Seq(Markers)
<1>1. list[i] \in Entry
    OBVIOUS
<1>2. list[i].title \in Titles /\ list[i].start \in Starts /\ list[i].markers \in Seq(Markers)
    BY <1>1 DEF Entry
<1> QED BY <1>1, <1>2, AgendaAssumption DEF Timed

(* Every event of the chosen accounts is one entry with the markers of     *)
(* exactly the accounts that have it; the cap only cuts off what comes     *)
(* last; and every day with an entry has one header, with that day's       *)
(* entries under it: for every answer of the providers, every set of       *)
(* accounts and every query (Merge, Agenda, groupByDay).                   *)
THEOREM EventsListedOnce == Spec => []AgendaListsEachOnce
<1>1. AgendaInv => AgendaListsEachOnce
    <2> SUFFICES ASSUME AgendaInv, NEW q \in Queries
                 PROVE  LET ids  == ListedBy(q)
                            list == AgendaOf(rows, q)
                            days == groupByDay(list)
                        IN  /\ \A i, j \in DOMAIN list : i < j =>
                                  list[i].key # list[j].key /\ ~Before(list[j], list[i])
                            /\ \A i \in DOMAIN list :
                                  /\ Having(ids, list[i].key) # {}
                                  /\ Range(list[i].markers) =
                                         {marker[a] : a \in Having(ids, list[i].key)} \ {NULL}
                                  /\ Len(list[i].markers) = Cardinality(Range(list[i].markers))
                            /\ \A n \in ids :
                                  \/ \E i \in DOMAIN list : list[i].key = dedupKey(rows[n].event)
                                  \/ /\ q.limit > 0 /\ Len(list) = q.limit
                                     /\ ~Before(rows[n].event, list[q.limit])
                            /\ \A i \in DOMAIN list :
                                  \E d \in DOMAIN days : days[d].date = DateOf(list[i])
                            /\ \A d, e \in DOMAIN days : d < e => days[d].date < days[e].date
                            /\ \A d \in DOMAIN days : \E first, last \in DOMAIN list :
                                  /\ first <= last /\ days[d].items = SubSeq(list, first, last)
                                  /\ \A i \in DOMAIN list :
                                        DateOf(list[i]) = days[d].date <=> first <= i /\ i <= last
        BY Zenon DEF AgendaListsEachOnce
    <2> DEFINE ids == ListedBy(q)
               all == Merge(rows, ids)
               list == AgendaOf(rows, q)
               days == groupByDay(list)
    <2>1. ids \subseteq DOMAIN rows /\ rows \in Seq(Row) /\ MarkersTyped
        BY ListedRows DEF AgendaInv, ListedBy
    <2>2. IsMerged(all, rows, ids)
        BY <2>1, MergeCorrect
    <2>3. IsCapped(list, all, q.limit)
        <3>1. q.limit \in Nat /\ all \in Seq(Entry)
            BY <2>2, CalendarsAssumption DEF IsMerged
        <3>2. all = Merge(rows, Listed(rows, q.accounts, q.from, q.to))
            BY DEF ListedBy
        <3> HIDE DEF all
        <3> QED BY <3>1, <3>2, AgendaCapped DEF AgendaOf
    <2> HIDE DEF ids, all, list
    <2>4. /\ all \in Seq(Entry)
          /\ \A i, j \in DOMAIN all : all[i].key = all[j].key => i = j
          /\ \A i, j \in DOMAIN all : i < j => ~Before(all[j], all[i])
          /\ \A i \in DOMAIN all : ShowsFirst(all[i], rows, Of(rows, ids, all[i].key))
          /\ \A i \in DOMAIN all : HasMarkers(all[i], rows, Of(rows, ids, all[i].key))
          /\ \A n \in ids : \E i \in DOMAIN all : all[i].key = dedupKey(rows[n].event)
        BY <2>2, Zenon DEF IsMerged
    <2>5. /\ list \in Seq(Entry) /\ DOMAIN list \subseteq DOMAIN all
          /\ DOMAIN list = 1..Len(list) /\ DOMAIN all = 1..Len(all)
          /\ Len(list) \in Nat /\ Len(all) \in Nat /\ Len(list) <= Len(all)
          /\ \A i \in DOMAIN list : list[i] = all[i] /\ i \in Nat
          /\ Len(list) # Len(all) => q.limit > 0 /\ Len(list) = q.limit
        BY <2>3, <2>4 DEF IsCapped
    <2>6. Ordered(list)
        BY <2>4, <2>5, Zenon DEF Ordered
    <2>7. IsGrouped(days, list, Len(list))
        BY <2>5, <2>6, GroupCorrect
    <2>8. \A i, j \in DOMAIN list : i < j => list[i].key # list[j].key /\ ~Before(list[j], list[i])
        <3> SUFFICES ASSUME NEW i \in DOMAIN list, NEW j \in DOMAIN list, i < j
                     PROVE  list[i].key # list[j].key /\ ~Before(list[j], list[i])
            OBVIOUS
        <3>1. i # j
            <4>1. i \in Nat /\ i < j
                BY <2>5, Zenon
            <4> QED BY <4>1
        <3> QED BY <2>4, <2>5, <3>1, Zenon
    <2>9. ASSUME NEW i \in DOMAIN list
          PROVE  /\ Having(ids, list[i].key) # {}
                 /\ Range(list[i].markers) =
                        {marker[a] : a \in Having(ids, list[i].key)} \ {NULL}
                 /\ Len(list[i].markers) = Cardinality(Range(list[i].markers))
        <3> DEFINE D == Of(rows, ids, list[i].key)
        <3>1. ShowsFirst(list[i], rows, D) /\ HasMarkers(list[i], rows, D)
            BY <2>4, <2>5
        <3>2. Having(ids, list[i].key) = {rows[n].account : n \in D}
            BY DEF Having, Of
        <3> HIDE DEF D
        <3>3. D # {}
            BY <3>1 DEF ShowsFirst
        <3>4. MarkersOf(rows, D) = {marker[a] : a \in Having(ids, list[i].key)} \ {NULL}
            BY <3>2 DEF MarkersOf
        <3>5. Len(list[i].markers) = Cardinality(Range(list[i].markers))
            BY <2>5, <3>1, EntriesTimed, InjectiveLength DEF HasMarkers
        <3> QED BY <3>1, <3>2, <3>3, <3>4, <3>5 DEF HasMarkers
    <2>10. ASSUME NEW n \in ids
           PROVE  \/ \E i \in DOMAIN list : list[i].key = dedupKey(rows[n].event)
                  \/ /\ q.limit > 0 /\ Len(list) = q.limit
                     /\ ~Before(rows[n].event, list[q.limit])
        <3>1. PICK i \in DOMAIN all : all[i].key = dedupKey(rows[n].event)
            BY <2>4
        <3>2. CASE i \in DOMAIN list
            BY <2>5, <3>1, <3>2
        <3>3. CASE i \notin DOMAIN list
            <4> DEFINE k == q.limit
            <4>1. /\ k > 0 /\ Len(list) = k /\ k \in DOMAIN list /\ k \in DOMAIN all /\ k < i
                  /\ list[k] = all[k]
                <5> DEFINE n1 == Len(list)
                           n2 == Len(all)
                <5>1. /\ n1 \in Nat /\ n2 \in Nat /\ n1 <= n2
                      /\ i \in 1..n2 /\ i \notin 1..n1
                      /\ n1 # n2 => k > 0 /\ n1 = k
                    BY <2>5, <3>3, Zenon
                <5>2. DOMAIN list = 1..n1 /\ DOMAIN all = 1..n2
                    BY <2>5, Zenon
                <5> HIDE DEF n1, n2, k
                <5>3. k > 0 /\ n1 = k /\ k \in 1..n1 /\ k \in 1..n2 /\ k < i
                    BY <5>1
                <5>4. list[k] = all[k]
                    BY <2>5, <5>2, <5>3, Zenon
                <5> QED BY <5>2, <5>3, <5>4, Zenon DEF n1, k
            <4>2. ~Before(all[i], all[k])
                BY <2>4, <4>1
            <4>3. ~Before(rows[n].event, all[i])
                <5>1. n \in Of(rows, ids, all[i].key)
                    BY <3>1 DEF Of
                <5>2. PICK m \in Of(rows, ids, all[i].key) :
                          /\ all[i].title = rows[m].event.title
                          /\ all[i].start = rows[m].event.start
                          /\ ~Before(rows[n].event, rows[m].event)
                    BY <2>4, <5>1 DEF ShowsFirst
                <5> QED BY <5>2 DEF Before
            <4>4. Timed(rows[n].event) /\ Timed(all[i]) /\ Timed(all[k])
                BY <2>1, <2>4, <4>1, RowsTimed, EntriesTimed
            <4>5. ~Before(rows[n].event, all[k])
                BY <4>2, <4>3, <4>4, NotBefore
            <4> QED BY <4>1, <4>5
        <3> QED BY <3>2, <3>3
    <2> HIDE DEF days
    <2>11. /\ \A i \in DOMAIN list : \E d \in DOMAIN days : days[d].date = DateOf(list[i])
           /\ \A d, e \in DOMAIN days : d < e => days[d].date < days[e].date
           /\ \A d \in DOMAIN days : \E first, last \in DOMAIN list :
                 /\ first <= last /\ days[d].items = SubSeq(list, first, last)
                 /\ \A i \in DOMAIN list :
                       DateOf(list[i]) = days[d].date <=> first <= i /\ i <= last
        BY <2>5, <2>7, Zenon DEF IsGrouped, ItemsAre
    <2> QED BY <2>8, <2>9, <2>10, <2>11, Zenon DEF ids, list, days
<1> QED BY <1>1, AgendaInvHolds, PTL
-----------------------------------------------------------------------------
(* Two tables with the same rows, whatever their ids, have lists with the  *)
(* same entries, in an order that differs between entries of one title and *)
(* time only.                                                              *)
Chosen(table, D) == {table[n] : n \in D}

Twins(e, f) ==
    /\ e.key = f.key /\ e.title = f.title /\ e.start = f.start
    /\ Range(e.markers) = Range(f.markers)

Covers(list, other) == \A i \in DOMAIN other : \E j \in DOMAIN list : Twins(other[i], list[j])

LEMMA SameRowsCover ==
    ASSUME NEW table \in Seq(Row), NEW D, D \subseteq DOMAIN table, NEW list,
           IsMerged(list, table, D),
           NEW table2 \in Seq(Row), NEW D2, D2 \subseteq DOMAIN table2, NEW list2,
           IsMerged(list2, table2, D2),
           Chosen(table, D) = Chosen(table2, D2)
    PROVE  Covers(list, list2)
<1> SUFFICES ASSUME NEW i \in DOMAIN list2
             PROVE  \E j \in DOMAIN list : Twins(list2[i], list[j])
    BY DEF Covers
<1> DEFINE k == list2[i].key
           S == Of(table, D, k)
           S2 == Of(table2, D2, k)
<1>1. ShowsFirst(list2[i], table2, S2) /\ HasMarkers(list2[i], table2, S2)
    BY DEF IsMerged
<1>2. PICK n2 \in S2 : /\ list2[i].title = table2[n2].event.title
                       /\ list2[i].start = table2[n2].event.start
                       /\ \A m \in S2 : ~Before(table2[m].event, table2[n2].event)
    BY <1>1 DEF ShowsFirst
<1>3. Chosen(table, S) = Chosen(table2, S2)
    <2>1. Chosen(table, S) = {r \in Chosen(table, D) : dedupKey(r.event) = k}
        BY DEF Chosen, Of
    <2>2. Chosen(table2, S2) = {r \in Chosen(table2, D2) : dedupKey(r.event) = k}
        BY DEF Chosen, Of
    <2> QED BY <2>1, <2>2
<1>4. PICK m \in S : table[m] = table2[n2]
    BY <1>3 DEF Chosen
<1>5. m \in D /\ dedupKey(table[m].event) = k
    BY <1>4 DEF Of
<1>6. PICK j \in DOMAIN list : list[j].key = k
    BY <1>5 DEF IsMerged
<1>7. ShowsFirst(list[j], table, S) /\ HasMarkers(list[j], table, S)
    BY <1>6 DEF IsMerged
<1>8. PICK n \in S : /\ list[j].title = table[n].event.title
                     /\ list[j].start = table[n].event.start
                     /\ \A l \in S : ~Before(table[l].event, table[n].event)
    BY <1>7 DEF ShowsFirst
<1>9. PICK m2 \in S2 : table2[m2] = table[n]
    BY <1>3, <1>8 DEF Chosen
<1>10. ~Before(table2[n2].event, table[n].event) /\ ~Before(table[n].event, table2[n2].event)
    BY <1>2, <1>4, <1>8, <1>9
<1>11. Timed(table[n].event) /\ Timed(table2[n2].event)
    BY RowsTimed DEF Of
<1>12. list[j].title = list2[i].title /\ list[j].start = list2[i].start
    BY <1>2, <1>8, <1>10, <1>11, BeforeOnce
<1>13. MarkersOf(table, S) = MarkersOf(table2, S2)
    <2>1. MarkersOf(table, S) = {marker[r.account] : r \in Chosen(table, S)} \ {NULL}
        BY DEF MarkersOf, Chosen
    <2>2. MarkersOf(table2, S2) = {marker[r.account] : r \in Chosen(table2, S2)} \ {NULL}
        BY DEF MarkersOf, Chosen
    <2> QED BY <1>3, <2>1, <2>2
<1>14. Range(list[j].markers) = Range(list2[i].markers)
    BY <1>1, <1>7, <1>13 DEF HasMarkers
<1> QED BY <1>6, <1>12, <1>14 DEF Twins

KeysOnce(list) == \A i, j \in DOMAIN list : list[i].key = list[j].key => i = j

(* A list that covers another one is no shorter. *)
LEMMA CoversAll ==
    ASSUME NEW list \in Seq(Entry), NEW other \in Seq(Entry), KeysOnce(other), Covers(list, other)
    PROVE  Len(other) <= Len(list)
<1> DEFINE m == Len(other)
           n == Len(list)
           place == [i \in 1..m |-> CHOOSE j \in 1..n : Twins(other[i], list[j])]
<1>1. m \in Nat /\ n \in Nat /\ DOMAIN list = 1..n /\ DOMAIN other = 1..m
    OBVIOUS
<1> HIDE DEF m, n
<1>2. ASSUME NEW i \in 1..m
      PROVE  place[i] \in 1..n /\ Twins(other[i], list[place[i]])
    <2>1. \E j \in 1..n : Twins(other[i], list[j])
        BY <1>1 DEF Covers
    <2>2. place[i] = CHOOSE j \in 1..n : Twins(other[i], list[j])
        OBVIOUS
    <2> QED BY <2>1, <2>2, Zenon
<1>3. place = [i \in 1..m |-> place[i]]
    OBVIOUS
<1> HIDE DEF place
<1>4. place \in [1..m -> 1..n]
    BY <1>2, <1>3
<1>5. ASSUME NEW i \in 1..m, NEW j \in 1..m, place[i] = place[j]
      PROVE  i = j
    <2>1. other[i].key = other[j].key
        BY <1>2, <1>5 DEF Twins
    <2> QED BY <1>1, <2>1 DEF KeysOnce
<1>6. place \in Injection(1..m, 1..n)
    BY <1>4, <1>5 DEF Injection, IsInjective
<1>7. /\ IsFiniteSet(1..n) /\ Cardinality(1..n) = n
      /\ Cardinality(1..m) = m
    BY <1>1, UpTo
<1>8. Cardinality(1..m) <= Cardinality(1..n)
    BY <1>6, <1>7, FS_Injection
<1> QED BY <1>7, <1>8 DEF m, n

(* And it has no entry later than the other one has it. *)
LEMMA CoversEarly ==
    ASSUME NEW list \in Seq(Entry), NEW other \in Seq(Entry), KeysOnce(other),
           Ordered(list), Ordered(other), Covers(list, other),
           NEW i \in DOMAIN other, i \in DOMAIN list
    PROVE  ~Before(other[i], list[i])
<1> SUFFICES ASSUME Before(other[i], list[i]) PROVE FALSE
    OBVIOUS
<1> DEFINE n == Len(list)
           place == [l \in 1..i |-> CHOOSE j \in 1..n : Twins(other[l], list[j])]
<1>1. /\ n \in Nat /\ DOMAIN list = 1..n /\ DOMAIN other = 1..Len(other)
      /\ i \in Nat /\ i > 0 /\ 1..i \subseteq DOMAIN other
    OBVIOUS
<1> HIDE DEF n
<1>2. ASSUME NEW l \in 1..i
      PROVE  place[l] \in 1..n /\ Twins(other[l], list[place[l]])
    <2>1. \E j \in 1..n : Twins(other[l], list[j])
        BY <1>1 DEF Covers
    <2>2. place[l] = CHOOSE j \in 1..n : Twins(other[l], list[j])
        OBVIOUS
    <2> QED BY <2>1, <2>2, Zenon
<1>3. place = [l \in 1..i |-> place[l]]
    OBVIOUS
<1> HIDE DEF place
<1>4. ASSUME NEW l \in 1..i
      PROVE  place[l] \in 1..(i - 1)
    <2> DEFINE j == place[l]
    <2>1. j \in 1..n /\ j \in DOMAIN list /\ l \in DOMAIN other /\ l \in Nat /\ l <= i
        BY <1>1, <1>2
    <2>2. Timed(other[l]) /\ Timed(other[i]) /\ Timed(list[i]) /\ Timed(list[j])
        BY <2>1, EntriesTimed
    <2>3. ~Before(other[i], other[l])
        <3>1. CASE l = i
            BY <2>2, <3>1, BeforeOnce
        <3>2. CASE l < i
            BY <2>1, <3>2 DEF Ordered
        <3> QED BY <1>1, <2>1, <3>1, <3>2
    <2>4. list[j].title = other[l].title /\ list[j].start = other[l].start
        BY <1>2 DEF Twins
    <2> HIDE DEF j
    <2>5. Before(list[j], list[i])
        BY <2>2, <2>3, <2>4 DEF Before, Timed
    <2>6. j # i
        BY <2>2, <2>5, BeforeOnce
    <2>7. ~(i < j)
        BY <2>1, <2>5 DEF Ordered
    <2>8. j \in 1..(i - 1)
        BY <1>1, <2>1, <2>6, <2>7
    <2> QED BY <2>8 DEF j
<1>5. place \in [1..i -> 1..(i - 1)]
    BY <1>3, <1>4
<1>6. ASSUME NEW l \in 1..i, NEW j \in 1..i, place[l] = place[j]
      PROVE  l = j
    <2>1. other[l].key = other[j].key
        BY <1>2, <1>6 DEF Twins
    <2> QED BY <1>1, <2>1 DEF KeysOnce
<1>7. place \in Injection(1..i, 1..(i - 1))
    BY <1>5, <1>6 DEF Injection, IsInjective
<1>8. /\ IsFiniteSet(1..(i - 1)) /\ Cardinality(1..(i - 1)) = i - 1
      /\ Cardinality(1..i) = i
    <2>1. i - 1 \in Nat
        BY <1>1
    <2> QED BY <1>1, <2>1, UpTo
<1>9. Cardinality(1..i) <= Cardinality(1..(i - 1))
    BY <1>7, <1>8, FS_Injection
<1> QED BY <1>1, <1>8, <1>9
LEMMA SameRowsSameAgenda ==
    ASSUME MarkersTyped, NEW table \in Seq(Row), NEW table2 \in Seq(Row),
           Range(table) = Range(table2)
    PROVE  SameAgenda(table, table2)
<1> SUFFICES ASSUME NEW q \in Queries
             PROVE  LET old == AgendaOf(table, q)
                        new == AgendaOf(table2, q)
                    IN  Lines(old) = Lines(new) /\ (q.limit = 0 => Entries(old) = Entries(new))
    BY Zenon DEF SameAgenda
<1> DEFINE D == Listed(table, q.accounts, q.from, q.to)
           D2 == Listed(table2, q.accounts, q.from, q.to)
           all == Merge(table, D)
           all2 == Merge(table2, D2)
           old == AgendaOf(table, q)
           new == AgendaOf(table2, q)
<1>1. D \subseteq DOMAIN table /\ D2 \subseteq DOMAIN table2
    BY ListedRows
<1>2. IsMerged(all, table, D) /\ IsMerged(all2, table2, D2)
    BY <1>1, MergeCorrect
<1>3. IsCapped(old, all, q.limit) /\ IsCapped(new, all2, q.limit)
    <2>1. q.limit \in Nat /\ all \in Seq(Entry) /\ all2 \in Seq(Entry)
        BY <1>2, CalendarsAssumption DEF IsMerged
    <2>2. /\ all = Merge(table, Listed(table, q.accounts, q.from, q.to))
          /\ all2 = Merge(table2, Listed(table2, q.accounts, q.from, q.to))
        OBVIOUS
    <2> HIDE DEF all, all2
    <2> QED BY <2>1, <2>2, AgendaCapped DEF AgendaOf
<1>4. Chosen(table, D) = Chosen(table2, D2)
    <2> DEFINE C(r) == /\ q.from <= r.event.start /\ r.event.start < q.to
                       /\ q.accounts = {} \/ r.account \in q.accounts
    <2>1. Chosen(table, D) = {r \in Range(table) : C(r)}
        BY DEF Chosen, Listed, Range
    <2>2. Chosen(table2, D2) = {r \in Range(table2) : C(r)}
        BY DEF Chosen, Listed, Range
    <2> HIDE DEF C
    <2> QED BY <2>1, <2>2
<1> HIDE DEF D, D2, all, all2, old, new
<1>5. Covers(all, all2) /\ Covers(all2, all)
    BY <1>1, <1>2, <1>4, SameRowsCover
<1>6. /\ all \in Seq(Entry) /\ all2 \in Seq(Entry) /\ KeysOnce(all) /\ KeysOnce(all2)
      /\ Ordered(all) /\ Ordered(all2)
    BY <1>2, Zenon DEF IsMerged, KeysOnce, Ordered
<1>7. Len(all) = Len(all2) /\ Len(all) \in Nat /\ Len(all2) \in Nat
    <2>1. Len(all) <= Len(all2) /\ Len(all2) <= Len(all)
        BY <1>5, <1>6, CoversAll
    <2> QED BY <1>6, <2>1
<1>8. /\ old \in Seq(Entry) /\ new \in Seq(Entry)
      /\ Len(old) <= Len(all) /\ Len(new) <= Len(all2)
      /\ Len(old) # Len(all) => q.limit > 0 /\ Len(old) = q.limit
      /\ Len(new) # Len(all2) => q.limit > 0 /\ Len(new) = q.limit
      /\ q.limit > 0 => Len(old) <= q.limit /\ Len(new) <= q.limit
      /\ \A i \in DOMAIN old : old[i] = all[i]
      /\ \A i \in DOMAIN new : new[i] = all2[i]
      /\ q.limit = 0 => old = all /\ new = all2
    BY <1>3, Zenon DEF IsCapped
<1>9. Len(old) = Len(new)
    <2> DEFINE a == Len(old)
               b == Len(new)
               n == Len(all)
               k == q.limit
    <2>1. /\ a \in Nat /\ b \in Nat /\ n \in Nat /\ k \in Nat
        BY <1>7, <1>8, CalendarsAssumption
    <2>2. /\ a <= n /\ b <= n
          /\ a # n => k > 0 /\ a = k
          /\ b # n => k > 0 /\ b = k
          /\ k > 0 => a <= k /\ b <= k
        BY <1>7, <1>8, Zenon
    <2> HIDE DEF a, b, n, k
    <2>3. a = b
        BY <2>1, <2>2
    <2> QED BY <2>3 DEF a, b
<1>10. ASSUME NEW i \in DOMAIN old
       PROVE  old[i].title = new[i].title /\ old[i].start = new[i].start
    <2>1. i \in DOMAIN all /\ i \in DOMAIN all2 /\ i \in DOMAIN new
        BY <1>6, <1>7, <1>8, <1>9
    <2>2. ~Before(all[i], all2[i]) /\ ~Before(all2[i], all[i])
        BY <1>5, <1>6, <2>1, CoversEarly
    <2>3. Timed(all[i]) /\ Timed(all2[i])
        BY <1>6, <2>1, EntriesTimed
    <2>4. all[i].title = all2[i].title /\ all[i].start = all2[i].start
        BY <2>2, <2>3, BeforeOnce
    <2> QED BY <1>8, <2>1, <2>4, Zenon
<1>11. DOMAIN old = DOMAIN new
    BY <1>8, <1>9
<1>12. Lines(old) = Lines(new)
    BY <1>10, <1>11 DEF Lines
<1>13. ASSUME q.limit = 0
       PROVE  Entries(old) = Entries(new)
    <2>1. Covers(old, new) /\ Covers(new, old)
        BY <1>5, <1>8, <1>13, Zenon
    <2> QED BY <2>1 DEF Entries, Covers, Twins
<1> QED BY <1>12, <1>13, Zenon DEF old, new

(* A sync that gives an account's unchanged rows new ids changes no line   *)
(* of any agenda, and without a cap no marker: what Merge sorts by decides *)
(* everything that shows, and the ids nothing (ReplaceCalendarEvents,      *)
(* Merge).                                                                 *)
THEOREM AgendaKept == Spec => AgendaStable
<1>1. AgendaInv /\ [Next]_panelVars =>
          [\A a \in Accounts, before \in {rows}, after \in {rows'} :
              Sync(a) /\ RowsOf(a)' = RowsOf(a) => SameAgenda(before, after)]_panelVars
    <2> SUFFICES ASSUME AgendaInv, NEW a \in Accounts, Sync(a), RowsOf(a)' = RowsOf(a)
                 PROVE  SameAgenda(rows, rows')
        OBVIOUS
    <2>1. rows \in Seq(Row) /\ rows' \in Seq(Row) /\ Others(rows', a) = Others(rows, a)
        BY ReplaceCorrect DEF AgendaInv, Sync
    <2>2. Range(rows) = Others(rows, a) \union RowsOf(a)
        BY DEF Others, RowsOf
    <2>3. Range(rows') = Others(rows', a) \union RowsOf(a)'
        BY DEF Others, RowsOf
    <2>4. Range(rows) = Range(rows')
        BY <2>1, <2>2, <2>3
    <2> QED BY <2>1, <2>4, SameRowsSameAgenda DEF AgendaInv
<1> QED BY <1>1, AgendaInvHolds, PTL DEF Spec, AgendaStable
=============================================================================
