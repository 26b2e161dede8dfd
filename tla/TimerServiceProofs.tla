------------------------- MODULE TimerServiceProofs -------------------------
(***************************************************************************)
(* Proofs about TimerService: the list of timers, the rate at which they   *)
(* expire, what a call of ProcessTimers() leaves behind, and the life of a *)
(* TimerDelegate's target, for any timers, periods, batch size and limit   *)
(* of the clock.                                                           *)
(***************************************************************************)
EXTENDS TimerService, SequenceTheorems, FiniteSetTheorems, TLAPS

\* Where the node is in its life says whether its thread accepts ticks and
\* whether its slot is connected; before and after, no tick is left.
NodeInv ==
    /\ queued \in Nat /\ running \in BOOLEAN
    /\ accepting \in BOOLEAN /\ connected \in BOOLEAN
    /\ owner \in {"new", "up", "exiting", "joining", "drained", "down"}
    /\ accepting <=> owner \in {"up", "exiting"}
    /\ connected <=> owner \in {"up", "exiting", "joining", "drained"}
    /\ owner \in {"new", "drained", "down"} => queued = 0 /\ ~running
    /\ queued > 0 => queued = 1 /\ ~running

\* The node starts without ticks.
LEMMA NodeInit == Init => NodeInv
<1> SUFFICES ASSUME Init PROVE NodeInv
  OBVIOUS
<1>1. queued \in Nat /\ ~(queued > 0)
  BY DEF Init
<1> QED
  BY <1>1, Zenon DEF Init, NodeInv

\* NodeInv is kept by every step: a tick is queued only while the thread accepts
\* it and none is in flight.
LEMMA NodeStep == NodeInv /\ [Next]_vars => NodeInv'
<1> SUFFICES ASSUME NodeInv, [Next]_vars PROVE NodeInv'
  OBVIOUS
<1> USE DEF NodeInv
<1>1. CASE UNCHANGED nodeVars
  BY <1>1 DEF nodeVars
<1>2. CASE Invoke
  BY <1>2 DEF Invoke, CanFire
<1>3. CASE RunTick
  BY <1>3 DEF RunTick
<1>4. CASE EndTick
  BY <1>4 DEF EndTick
<1>5. CASE NodeStart
  BY <1>5 DEF NodeStart
<1>6. CASE NodeStop
  BY <1>6 DEF NodeStop
<1>7. CASE NodeExit
  BY <1>7 DEF NodeExit
<1>8. CASE NodeJoined
  BY <1>8 DEF NodeJoined, Joined
<1>9. CASE NodeDisconnect
  BY <1>9 DEF NodeDisconnect
<1>10. \/ UNCHANGED nodeVars \/ Invoke \/ RunTick \/ EndTick
       \/ NodeStart \/ NodeStop \/ NodeExit \/ NodeJoined \/ NodeDisconnect
  BY DEF Next, vars, UserStart, UserStop, UserDestroy, Tick, Call, Scan, EndPass
<1> QED
  BY <1>1, <1>2, <1>3, <1>4, <1>5, <1>6, <1>7, <1>8, <1>9, <1>10

\* NodeInv holds in every reachable state.
LEMMA Invariance == Spec => []NodeInv
  BY NodeInit, NodeStep, PTL DEF Spec

\* No tick outlives the TimerDelegate it points to, and at most one is in flight,
\* however late ProcessTimers() invokes a snapshot it took before the Stop().
THEOREM TickTargetLives == Spec => []TargetSafe
<1>1. NodeInv => TargetSafe
  BY DEF NodeInv, TargetSafe
<1> QED
  BY Invariance, <1>1, PTL

-----------------------------------------------------------------------------
(* Keep.                                                                   *)

Rank(I, i) == Cardinality({j \in I : j <= i})

\* The elements of a set of positions have the ranks 1, 2, ... in their order.
LEMMA Ranks ==
    ASSUME NEW n \in Nat, NEW I \in SUBSET (1 .. n)
    PROVE  /\ Cardinality(I) \in Nat
           /\ \A i \in I : Rank(I, i) \in 1 .. Cardinality(I)
           /\ \A i, j \in I : Rank(I, i) = Rank(I, j) => i = j
           /\ \A k \in 1 .. Cardinality(I) : \E i \in I : Rank(I, i) = k
<1> DEFINE Below(i) == {j \in I : j <= i}
           card == Cardinality(I)
           rank == [i \in I |-> Rank(I, i)]
<1>1. IsFiniteSet(I) /\ card \in Nat
  <2>1. IsFiniteSet(1 .. n)
    BY FS_Interval
  <2>2. IsFiniteSet(I)
    BY <2>1, FS_Subset
  <2> QED BY <2>2, FS_CardinalityType
<1>2. ASSUME NEW i \in I
      PROVE  /\ IsFiniteSet(Below(i)) /\ Cardinality(Below(i)) \in Nat
             /\ Cardinality(Below(i)) <= card /\ Cardinality(Below(i)) # 0
             /\ Rank(I, i) = Cardinality(Below(i))
  <2>1. IsFiniteSet(Below(i)) /\ Cardinality(Below(i)) <= card
    BY <1>1, FS_Subset
  <2>2. i \in Below(i)
    OBVIOUS
  <2>3. Cardinality(Below(i)) # 0
    BY <2>1, <2>2, FS_EmptySet
  <2> QED BY <2>1, <2>3, FS_CardinalityType DEF Rank
<1>3. \A i \in I : Rank(I, i) \in 1 .. card
  <2> HIDE DEF Below, card
  <2> QED BY <1>1, <1>2
<1>4. ASSUME NEW i \in I, NEW j \in I, i < j PROVE Rank(I, i) < Rank(I, j)
  <2>1. Below(i) \subseteq Below(j) /\ j \in Below(j) /\ j \notin Below(i)
    <3>1. \A l \in I : l \in Nat
      OBVIOUS
    <3>2. i \in Nat /\ j \in Nat /\ i < j
      BY <1>4, <3>1
    <3>3. \A l \in I : l <= i => l <= j
      BY <3>1, <3>2
    <3>4. j <= j /\ ~(j <= i)
      BY <3>2
    <3> QED BY <3>3, <3>4
  <2>2. /\ Cardinality(Below(i)) <= Cardinality(Below(j))
        /\ Cardinality(Below(j)) = Cardinality(Below(i)) => Below(j) = Below(i)
    <3> HIDE DEF Below
    <3> QED BY <1>2, <2>1, FS_Subset
  <2>3. Cardinality(Below(i)) # Cardinality(Below(j))
    BY <2>1, <2>2
  <2> HIDE DEF Below
  <2> QED BY <1>2, <2>2, <2>3
<1>5. \A i, j \in I : Rank(I, i) = Rank(I, j) => i = j
  <2> SUFFICES ASSUME NEW i \in I, NEW j \in I, Rank(I, i) = Rank(I, j) PROVE i = j
    OBVIOUS
  <2>1. i \in Nat /\ j \in Nat /\ Rank(I, i) \in Nat /\ Rank(I, j) \in Nat
    BY <1>3
  <2>2. ~(i < j) /\ ~(j < i)
    BY <1>4, <2>1
  <2> QED BY <2>1, <2>2
<1>6. \A k \in 1 .. card : \E i \in I : Rank(I, i) = k
  <2>1. rank \in Injection(I, 1 .. card)
    BY <1>3, <1>5 DEF Injection, IsInjective
  <2>2. IsFiniteSet(1 .. card) /\ Cardinality(1 .. card) = card
    <3>1. IsFiniteSet(1 .. card) /\ Cardinality(1 .. card) = IF 1 > card THEN 0 ELSE card - 1 + 1
      BY <1>1, FS_Interval
    <3> HIDE DEF card
    <3> QED BY <1>1, <3>1
  <2>3. rank \in Surjection(I, 1 .. card)
    <3> HIDE DEF rank
    <3> QED BY <2>1, <2>2, FS_Injection
  <2> QED BY <2>3 DEF Surjection
<1> QED BY <1>1, <1>3, <1>5, <1>6

Items(seq) == {seq[i] : i \in 1 .. Len(seq)}
Distinct(seq) == \A i, j \in 1 .. Len(seq) : seq[i] = seq[j] => i = j

\* Keep returns a sequence of the kept elements, all of them, each as often.
LEMMA KeepItems ==
    ASSUME NEW T, NEW seq \in Seq(T), NEW S
    PROVE  /\ Keep(seq, S) \in Seq(T)
           /\ Items(Keep(seq, S)) = Items(seq) \cap S
           /\ Distinct(seq) => Distinct(Keep(seq, S))
<1> DEFINE I == {i \in DOMAIN seq : seq[i] \in S}
           card == Cardinality(I)
           at(k) == CHOOSE i \in I : Rank(I, i) = k
           kept == [k \in 1 .. card |-> seq[at(k)]]
<1>1. Len(seq) \in Nat /\ DOMAIN seq = 1 .. Len(seq) /\ \A i \in 1 .. Len(seq) : seq[i] \in T
  OBVIOUS
<1>2. I \in SUBSET (1 .. Len(seq))
  BY <1>1
<1>3. Keep(seq, S) = kept
  BY DEF Keep, Rank
<1>4. /\ card \in Nat
      /\ \A i \in I : Rank(I, i) \in 1 .. card
      /\ \A i, j \in I : Rank(I, i) = Rank(I, j) => i = j
      /\ \A k \in 1 .. card : \E i \in I : Rank(I, i) = k
  <2> HIDE DEF I
  <2> QED BY <1>1, <1>2, Ranks
<1>5. /\ \A k \in 1 .. card : at(k) \in I /\ Rank(I, at(k)) = k
      /\ \A i \in I : at(Rank(I, i)) = i
  <2>1. ASSUME NEW k \in 1 .. card PROVE at(k) \in I /\ Rank(I, at(k)) = k
    <3> HIDE DEF I, card
    <3> QED BY <1>4
  <2>2. ASSUME NEW i \in I PROVE at(Rank(I, i)) = i
    <3> HIDE DEF I, card, at
    <3> QED BY <1>4, <2>1, <2>2
  <2> QED BY <2>1, <2>2
<1>6. \A i : i \in I <=> i \in 1 .. Len(seq) /\ seq[i] \in S
  BY <1>1
<1> HIDE DEF I, card, at
<1>7. /\ kept \in Seq(T) /\ Len(kept) = card
      /\ \A k \in 1 .. card : kept[k] = seq[at(k)]
  <2>1. \A k \in 1 .. card : seq[at(k)] \in T
    BY <1>1, <1>5, <1>6
  <2>2. kept \in Seq(T) /\ Len(kept) = card
    BY <1>4, <2>1
  <2> QED BY <2>2
<1> HIDE DEF kept
<1>8. Items(kept) = Items(seq) \cap S
  <2>1. ASSUME NEW k \in 1 .. Len(kept) PROVE kept[k] \in Items(seq) \cap S
    BY <1>5, <1>6, <1>7 DEF Items
  <2>2. ASSUME NEW i \in 1 .. Len(seq), seq[i] \in S PROVE seq[i] \in Items(kept)
    <3>1. i \in I
      BY <1>6, <2>2
    <3>2. Rank(I, i) \in 1 .. Len(kept) /\ kept[Rank(I, i)] = seq[i]
      BY <1>4, <1>5, <1>7, <3>1
    <3> QED BY <3>2 DEF Items
  <2> QED BY <2>1, <2>2 DEF Items
<1>9. ASSUME Distinct(seq) PROVE Distinct(kept)
  <2> SUFFICES ASSUME NEW k \in 1 .. Len(kept), NEW l \in 1 .. Len(kept), kept[k] = kept[l]
               PROVE  k = l
    BY DEF Distinct
  <2>1. at(k) \in 1 .. Len(seq) /\ at(l) \in 1 .. Len(seq) /\ seq[at(k)] = seq[at(l)]
    BY <1>5, <1>6, <1>7
  <2>2. at(k) = at(l)
    BY <1>9, <2>1 DEF Distinct
  <2> QED BY <1>5, <1>7, <2>2
<1> QED BY <1>3, <1>7, <1>8, <1>9

\* The first elements of a sequence, as many as a batch holds.
LEMMA BatchItems ==
    ASSUME NEW seq \in Seq(Timers)
    PROVE  /\ Batch(seq) \in Seq(Timers) /\ Len(Batch(seq)) <= BatchSize
           /\ Items(Batch(seq)) \subseteq Items(seq)
           /\ Len(Batch(seq)) # BatchSize => Items(Batch(seq)) = Items(seq)
<1> DEFINE n == IF Len(seq) < BatchSize THEN Len(seq) ELSE BatchSize
           front == SubSeq(seq, 1, n)
<1>1. Batch(seq) = front
  BY DEF Batch
<1>2. /\ n \in Nat /\ n <= Len(seq) /\ n <= BatchSize /\ Len(seq) \in Nat /\ BatchSize \in Nat
      /\ n # BatchSize => n = Len(seq)
  BY TimerAssumption
<1> HIDE DEF n
<1>3. \A i \in 1 .. n : seq[i] \in Timers
  BY <1>2
<1>4. /\ front \in Seq(Timers)
      /\ Len(front) = IF 1 <= n THEN n - 1 + 1 ELSE 0
      /\ \A i \in 1 .. n - 1 + 1 : front[i] = seq[1 + i - 1]
  BY <1>2, <1>3, SubSeqProperties
<1> HIDE DEF front
<1>5. Len(front) = n /\ \A i \in 1 .. n : front[i] = seq[i]
  BY ONLY <1>2, <1>4
<1>6. \A i \in 1 .. n : i \in 1 .. Len(seq)
  BY ONLY <1>2
<1>7. Items(front) \subseteq Items(seq)
  BY <1>5, <1>6 DEF Items
<1>8. n = Len(seq) => Items(front) = Items(seq)
  BY <1>5 DEF Items
<1> QED BY <1>1, <1>2, <1>4, <1>5, <1>7, <1>8

\* A timer put in front of the list joins it; the others stay.
LEMMA FrontItems ==
    ASSUME NEW T, NEW seq \in Seq(T), NEW t \in T
    PROVE  /\ <<t>> \o seq \in Seq(T)
           /\ Items(<<t>> \o seq) = Items(seq) \cup {t}
           /\ Distinct(seq) /\ t \notin Items(seq) => Distinct(<<t>> \o seq)
<1> DEFINE longer == <<t>> \o seq
<1>1. /\ longer \in Seq(T) /\ Len(longer) = Len(seq) + 1 /\ Len(seq) \in Nat
      /\ \A i \in 1 .. Len(seq) + 1 : longer[i] = IF i = 1 THEN t ELSE seq[i - 1]
  OBVIOUS
<1> HIDE DEF longer
<1>2. /\ longer[1] = t /\ 1 \in 1 .. Len(longer)
      /\ \A i \in 1 .. Len(seq) : i + 1 \in 1 .. Len(longer) /\ longer[i + 1] = seq[i]
      /\ \A i \in 1 .. Len(longer) : i = 1 \/ (i - 1 \in 1 .. Len(seq) /\ longer[i] = seq[i - 1])
  BY ONLY <1>1
<1>3. Items(longer) = Items(seq) \cup {t}
  <2>1. Items(seq) \cup {t} \subseteq Items(longer)
    BY <1>2 DEF Items
  <2>2. Items(longer) \subseteq Items(seq) \cup {t}
    BY <1>2 DEF Items
  <2> QED BY <2>1, <2>2
<1>4. ASSUME Distinct(seq), t \notin Items(seq),
             NEW i \in 1 .. Len(longer), NEW j \in 1 .. Len(longer), longer[i] = longer[j]
      PROVE  i = j
  <2>1. \A k \in 1 .. Len(seq) : seq[k] # t
    BY <1>4 DEF Items
  <2>2. CASE i = 1 \/ j = 1
    BY <1>2, <1>4, <2>1, <2>2
  <2>3. CASE i # 1 /\ j # 1
    <3>1. i - 1 = j - 1
      BY <1>2, <1>4, <2>3 DEF Distinct
    <3> QED BY ONLY <1>1, <1>4, <3>1
  <2> QED BY <2>2, <2>3
<1>5. Distinct(seq) /\ t \notin Items(seq) => Distinct(longer)
  BY <1>4 DEF Distinct
<1> QED BY <1>1, <1>3, <1>5 DEF longer

\* The snapshots still to invoke are some of those that were taken.
LEMMA TailItems ==
    ASSUME NEW T, NEW seq \in Seq(T), seq # <<>>
    PROVE  Tail(seq) \in Seq(T) /\ Len(Tail(seq)) = Len(seq) - 1 /\ Len(seq) \in Nat
  BY HeadTailProperties

\* A list without repetitions is as long as the set of what it links.
LEMMA DistinctCount ==
    ASSUME NEW T, NEW seq \in Seq(T), Distinct(seq)
    PROVE  Cardinality(Items(seq)) = Len(seq)
<1> DEFINE f == [i \in 1 .. Len(seq) |-> seq[i]]
<1>1. f \in Bijection(1 .. Len(seq), Items(seq))
  BY DEF Items, Distinct, Bijection, Injection, IsInjective, Surjection
<1>2. ExistsBijection(1 .. Len(seq), Items(seq)) /\ Len(seq) \in Nat
  BY <1>1 DEF ExistsBijection
<1> QED BY <1>2, FS_CountingElements

-----------------------------------------------------------------------------
(* The timers and ProcessTimers().                                         *)

TimerTypes ==
    /\ now \in 0 .. MaxTime
    /\ list \in Seq(Timers)
    /\ alive \subseteq Timers /\ enabled \subseteq Timers /\ once \subseteq Timers
    /\ period \in [Timers -> Periods \cup {0}]
    /\ expireTime \in [Timers -> Nat]
    /\ timerStopped \in BOOLEAN
    /\ tpc \in {"idle", "scan", "invoke"}
    /\ batch \in Seq(Timers) /\ Len(batch) <= BatchSize /\ full \in BOOLEAN
    /\ startTime \in [Timers -> Nat] /\ fires \in [Timers -> Nat]

\* The numbers of a timer.
LEMMA TimerNumbers ==
    ASSUME TimerTypes, NEW t \in Timers
    PROVE  /\ now \in Nat /\ expireTime[t] \in Nat /\ period[t] \in Nat
           /\ startTime[t] \in Nat /\ fires[t] \in Nat
<1>1. period[t] \in Periods \cup {0} /\ Periods \cup {0} \subseteq Nat
  BY TimerAssumption DEF TimerTypes
<1>2. now \in Nat /\ expireTime[t] \in Nat /\ startTime[t] \in Nat /\ fires[t] \in Nat
  BY TimerAssumption DEF TimerTypes
<1> QED BY <1>1, <1>2

\* The list has every timer that can expire, once, and no destroyed one.
ListInv ==
    /\ Items(list) \subseteq alive /\ enabled \subseteq Items(list)
    /\ Distinct(list)
    /\ NodeTimer \in alive

\* The next expiration of a running timer leaves room for one more period since
\* its start, in addition to those that have passed; those are over by now.
RateOK(t) ==
    /\ startTime[t] + fires[t] * period[t] <= now
    /\ t \in enabled => startTime[t] + fires[t] * period[t] + period[t] <= expireTime[t]
    /\ t \in once => fires[t] = 0 \/ (fires[t] = 1 /\ t \notin enabled)

RateInv == \A t \in Timers : RateOK(t)

\* What was due is still due, until a pass that is not full has taken the rest.
DueInv ==
    /\ due \subseteq enabled /\ \A t \in due : expireTime[t] <= now
    /\ tpc = "idle" \/ (tpc = "invoke" /\ ~full) => due = {}

TimerInv == TimerTypes /\ ListInv /\ RateInv /\ DueInv

\* A step starts, stops or destroys a timer, or belongs to the clock or to
\* ProcessTimers(), or leaves the timers alone.
LEMMA TimerSteps ==
    ASSUME ListInv, [Next]_vars
    PROVE  \/ \E t \in alive \cap Timers :
                 /\ UNCHANGED <<now, processVars>>
                 /\ \/ \E p \in Periods, isOnce \in BOOLEAN : Start(t, p, isOnce)
                    \/ Stop(t)
                    \/ t # NodeTimer /\ Destroy(t)
           \/ Tick \/ Call \/ Scan \/ Invoke \/ EndPass
           \/ UNCHANGED <<now, timerVars, processVars, historyVars>>
<1>1. NodeTimer \in alive \cap Timers
  BY TimerAssumption DEF ListInv
<1>2. CASE UNCHANGED vars
  BY <1>2 DEF vars
<1>3. ASSUME NEW t \in Timers, UserStart(t) \/ UserStop(t) \/ UserDestroy(t)
      PROVE  /\ t \in alive /\ UNCHANGED <<now, processVars>>
             /\ \/ \E p \in Periods, isOnce \in BOOLEAN : Start(t, p, isOnce)
                \/ Stop(t)
                \/ t # NodeTimer /\ Destroy(t)
  BY <1>3 DEF UserStart, UserStop, UserDestroy
<1>4. CASE NodeStart
  <2>1. /\ UNCHANGED <<now, processVars>>
        /\ \E p \in Periods, isOnce \in BOOLEAN : Start(NodeTimer, p, isOnce)
    BY <1>4 DEF NodeStart
  <2> QED BY <1>1, <2>1
<1>5. CASE NodeStop
  BY <1>1, <1>5 DEF NodeStop
<1>6. CASE RunTick \/ EndTick \/ NodeExit \/ NodeJoined \/ NodeDisconnect
  BY <1>6 DEF RunTick, EndTick, NodeExit, NodeJoined, NodeDisconnect
<1> QED BY <1>2, <1>3, <1>4, <1>5, <1>6 DEF Next

\* What one pass of ProcessTimers() does to the list and takes from it.
LEMMA ScanItems ==
    ASSUME TimerTypes, ListInv, Scan
    PROVE  /\ list' \in Seq(Timers) /\ Distinct(list')
           /\ enabled \subseteq Items(list') /\ Items(list') \subseteq Items(list)
           /\ batch' \in Seq(Timers) /\ Len(batch') <= BatchSize
           /\ \A t \in Items(batch') : t \in Timers /\ Expired(t)
           /\ ~full' => \A t \in enabled : Expired(t) => t \in Items(batch')
<1> DEFINE expired == {t \in Timers : Expired(t)}
<1>1. list \in Seq(Timers) /\ Distinct(list) /\ enabled \subseteq Items(list) /\ enabled \subseteq Timers
  BY DEF TimerTypes, ListInv
<1>2. /\ Unlinked \in Seq(Timers) /\ Distinct(Unlinked)
      /\ enabled \subseteq Items(Unlinked) /\ Items(Unlinked) \subseteq Items(list)
  <2>1. /\ Keep(list, enabled) \in Seq(Timers) /\ Distinct(Keep(list, enabled))
        /\ Items(Keep(list, enabled)) = Items(list) \cap enabled
    BY <1>1, KeepItems
  <2> QED BY <1>1, <2>1 DEF Unlinked
<1>3. /\ Keep(Unlinked, expired) \in Seq(Timers)
      /\ Items(Keep(Unlinked, expired)) = Items(Unlinked) \cap expired
  <2> HIDE DEF expired
  <2> QED BY <1>2, KeepItems
<1>4. batch' = Batch(Keep(Unlinked, expired)) /\ list' = Unlinked /\ full' = (Len(batch') = BatchSize)
  BY DEF Scan
<1> HIDE DEF expired
<1>5. /\ batch' \in Seq(Timers) /\ Len(batch') <= BatchSize
      /\ Items(batch') \subseteq Items(Unlinked) \cap expired
      /\ ~full' => Items(batch') = Items(Unlinked) \cap expired
  BY <1>3, <1>4, BatchItems
<1>6. \A t : t \in expired <=> t \in Timers /\ Expired(t)
  BY DEF expired
<1> QED BY <1>1, <1>2, <1>4, <1>5, <1>6

\* The names of the timers that a pass takes.
Fired == {batch[i] : i \in 1 .. Len(batch)}

\* What else a pass does.
LEMMA ScanEffect ==
    ASSUME Scan
    PROVE  /\ Fired' = Items(batch')
           /\ enabled' = enabled \ (Fired' \cap once)
           /\ timerStopped' \in BOOLEAN
           /\ expireTime' = [t \in Timers |-> IF t \in Fired' \ once THEN NextExpiration(t)
                                              ELSE expireTime[t]]
           /\ fires' = [t \in Timers |-> IF t \in Fired' THEN fires[t] + 1 ELSE fires[t]]
           /\ due' = due \ Fired' /\ full' \in BOOLEAN
           /\ tpc' = "invoke"
           /\ UNCHANGED <<now, alive, once, period, startTime>>
  BY DEF Scan, Fired, Items

\* Every timer variable keeps its type.
LEMMA TimerTypesStep ==
    ASSUME TimerTypes, ListInv, [Next]_vars PROVE TimerTypes'
<1>1. /\ Periods \subseteq Nat \ {0} /\ MaxTime \in Nat /\ BatchSize \in Nat
      /\ now \in Nat
  BY TimerAssumption DEF TimerTypes
<1> USE <1>1 DEF processVars
<1>2. ASSUME NEW t \in Timers, NEW p \in Periods, NEW isOnce \in BOOLEAN, Start(t, p, isOnce),
             UNCHANGED <<now, processVars>>
      PROVE  TimerTypes'
  <2>1. list' \in Seq(Timers)
    BY <1>2, FrontItems DEF Start, LinkFront, TimerTypes
  <2>2. expireTime' \in [Timers -> Nat] /\ period' \in [Timers -> Periods \cup {0}]
    <3>1. now + p \in Nat
      OBVIOUS
    <3> QED BY <1>2, <3>1 DEF Start, TimerTypes
  <2>3. startTime' \in [Timers -> Nat] /\ fires' \in [Timers -> Nat]
    BY <1>2 DEF Start, TimerTypes
  <2> QED BY <1>2, <2>1, <2>2, <2>3 DEF Start, TimerTypes
<1>3. ASSUME NEW t \in Timers, Stop(t), UNCHANGED <<now, processVars>> PROVE TimerTypes'
  BY <1>3 DEF Stop, TimerTypes
<1>4. ASSUME NEW t \in Timers, Destroy(t), UNCHANGED <<now, processVars>> PROVE TimerTypes'
  <2>1. list' \in Seq(Timers)
    BY <1>4, KeepItems DEF Destroy, TimerTypes
  <2> QED BY <1>4, <2>1 DEF Destroy, TimerTypes
<1>5. CASE Tick
  BY <1>5 DEF Tick, TimerTypes, timerVars, historyVars
<1>6. CASE Call
  BY <1>6 DEF Call, TimerTypes, timerVars
<1>7. CASE Scan
  <2>1. expireTime' \in [Timers -> Nat]
    <3>1. \A t \in Timers : expireTime[t] \in Nat /\ period[t] \in Nat
      BY TimerNumbers
    <3>2. \A t \in Timers : NextExpiration(t) \in Nat
      BY <3>1 DEF NextExpiration
    <3> QED BY <1>7, <3>1, <3>2, ScanEffect
  <2>2. fires' \in [Timers -> Nat]
    BY <1>7, ScanEffect DEF TimerTypes
  <2> QED BY <1>7, <2>1, <2>2, ScanItems, ScanEffect DEF TimerTypes
<1>8. CASE Invoke
  <2>1. batch' \in Seq(Timers) /\ Len(batch') <= BatchSize
    <3>1. batch \in Seq(Timers) /\ batch # <<>> /\ Len(batch) <= BatchSize /\ batch' = Tail(batch)
      BY <1>8 DEF Invoke, TimerTypes
    <3>2. Tail(batch) \in Seq(Timers) /\ Len(Tail(batch)) = Len(batch) - 1 /\ Len(batch) \in Nat
      BY <3>1, TailItems
    <3> QED BY <3>1, <3>2
  <2> QED BY <1>8, <2>1 DEF Invoke, TimerTypes, timerVars, historyVars
<1>9. CASE EndPass
  BY <1>9 DEF EndPass, TimerTypes, timerVars, historyVars
<1>10. CASE UNCHANGED <<now, timerVars, processVars, historyVars>>
  BY <1>10 DEF TimerTypes, timerVars, historyVars
<1> QED BY <1>2, <1>3, <1>4, <1>5, <1>6, <1>7, <1>8, <1>9, <1>10, TimerSteps

\* The list keeps what can expire and loses what is destroyed.
LEMMA ListStep ==
    ASSUME TimerTypes, ListInv, [Next]_vars PROVE ListInv'
<1>1. list \in Seq(Timers) /\ enabled \subseteq Timers
  BY DEF TimerTypes
<1>2. ASSUME NEW t \in alive \cap Timers, NEW p \in Periods, NEW isOnce \in BOOLEAN, Start(t, p, isOnce)
      PROVE  ListInv'
  <2>1. Items(LinkFront(t)) = Items(list) \cup {t} /\ Distinct(LinkFront(t))
    <3>1. Linked = Items(list)
      BY DEF Linked, Items
    <3>2. CASE t \in Linked
      BY <3>1, <3>2 DEF LinkFront, ListInv
    <3>3. CASE t \notin Linked
      BY <1>1, <3>1, <3>3, FrontItems DEF LinkFront, ListInv
    <3> QED BY <3>2, <3>3
  <2>2. list' = LinkFront(t) /\ enabled' = enabled \cup {t} /\ alive' = alive
    BY <1>2 DEF Start
  <2> QED BY <2>1, <2>2 DEF ListInv
<1>3. ASSUME NEW t \in Timers, Stop(t) PROVE ListInv'
  BY <1>3 DEF Stop, ListInv
<1>4. ASSUME NEW t \in Timers, t # NodeTimer, Destroy(t) PROVE ListInv'
  <2>1. /\ Items(Keep(list, Timers \ {t})) = Items(list) \cap (Timers \ {t})
        /\ Distinct(Keep(list, Timers \ {t}))
    BY <1>1, KeepItems DEF ListInv
  <2>2. list' = Keep(list, Timers \ {t}) /\ enabled' = enabled \ {t} /\ alive' = alive \ {t}
    BY <1>4 DEF Destroy
  <2> QED BY <1>1, <1>4, <2>1, <2>2 DEF ListInv
<1>5. CASE Scan
  BY <1>5, ScanItems, ScanEffect DEF ListInv
<1>6. CASE UNCHANGED <<list, alive, enabled>>
  BY <1>6 DEF ListInv
<1> QED
  BY <1>2, <1>3, <1>4, <1>5, <1>6, TimerSteps DEF Tick, Call, Invoke, EndPass, timerVars

\* Nothing RateOK speaks of changes, or only the clock.
LEMMA SameRate ==
    ASSUME TimerTypes, NEW t \in Timers, RateOK(t), now' = now \/ now' = now + 1,
           startTime'[t] = startTime[t], fires'[t] = fires[t], period'[t] = period[t],
           expireTime'[t] = expireTime[t],
           t \in once' <=> t \in once, t \in enabled' => t \in enabled
    PROVE  RateOK(t)'
<1> DEFINE spent == startTime[t] + fires[t] * period[t]
<1>1. spent <= now /\ spent \in Nat /\ now \in Nat
  <2>1. fires[t] * period[t] \in Nat
    BY TimerNumbers
  <2> QED BY <2>1, TimerNumbers DEF RateOK
<1>2. (startTime[t] + fires[t] * period[t])' = spent
  OBVIOUS
<1>3. spent <= now'
  <2> HIDE DEF spent
  <2> QED BY <1>1
<1> QED BY <1>2, <1>3 DEF RateOK

\* A timer that is started has its whole period before it.
LEMMA StartRate ==
    ASSUME TimerTypes, NEW t \in Timers, NEW p \in Periods, NEW isOnce \in BOOLEAN,
           Start(t, p, isOnce), now' = now
    PROVE  RateOK(t)'
<1>1. now \in Nat /\ p \in Nat /\ now + p \in Nat
  BY TimerAssumption, TimerNumbers
<1>2. /\ startTime'[t] = now /\ fires'[t] = 0 /\ period'[t] = p /\ expireTime'[t] = now + p
  BY DEF Start, TimerTypes
<1>3. 0 * p = 0 /\ now + 0 <= now /\ now + 0 + p <= now + p
  BY <1>1
<1> QED BY <1>2, <1>3 DEF RateOK

\* An expiration uses up one period that was over, and leaves one.
LEMMA FiredRate ==
    ASSUME TimerTypes, Scan, NEW t \in Timers, RateOK(t), t \in Fired', Expired(t)
    PROVE  RateOK(t)'
<1> DEFINE spent == startTime[t] + fires[t] * period[t]
<1>1. /\ spent + period[t] <= expireTime[t] /\ expireTime[t] <= now
      /\ spent \in Nat /\ now \in Nat /\ period[t] \in Nat /\ expireTime[t] \in Nat
      /\ t \in once => fires[t] = 0
  <2>1. fires[t] * period[t] \in Nat
    BY TimerNumbers
  <2> QED BY <2>1, TimerNumbers DEF RateOK, Expired
<1>2. /\ fires'[t] = fires[t] + 1 /\ period'[t] = period[t] /\ startTime'[t] = startTime[t]
      /\ now' = now
      /\ expireTime'[t] = IF t \in once THEN expireTime[t] ELSE NextExpiration(t)
      /\ t \in once' <=> t \in once
      /\ t \in once => t \notin enabled'
  BY ScanEffect
<1>3. (startTime[t] + fires[t] * period[t])' = spent + period[t]
  <2>1. (fires[t] + 1) * period[t] = fires[t] * period[t] + period[t]
    BY TimerNumbers
  <2>2. startTime[t] + (fires[t] * period[t] + period[t]) = spent + period[t]
    BY TimerNumbers
  <2> QED BY <1>2, <2>1, <2>2
<1> HIDE DEF spent
<1>4. spent + period[t] <= now
  BY <1>1
<1>5. t \notin once => spent + period[t] + period[t] <= expireTime'[t]
  BY <1>1, <1>2 DEF NextExpiration
<1>6. t \in once' => fires'[t] = 1 /\ t \notin enabled'
  BY <1>1, <1>2
<1> QED BY <1>2, <1>3, <1>4, <1>5, <1>6 DEF RateOK

\* No step lets a timer expire early.
LEMMA RateStep ==
    ASSUME TimerTypes, ListInv, RateInv, [Next]_vars PROVE RateInv'
<1> SUFFICES ASSUME NEW t \in Timers PROVE RateOK(t)'
  BY DEF RateInv
<1>1. RateOK(t)
  BY DEF RateInv
<1>2. ASSUME NEW u \in Timers, NEW p \in Periods, NEW isOnce \in BOOLEAN, Start(u, p, isOnce),
             UNCHANGED <<now, processVars>>
      PROVE  RateOK(t)'
  <2>1. CASE u = t
    BY <1>2, <2>1, StartRate
  <2>2. CASE u # t
    BY <1>1, <1>2, <2>2, SameRate DEF Start, TimerTypes
  <2> QED BY <2>1, <2>2
<1>3. ASSUME NEW u \in Timers, Stop(u) \/ Destroy(u), UNCHANGED <<now, processVars>>
      PROVE  RateOK(t)'
  BY <1>1, <1>3, SameRate DEF Stop, Destroy
<1>4. CASE Scan
  <2>1. CASE t \in Fired'
    BY <1>1, <1>4, <2>1, FiredRate, ScanItems, ScanEffect
  <2>2. CASE t \notin Fired'
    BY <1>1, <1>4, <2>2, SameRate, ScanEffect
  <2> QED BY <2>1, <2>2
<1>5. CASE Tick
  BY <1>1, <1>5, SameRate DEF Tick, timerVars, historyVars
<1>6. CASE Call \/ Invoke \/ EndPass \/ UNCHANGED <<now, timerVars, processVars, historyVars>>
  BY <1>1, <1>6, SameRate DEF Call, Invoke, EndPass, timerVars, historyVars
<1> QED BY <1>2, <1>3, <1>4, <1>5, <1>6, TimerSteps

\* What a call finds due is taken, or the call goes on.
LEMMA DueStep ==
    ASSUME TimerTypes, ListInv, DueInv, [Next]_vars PROVE DueInv'
<1>1. ASSUME NEW t \in Timers, NEW p \in Periods, NEW isOnce \in BOOLEAN, Start(t, p, isOnce),
             UNCHANGED <<now, processVars>>
      PROVE  DueInv'
  BY <1>1 DEF Start, DueInv, TimerTypes, processVars
<1>2. ASSUME NEW t \in Timers, Stop(t) \/ Destroy(t), UNCHANGED <<now, processVars>>
      PROVE  DueInv'
  BY <1>2 DEF Stop, Destroy, DueInv, processVars
<1>3. CASE Tick
  <2>1. now \in Nat /\ now' = now + 1 /\ \A t \in due : expireTime[t] \in Nat
    BY <1>3, TimerAssumption DEF Tick, TimerTypes, DueInv
  <2>2. \A t \in due : expireTime[t] <= now'
    BY <2>1 DEF DueInv
  <2> QED BY <1>3, <2>2 DEF Tick, DueInv, timerVars, processVars, historyVars
<1>4. CASE Call
  BY <1>4 DEF Call, DueInv, Expired, timerVars
<1>5. CASE Scan
  <2>1. due' = due \ Fired' /\ tpc' = "invoke" /\ now' = now /\ enabled \ Fired' \subseteq enabled'
    BY <1>5, ScanEffect
  <2>2. \A t \in due' : t \in enabled' /\ expireTime'[t] <= now'
    BY <1>5, <2>1, ScanEffect DEF DueInv, TimerTypes
  <2>3. ~full' => due' = {}
    <3>1. \A t \in due : t \in enabled /\ Expired(t)
      BY DEF DueInv, Expired, TimerTypes
    <3> QED BY <1>5, <2>1, <3>1, ScanItems, ScanEffect
  <2> QED BY <2>1, <2>2, <2>3 DEF DueInv
<1>6. CASE Invoke
  BY <1>6 DEF Invoke, DueInv, timerVars, historyVars
<1>7. CASE EndPass
  BY <1>7 DEF EndPass, Again, DueInv, timerVars, historyVars
<1>8. CASE UNCHANGED <<now, timerVars, processVars, historyVars>>
  BY <1>8 DEF DueInv, timerVars, processVars, historyVars
<1> QED BY <1>1, <1>2, <1>3, <1>4, <1>5, <1>6, <1>7, <1>8, TimerSteps

\* The timers start unlinked, the clock at zero.
LEMMA TimerInit == Init => TimerInv
<1> SUFFICES ASSUME Init PROVE TimerInv
  OBVIOUS
<1>1. /\ 0 \in 0 .. MaxTime /\ BatchSize \in Nat /\ NodeTimer \in Timers
      /\ <<>> \in Seq(Timers) /\ Len(<<>>) = 0
  BY TimerAssumption
<1>2. TimerTypes
  <2>1. /\ period \in [Timers -> Periods \cup {0}] /\ expireTime \in [Timers -> Nat]
        /\ startTime \in [Timers -> Nat] /\ fires \in [Timers -> Nat]
    BY DEF Init
  <2>2. batch \in Seq(Timers) /\ Len(batch) <= BatchSize
    BY <1>1 DEF Init
  <2> QED BY <1>1, <2>1, <2>2 DEF Init, TimerTypes
<1>3. ListInv
  <2>1. list = <<>> /\ enabled = {} /\ alive = Timers
    BY DEF Init
  <2>2. 1 .. Len(list) = {}
    BY <2>1
  <2>3. Items(list) = {} /\ Distinct(list)
    BY <2>2, Zenon DEF Items, Distinct
  <2> QED BY <1>1, <2>1, <2>3 DEF ListInv
<1>4. RateInv
  BY DEF Init, RateInv, RateOK
<1>5. DueInv
  BY DEF Init, DueInv
<1> QED BY <1>2, <1>3, <1>4, <1>5 DEF TimerInv

\* Every step keeps TimerInv.
LEMMA TimerInvStep == TimerInv /\ [Next]_vars => TimerInv'
  BY TimerTypesStep, ListStep, RateStep, DueStep DEF TimerInv

\* TimerInv holds in every reachable state.
LEMMA TimerInvariance == Spec => []TimerInv
  BY TimerInit, TimerInvStep, PTL DEF Spec

\* Type correctness: every variable keeps its type, the intrusive list links each
\* timer at most once, and it never links a destroyed one.
THEOREM TypeCorrect == Spec => []TypeOK
<1>1. TimerInv /\ NodeInv => TypeOK
  <2> SUFFICES ASSUME TimerInv, NodeInv PROVE TypeOK
    OBVIOUS
  <2>1. Linked = Items(list)
    BY DEF Linked, Items
  <2>2. Linked \subseteq alive /\ Cardinality(Linked) = Len(list)
    BY <2>1, DistinctCount DEF TimerInv, TimerTypes, ListInv
  <2>3. due \subseteq alive
    BY DEF TimerInv, DueInv, ListInv
  <2> QED BY <2>2, <2>3, Zenon DEF TimerInv, TimerTypes, NodeInv, TypeOK
<1> QED BY <1>1, Invariance, TimerInvariance, PTL

\* CheckExpired() adds a timeout to the expiration, or starts from now when it is
\* behind: a timer never expires more often than its timeout allows since its last
\* Start(), and a one-shot expires once.
THEOREM NeverTooOften == Spec => []RateBound
<1>1. TimerInv => RateBound
  <2> SUFFICES ASSUME TimerInv, NEW t \in Timers
               PROVE  /\ fires[t] * period[t] <= now - startTime[t]
                      /\ t \in once => fires[t] <= 1
    BY DEF RateBound
  <2>1. RateOK(t) /\ now \in Nat /\ startTime[t] \in Nat /\ fires[t] \in Nat /\ period[t] \in Nat
    BY TimerNumbers DEF TimerInv, RateInv
  <2>2. fires[t] * period[t] <= now - startTime[t]
    <3> DEFINE spent == fires[t] * period[t]
    <3>1. spent \in Nat /\ startTime[t] + spent <= now
      BY <2>1 DEF RateOK
    <3> HIDE DEF spent
    <3>2. spent <= now - startTime[t]
      BY <2>1, <3>1
    <3> QED BY <3>2 DEF spent
  <2>3. t \in once => fires[t] <= 1
    BY <2>1 DEF RateOK
  <2> QED BY <2>2, <2>3
<1> QED BY <1>1, TimerInvariance, PTL

\* ProcessTimers() repeats its pass while the batch was full: when it returns, each
\* timer that was due when it was called, and left alone since, had its turn, for
\* any number of timers and any MAX_TIMER_EXPIRED.
THEOREM NoneLeftBehind == Spec => []DrainedOnReturn
<1>1. TimerInv => DrainedOnReturn
  BY DEF TimerInv, DueInv, DrainedOnReturn
<1> QED BY <1>1, TimerInvariance, PTL
=============================================================================
