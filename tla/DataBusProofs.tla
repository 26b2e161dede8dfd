--------------------------- MODULE DataBusProofs ---------------------------
(***************************************************************************)
(* Proofs about DataBus, for any publishers and subscribers, any number of *)
(* messages and any sequence numbers wide enough for them.                 *)
(***************************************************************************)
EXTENDS DataBus, SequenceTheorems, TLAPS

\* A topic has a Signal as soon as one of its subscribers is past its first
\* critical section.
SignalInv == \A s \in Subscribers : sub[s].pc # "create" => hasSignal

\* A publisher inside Publish() has a message.
PublisherInv == \A p \in Publishers : pub[p].pc # "idle" => pub[p].msg \in Published

\* Publisher p will still offer its message to subscriber s.
Owes(p, s) ==
    \/ pub[p].pc = "snapshot"
    \/ pub[p].pc = "invoke" /\ \E i \in 1 .. Len(pub[p].targets) : pub[p].targets[i] = s

\* Message m has reached subscriber s or its worker thread's queue, or that thread
\* has refused it.
Offered(m, s) ==
    \/ m \in handled[s]
    \/ s \in AsyncSubscribers /\ m \in refused[s]
    \/ s \in AsyncSubscribers /\ \E i \in 1 .. Len(inbox[s]) : inbox[s][i] = m

\* Where the cached value is, for a subscriber that has taken its copy and has
\* not left.
OnItsWay(s) ==
    \/ sub[s].pc = "deliver" /\ sub[s].cached = lastValue
    \/ Offered(lastValue, s)
    \/ \E p \in Publishers : pub[p].msg = lastValue /\ Owes(p, s)

DeliveryInv ==
    \A s \in LvcSubscribers :
        lastValue # None /\ sub[s].pc \in {"deliver", "live"} => OnItsWay(s)

Latest(seq) == seq[Len(seq)]

Increasing(seq) == \A i \in 1 .. Len(seq) - 1 : seq[i] < seq[i + 1]

\* A guard holds the stamp of the latest message it let through, which no
\* message it has been asked about exceeds.
GuardInv ==
    \A s \in AsyncSubscribers :
        /\ guard[s].first <=> accepted[s] = <<>>
        /\ accepted[s] = <<>> => handled[s] = {}
        /\ accepted[s] # <<>> =>
              /\ guard[s].last = Stamp(Latest(accepted[s]))
              /\ \A m \in handled[s] : m <= Latest(accepted[s])
        /\ Increasing(accepted[s])

\* The inductive invariant.
IInv == TypeOK /\ SignalInv /\ PublisherInv /\ DeliveryInv /\ GuardInv

-----------------------------------------------------------------------------
(* Sequences and sequence numbers.                                         *)

\* A sequence of messages stays one when more messages have been published.
LEMMA SeqGrows ==
    ASSUME NEW S, NEW T, S \subseteq T, NEW seq \in Seq(S)
    PROVE  seq \in Seq(T)
  OBVIOUS

\* What is in a list after an Append.
LEMMA AppendHolds ==
    ASSUME NEW S, NEW seq \in Seq(S), NEW e \in S, NEW x
    PROVE  /\ Append(seq, e) \in Seq(S)
           /\ (\E i \in 1 .. Len(Append(seq, e)) : Append(seq, e)[i] = x)
                 <=> x = e \/ \E i \in 1 .. Len(seq) : seq[i] = x
<1>1. /\ Append(seq, e) \in Seq(S)
      /\ Len(Append(seq, e)) = Len(seq) + 1
      /\ \A i \in 1 .. Len(seq) : Append(seq, e)[i] = seq[i]
      /\ Append(seq, e)[Len(seq) + 1] = e
  BY AppendProperties
<1>2. Len(seq) \in Nat
  OBVIOUS
<1>3. 1 .. Len(seq) + 1 = 1 .. Len(seq) \cup {Len(seq) + 1}
  BY <1>2
<1> QED
  BY <1>1, <1>2, <1>3, Zenon

\* What is in a list, and what is left behind its head.
LEMMA HeadTailHold ==
    ASSUME NEW S, NEW seq \in Seq(S), seq # <<>>, NEW x
    PROVE  /\ Head(seq) \in S
           /\ Tail(seq) \in Seq(S)
           /\ (\E i \in 1 .. Len(seq) : seq[i] = x)
                 => x = Head(seq) \/ \E i \in 1 .. Len(Tail(seq)) : Tail(seq)[i] = x
<1>1. /\ Head(seq) \in S /\ Head(seq) = seq[1]
      /\ Tail(seq) \in Seq(S)
      /\ Len(Tail(seq)) = Len(seq) - 1
      /\ \A i \in 1 .. Len(seq) - 1 : Tail(seq)[i] = seq[i + 1]
  BY HeadTailProperties
<1>2. ASSUME NEW i \in 1 .. Len(seq), seq[i] = x, i # 1
      PROVE  \E j \in 1 .. Len(Tail(seq)) : Tail(seq)[j] = x
  <2>1. i - 1 \in 1 .. Len(seq) - 1 /\ (i - 1) + 1 = i
    BY <1>2
  <2> QED
    BY <1>1, <1>2, <2>1
<1> QED
  BY <1>1, <1>2

\* The list of slots without the one at index k.
Without(seq, k) == SubSeq(seq, 1, k - 1) \o SubSeq(seq, k + 1, Len(seq))

\* A list without repetitions has no other element less.
LEMMA WithoutHolds ==
    ASSUME NEW S, NEW seq \in Seq(S), NEW k \in 1 .. Len(seq),
           \A i, j \in 1 .. Len(seq) : seq[i] = seq[j] => i = j
    PROVE  /\ Without(seq, k) \in Seq(S)
           /\ \A i, j \in 1 .. Len(Without(seq, k)) :
                 Without(seq, k)[i] = Without(seq, k)[j] => i = j
           /\ \A x : (\E i \in 1 .. Len(Without(seq, k)) : Without(seq, k)[i] = x)
                       <=> x # seq[k] /\ \E i \in 1 .. Len(seq) : seq[i] = x
<1> DEFINE n == Len(seq)
           w == Without(seq, k)
           at(i) == IF i < k THEN i ELSE i + 1
<1>1. n \in Nat /\ k \in Int
  OBVIOUS
<1>2. /\ w \in Seq(S)
      /\ Len(w) = n - 1
      /\ \A i \in 1 .. n - 1 : w[i] = seq[at(i)]
  <2> DEFINE l == SubSeq(seq, 1, k - 1)
             r == SubSeq(seq, k + 1, n)
  <2>1. /\ l \in Seq(S) /\ Len(l) = k - 1
        /\ \A i \in 1 .. k - 1 : l[i] = seq[i]
    BY SubSeqProperties
  <2>2. /\ r \in Seq(S) /\ Len(r) = n - k
        /\ \A i \in 1 .. n - k : r[i] = seq[k + i]
    BY SubSeqProperties
  <2>3. /\ w \in Seq(S) /\ Len(w) = n - 1
        /\ \A i \in 1 .. n - 1 : w[i] = IF i <= k - 1 THEN l[i] ELSE r[i - (k - 1)]
    <3> HIDE DEF l, r
    <3>1. w = l \o r
      BY DEF w, Without, l, r, n
    <3>2. /\ l \o r \in Seq(S) /\ Len(l \o r) = Len(l) + Len(r)
          /\ \A i \in 1 .. Len(l) + Len(r) :
                (l \o r)[i] = IF i <= Len(l) THEN l[i] ELSE r[i - Len(l)]
      <4>1. l \in Seq(S) /\ r \in Seq(S)
        BY <2>1, <2>2
      <4> QED
        BY ONLY <4>1, ConcatProperties
    <3>3. Len(l) + Len(r) = n - 1
      BY <1>1, <2>1, <2>2
    <3> QED
      BY <2>1, <3>1, <3>2, <3>3, Zenon
  <2> HIDE DEF l, r, w
  <2>4. ASSUME NEW i \in 1 .. n - 1 PROVE w[i] = seq[at(i)]
    <3>1. CASE i < k
      BY <1>1, <2>1, <2>3, <3>1
    <3>2. CASE i >= k
      <4>1. i - (k - 1) \in 1 .. n - k /\ k + (i - (k - 1)) = i + 1 /\ ~(i <= k - 1)
        BY <1>1, <3>2
      <4>2. r[i - (k - 1)] = seq[i + 1]
        BY <2>2, <4>1, Zenon
      <4>3. at(i) = i + 1
        BY <1>1, <3>2
      <4> HIDE DEF at
      <4> QED
        BY <2>3, <4>1, <4>2, <4>3, Zenon
    <3> QED
      BY <1>1, <3>1, <3>2
  <2> QED
    BY <2>3, <2>4
<1>3. \A i \in 1 .. n - 1 : at(i) \in 1 .. n /\ at(i) # k
  BY <1>1
<1>4. \A i, j \in 1 .. n - 1 : at(i) = at(j) => i = j
  BY <1>1
<1>5. \A j \in 1 .. n : j # k => \E i \in 1 .. n - 1 : at(i) = j
  <2> SUFFICES ASSUME NEW j \in 1 .. n, j # k
               PROVE  \E i \in 1 .. n - 1 : at(i) = j
    OBVIOUS
  <2>1. CASE j < k
    <3>1. j \in 1 .. n - 1 /\ at(j) = j
      BY <1>1, <2>1
    <3> QED
      BY <3>1
  <2>2. CASE j > k
    <3>1. j - 1 \in 1 .. n - 1 /\ at(j - 1) = j
      BY <1>1, <2>2
    <3> QED
      BY <3>1
  <2> QED
    BY <1>1, <2>1, <2>2
<1> HIDE DEF w, at, n
<1>6. \A i, j \in 1 .. n : seq[i] = seq[j] => i = j
  BY DEF n
<1>7. k \in 1 .. n
  BY DEF n
<1>8. \A i, j \in 1 .. Len(w) : w[i] = w[j] => i = j
  BY <1>2, <1>3, <1>4, <1>6
<1>9. \A x : (\E i \in 1 .. Len(w) : w[i] = x)
             <=> x # seq[k] /\ \E i \in 1 .. n : seq[i] = x
  <2> TAKE x
  <2>1. ASSUME NEW i \in 1 .. Len(w), w[i] = x
        PROVE  x # seq[k] /\ \E j \in 1 .. n : seq[j] = x
    BY <1>2, <1>3, <1>6, <1>7, <2>1
  <2>2. ASSUME x # seq[k], NEW j \in 1 .. n, seq[j] = x
        PROVE  \E i \in 1 .. Len(w) : w[i] = x
    <3>1. PICK i \in 1 .. n - 1 : at(i) = j
      BY <1>5, <2>2
    <3> QED
      BY <1>2, <2>2, <3>1
  <2> QED
    BY <2>1, <2>2
<1> QED
  BY <1>2, <1>8, <1>9 DEF w, n

\* A remainder below one turn.
LEMMA ModOneTurn ==
    ASSUME NEW R \in Nat, R > 0, NEW x \in Int
    PROVE  /\ x % R \in 0 .. R - 1
           /\ 0 <= x /\ x < R => x % R = x
           /\ R <= x /\ x < 2 * R => x % R = x - R
           /\ x < 0 /\ -R <= x => x % R = x + R
<1>1. x % R \in 0 .. R - 1
  OBVIOUS
<1>2. 0 <= x /\ x < R => x % R = x
  OBVIOUS
<1>3. R <= x /\ x < 2 * R => x % R = x - R
  OBVIOUS
<1>4. x < 0 /\ -R <= x => x % R = x + R
  OBVIOUS
<1> QED
  BY <1>1, <1>2, <1>3, <1>4

\* A sequence number is in the range of its type.
LEMMA StampInRange ==
    ASSUME NEW m \in Int PROVE Stamp(m) \in 0 .. RangeOfT - 1
<1>1. RangeOfT \in Nat /\ RangeOfT > 0 /\ Start + m \in Int
  BY RangeAssumption DEF RangeOfT
<1> QED
  BY <1>1, ModOneTurn DEF Stamp

\* While no more messages are under way than half the range has room for, the
\* signed difference of two sequence numbers tells which message is newer,
\* wherever between them the counter rolled over.
LEMMA SignedDiffOrders ==
    ASSUME NEW m \in 1 .. NumMessages, NEW n \in 1 .. NumMessages
    PROVE  SignedDiff(Stamp(m), Stamp(n)) > 0 <=> m > n
<1> DEFINE R == RangeOfT
           a == Stamp(m)
           b == Stamp(n)
<1>1. /\ R \in Nat /\ R > 0 /\ R = 2 * HalfRange
      /\ HalfRange \in Nat /\ NumMessages \in Nat /\ NumMessages <= HalfRange
      /\ Start \in 0 .. R - 1
  BY RangeAssumption DEF RangeOfT
<1>2. /\ a = IF Start + m < R THEN Start + m ELSE Start + m - R
      /\ b = IF Start + n < R THEN Start + n ELSE Start + n - R
  <2>1. 0 <= Start + m /\ Start + m < 2 * R /\ 0 <= Start + n /\ Start + n < 2 * R
    BY <1>1
  <2> QED
    BY <1>1, <2>1, ModOneTurn DEF Stamp
<1>3. a \in 0 .. R - 1 /\ b \in 0 .. R - 1
  BY StampInRange
<1>4. (a - b) % R = IF a - b < 0 THEN a - b + R ELSE a - b
  <2> HIDE DEF a, b, R
  <2>1. a - b \in Int /\ a - b < R /\ -R <= a - b
    BY <1>1, <1>3
  <2> QED
    BY <1>1, <2>1, ModOneTurn
<1>5. SignedDiff(a, b) =
        LET diff == IF a - b < 0 THEN a - b + R ELSE a - b
        IN  IF diff >= HalfRange THEN diff - R ELSE diff
  BY <1>4, Zenon DEF SignedDiff
<1> HIDE DEF a, b, R
<1>6. SignedDiff(a, b) > 0 <=> m > n
  BY <1>1, <1>2, <1>5
<1> QED
  BY <1>6 DEF a, b

-----------------------------------------------------------------------------
(* Type correctness.                                                       *)

\* The process starts in its type.
LEMMA TypeInit == Init => TypeOK
<1> SUFFICES ASSUME Init PROVE TypeOK
  OBVIOUS
<1>1. BusOK
  <2>1. 0 \in 0 .. NumMessages
    BY RangeAssumption
  <2> QED
    BY <2>1, Zenon DEF Init, BusOK
<1>2. CallersOK
  BY DEF Init, CallersOK, IdlePublisher
<1>3. TasksOK
  BY RangeAssumption DEF Init, TasksOK, RangeOfT
<1>4. SlotsAreSubscriptions
  BY DEF Init, SlotsAreSubscriptions
<1> QED
  BY <1>1, <1>2, <1>3, <1>4 DEF TypeOK

\* Messages are numbered upwards and only CallPublish numbers one.
LEMMA DrawnStep ==
    ASSUME TypeOK, [Next]_vars
    PROVE  /\ drawn' \in 0 .. NumMessages
           /\ drawn \in Nat
           /\ Published \subseteq Published'
           /\ Published \subseteq 1 .. NumMessages
<1>1. drawn' = drawn \/ (drawn' = drawn + 1 /\ drawn < NumMessages)
  <2>1. CASE UNCHANGED vars
    BY <2>1 DEF vars
  <2>2. ASSUME NEW p \in Publishers,
               CallPublish(p) \/ Update(p) \/ Snapshot(p) \/ Invoke(p) \/ PublishReturns(p)
        PROVE  drawn' = drawn \/ (drawn' = drawn + 1 /\ drawn < NumMessages)
    BY <2>2 DEF CallPublish, Update, Snapshot, Invoke, PublishReturns
  <2>3. ASSUME NEW s \in Subscribers,
               Create(s) \/ Connect(s) \/ Copy(s) \/ DeliverCached(s) \/ Disconnect(s)
        PROVE  drawn' = drawn
    BY <2>3 DEF Create, Connect, Copy, DeliverCached, Disconnect
  <2>4. ASSUME NEW s \in AsyncSubscribers, Handle(s) PROVE drawn' = drawn
    BY <2>4 DEF Handle
  <2>5. ASSUME NEW enabled \in BOOLEAN, LastValueCache(enabled) PROVE drawn' = drawn
    BY <2>5 DEF LastValueCache
  <2> QED
    BY <2>1, <2>2, <2>3, <2>4, <2>5 DEF Next
<1> QED
  BY <1>1, RangeAssumption DEF TypeOK, BusOK, Published

\* The bus keeps its type.
LEMMA BusStep == ASSUME IInv, [Next]_vars PROVE BusOK'
<1> USE DrawnStep DEF IInv, TypeOK
<1>1. hasSignal' \in BOOLEAN /\ lvcOn' \in BOOLEAN /\ lastValue' \in Published' \cup {None}
  <2>1. CASE UNCHANGED <<hasSignal, lvcOn, lastValue>>
    BY <2>1 DEF BusOK
  <2>2. ASSUME NEW p \in Publishers, Update(p)
        PROVE  hasSignal' \in BOOLEAN /\ lvcOn' \in BOOLEAN
               /\ lastValue' \in Published' \cup {None}
    BY <2>2 DEF BusOK, CallersOK, Update, CacheAfter
  <2>3. ASSUME NEW s \in Subscribers, Create(s)
        PROVE  hasSignal' \in BOOLEAN /\ lvcOn' \in BOOLEAN
               /\ lastValue' \in Published' \cup {None}
    BY <2>3 DEF BusOK, Create
  <2>4. ASSUME NEW enabled \in BOOLEAN, LastValueCache(enabled)
        PROVE  hasSignal' \in BOOLEAN /\ lvcOn' \in BOOLEAN
               /\ lastValue' \in Published' \cup {None}
    BY <2>4 DEF BusOK, LastValueCache
  <2>5. \/ UNCHANGED <<hasSignal, lvcOn, lastValue>>
        \/ \E p \in Publishers : Update(p)
        \/ \E s \in Subscribers : Create(s)
        \/ \E enabled \in BOOLEAN : LastValueCache(enabled)
    BY DEF Next, vars, busVars, CallPublish, Snapshot, Invoke, PublishReturns, Connect, Copy,
           DeliverCached, Disconnect, Handle
  <2> QED
    BY <2>1, <2>2, <2>3, <2>4, <2>5
<1> QED
  BY <1>1 DEF BusOK

\* Two fields of a publisher's record at once.
LEMMA PublisherRecord ==
    ASSUME NEW Places, NEW Values, NEW Lists,
           NEW r \in [pc : Places, msg : Values, targets : Lists],
           NEW place \in Places, NEW value \in Values, NEW list \in Lists
    PROVE  /\ [r EXCEPT !.pc = place, !.msg = value] \in [pc : Places, msg : Values, targets : Lists]
           /\ [r EXCEPT !.pc = place, !.targets = list]
                 \in [pc : Places, msg : Values, targets : Lists]
  OBVIOUS

\* So do the threads inside the bus.
LEMMA CallersStep == ASSUME IInv, [Next]_vars PROVE CallersOK'
<1> USE DEF IInv, TypeOK
<1> DEFINE PubOf(P) == [pc : {"idle", "update", "snapshot", "invoke"},
                        msg : P \cup {None}, targets : Seq(Subscribers)]
           SubOf(P) == [pc : {"create", "connect", "copy", "deliver", "live", "gone"},
                        cached : P \cup {None}]
<1>1. Published \subseteq Published' /\ IdlePublisher \in PubOf(Published')
  BY DrawnStep DEF IdlePublisher
<1>2. /\ pub \in [Publishers -> PubOf(Published')]
      /\ sub \in [Subscribers -> SubOf(Published')]
  BY <1>1 DEF CallersOK
<1>3. pub' \in [Publishers -> PubOf(Published')]
  <2>1. CASE UNCHANGED pub
    BY <1>2, <2>1
  <2>2. ASSUME NEW p \in Publishers, CallPublish(p)
        PROVE  pub' \in [Publishers -> PubOf(Published')]
    <3>1. drawn + 1 \in Published'
      BY <2>2, DrawnStep DEF CallPublish, Published
    <3> DEFINE called == [pub[p] EXCEPT !.pc = "update", !.msg = drawn + 1]
    <3>2. called \in PubOf(Published')
      <4>1. pub[p] \in PubOf(Published') /\ drawn + 1 \in Published' \cup {None}
        BY ONLY <1>2, <3>1
      <4> QED
        BY ONLY <4>1, PublisherRecord
    <3>3. pub' = [pub EXCEPT ![p] = called]
      BY <2>2 DEF CallPublish
    <3> HIDE DEF called, PubOf
    <3> QED
      BY ONLY <1>2, <3>2, <3>3
  <2>3. ASSUME NEW p \in Publishers, Update(p) \/ PublishReturns(p)
        PROVE  pub' \in [Publishers -> PubOf(Published')]
    <3>1. \/ pub' = [pub EXCEPT ![p].pc = "snapshot"]
          \/ pub' = [pub EXCEPT ![p] = IdlePublisher]
      BY <2>3 DEF Update, PublishReturns
    <3>2. CASE pub' = [pub EXCEPT ![p].pc = "snapshot"]
      BY ONLY <1>2, <3>2
    <3>3. CASE pub' = [pub EXCEPT ![p] = IdlePublisher]
      BY <1>1, <1>2, <3>3, Zenon
    <3> QED
      BY <3>1, <3>2, <3>3
  <2>4. ASSUME NEW p \in Publishers, Snapshot(p)
        PROVE  pub' \in [Publishers -> PubOf(Published')]
    <3> DEFINE invoking == [pub[p] EXCEPT !.pc = "invoke", !.targets = slots]
    <3>1. slots \in Seq(Subscribers)
      BY DEF SlotsAreSubscriptions
    <3>2. invoking \in PubOf(Published')
      <4>1. pub[p] \in PubOf(Published')
        BY ONLY <1>2
      <4> QED
        BY ONLY <3>1, <4>1, PublisherRecord
    <3>3. pub' = [pub EXCEPT ![p] = invoking]
      BY <2>4 DEF Snapshot
    <3> HIDE DEF invoking, PubOf
    <3> QED
      BY ONLY <1>2, <3>2, <3>3
  <2>5. ASSUME NEW p \in Publishers, Invoke(p)
        PROVE  pub' \in [Publishers -> PubOf(Published')]
    <3>1. Tail(pub[p].targets) \in Seq(Subscribers)
      BY <1>2, <2>5, HeadTailHold DEF Invoke
    <3>2. pub' = [pub EXCEPT ![p].targets = Tail(pub[p].targets)]
      BY <2>5 DEF Invoke
    <3> QED
      BY ONLY <1>2, <3>1, <3>2
  <2>6. UNCHANGED pub \/ \E p \in Publishers :
            CallPublish(p) \/ Update(p) \/ Snapshot(p) \/ Invoke(p) \/ PublishReturns(p)
    BY DEF Next, vars, Create, Connect, Copy, DeliverCached, Disconnect, Handle, LastValueCache
  <2> QED
    BY <2>1, <2>2, <2>3, <2>4, <2>5, <2>6
<1>4. sub' \in [Subscribers -> SubOf(Published')]
  <2>1. CASE UNCHANGED sub
    BY <1>2, <2>1
  <2>2. ASSUME NEW s \in Subscribers, Create(s) \/ Connect(s) \/ DeliverCached(s)
        PROVE  sub' \in [Subscribers -> SubOf(Published')]
    <3>1. sub' = [sub EXCEPT ![s].pc = StepAfter(@)]
          /\ sub[s].pc \in {"create", "connect", "deliver"}
      BY <2>2 DEF Create, Connect, DeliverCached, Advance
    <3>2. StepAfter(sub[s].pc) \in {"connect", "copy", "live"}
      BY <3>1 DEF StepAfter
    <3> QED
      BY <1>2, <3>1, <3>2
  <2>3. ASSUME NEW s \in Subscribers, Copy(s)
        PROVE  sub' \in [Subscribers -> SubOf(Published')]
    <3>1. Advance(s) = [sub EXCEPT ![s].pc = "deliver"]
      BY <2>3 DEF Copy, Advance, StepAfter
    <3>2. lastValue \in Published' \cup {None}
      BY <1>1 DEF BusOK
    <3>3. \/ sub' = [sub EXCEPT ![s].pc = "deliver"]
          \/ sub' = [[sub EXCEPT ![s].pc = "deliver"] EXCEPT ![s].cached = lastValue]
      BY <2>3, <3>1, Zenon DEF Copy
    <3>4. [sub EXCEPT ![s].pc = "deliver"] \in [Subscribers -> SubOf(Published')]
      BY <1>2
    <3> QED
      BY <3>2, <3>3, <3>4
  <2>4. ASSUME NEW s \in Subscribers, Disconnect(s)
        PROVE  sub' \in [Subscribers -> SubOf(Published')]
    BY <1>2, <2>4 DEF Disconnect
  <2>5. UNCHANGED sub \/ \E s \in Subscribers :
            Create(s) \/ Connect(s) \/ Copy(s) \/ DeliverCached(s) \/ Disconnect(s)
    BY DEF Next, vars, CallPublish, Update, Snapshot, Invoke, PublishReturns, Handle,
           LastValueCache
  <2> QED
    BY <2>1, <2>2, <2>3, <2>4, <2>5
<1> QED
  BY <1>3, <1>4 DEF CallersOK

\* A delivery keeps the types of the queues and of what was handled or refused.
LEMMA DeliverTypes ==
    ASSUME NEW P, NEW s \in Subscribers, NEW m \in P, Deliver(s, m),
           inbox \in [AsyncSubscribers -> Seq(P)], refused \in [AsyncSubscribers -> SUBSET P],
           handled \in [Subscribers -> SUBSET P]
    PROVE  /\ inbox' \in [AsyncSubscribers -> Seq(P)]
           /\ refused' \in [AsyncSubscribers -> SUBSET P]
           /\ handled' \in [Subscribers -> SUBSET P]
<1>1. CASE s \in AsyncSubscribers
  <2>1. Append(inbox[s], m) \in Seq(P)
    BY <1>1
  <2> QED
    BY <1>1, <2>1 DEF Deliver, Dispatch, taskVars
<1>2. CASE s \notin AsyncSubscribers
  BY <1>2 DEF Deliver, queueVars
<1> QED
  BY <1>1, <1>2

\* The queues, the callbacks and the guards keep their types: what is delivered
\* was published.
LEMMA TasksStep == ASSUME IInv, [Next]_vars PROVE TasksOK'
<1> USE DEF IInv, TypeOK
<1> DEFINE P == Published'
           GuardOf == [first : BOOLEAN, last : 0 .. RangeOfT - 1]
<1>1. /\ Published \subseteq P
      /\ P \subseteq Int
  BY DrawnStep DEF Published
<1>2. /\ inbox \in [AsyncSubscribers -> Seq(P)] /\ refused \in [AsyncSubscribers -> SUBSET P]
      /\ handled \in [Subscribers -> SUBSET P]
      /\ guard \in [AsyncSubscribers -> GuardOf] /\ accepted \in [AsyncSubscribers -> Seq(P)]
  BY <1>1, SeqGrows DEF TasksOK
<1> HIDE DEF P, GuardOf
<1>3. /\ inbox' \in [AsyncSubscribers -> Seq(P)] /\ refused' \in [AsyncSubscribers -> SUBSET P]
      /\ handled' \in [Subscribers -> SUBSET P]
      /\ guard' \in [AsyncSubscribers -> GuardOf] /\ accepted' \in [AsyncSubscribers -> Seq(P)]
  <2>1. CASE UNCHANGED <<queueVars, taskVars>>
    BY <1>2, <2>1 DEF taskVars, queueVars
  <2>2. ASSUME NEW s \in Subscribers, NEW m \in P, Deliver(s, m), UNCHANGED <<guard, accepted>>
        PROVE  /\ inbox' \in [AsyncSubscribers -> Seq(P)] /\ refused' \in [AsyncSubscribers -> SUBSET P]
               /\ handled' \in [Subscribers -> SUBSET P]
               /\ guard' \in [AsyncSubscribers -> GuardOf] /\ accepted' \in [AsyncSubscribers -> Seq(P)]
    BY <1>2, <2>2, DeliverTypes
  <2>3. ASSUME NEW p \in Publishers, Invoke(p)
        PROVE  \E s \in Subscribers : \E m \in P : Deliver(s, m)
    <3>1. pub[p].targets \in Seq(Subscribers) /\ pub[p].targets # <<>> /\ pub[p].msg \in Published
      BY <2>3 DEF Invoke, CallersOK, PublisherInv
    <3> QED
      BY <1>1, <2>3, <3>1, HeadTailHold DEF Invoke
  <2>4. ASSUME NEW s \in Subscribers, DeliverCached(s), sub[s].cached # None
        PROVE  \E m \in P : Deliver(s, m)
    BY <1>1, <2>4 DEF DeliverCached, CallersOK
  <2>5. ASSUME NEW s \in AsyncSubscribers, Handle(s)
        PROVE  /\ inbox' \in [AsyncSubscribers -> Seq(P)] /\ refused' \in [AsyncSubscribers -> SUBSET P]
               /\ handled' \in [Subscribers -> SUBSET P]
               /\ guard' \in [AsyncSubscribers -> GuardOf] /\ accepted' \in [AsyncSubscribers -> Seq(P)]
    <3> DEFINE m == Head(inbox[s])
    <3>1. m \in P /\ Tail(inbox[s]) \in Seq(P)
      BY <1>2, <2>5, HeadTailHold DEF Handle
    <3> HIDE DEF m
    <3>2. Stamp(m) \in 0 .. RangeOfT - 1 /\ Append(accepted[s], m) \in Seq(P)
      <4>1. m \in Int
        BY <1>1, <3>1
      <4>2. Stamp(m) \in 0 .. RangeOfT - 1
        BY <4>1, StampInRange
      <4>3. Append(accepted[s], m) \in Seq(P)
        BY <1>2, <3>1, AppendProperties
      <4> QED
        BY <4>2, <4>3
    <3>3. /\ inbox' = [inbox EXCEPT ![s] = Tail(@)]
          /\ handled' = [handled EXCEPT ![s] = @ \cup {m}]
          /\ refused' = refused
          /\ Guarded(s, m)
      BY <2>5 DEF Handle, m
    <3>4. /\ inbox' \in [AsyncSubscribers -> Seq(P)] /\ refused' \in [AsyncSubscribers -> SUBSET P]
          /\ handled' \in [Subscribers -> SUBSET P]
      BY <1>2, <3>1, <3>3
    <3>5. guard' \in [AsyncSubscribers -> GuardOf] /\ accepted' \in [AsyncSubscribers -> Seq(P)]
      <4>1. CASE UNCHANGED <<guard, accepted>>
        BY <1>2, <4>1
      <4>2. CASE /\ guard' = [guard EXCEPT ![s] = [first |-> FALSE, last |-> Stamp(m)]]
                 /\ accepted' = [accepted EXCEPT ![s] = Append(@, m)]
        <5>1. [first |-> FALSE, last |-> Stamp(m)] \in GuardOf
          BY <3>2 DEF GuardOf
        <5> QED
          BY <1>2, <3>2, <4>2, <5>1
      <4> QED
        BY <3>3, <4>1, <4>2 DEF Guarded
    <3> QED
      BY <3>4, <3>5
  <2>6. \/ UNCHANGED <<queueVars, taskVars>>
        \/ \E s \in Subscribers : \E m \in P : Deliver(s, m) /\ UNCHANGED <<guard, accepted>>
        \/ \E s \in AsyncSubscribers : Handle(s)
    <3>1. \A s, m : Deliver(s, m) => UNCHANGED <<guard, accepted>>
      BY DEF Deliver, taskVars, queueVars
    <3>2. \/ UNCHANGED <<queueVars, taskVars>>
          \/ \E p \in Publishers : Invoke(p)
          \/ \E s \in Subscribers : DeliverCached(s) /\ sub[s].cached # None
          \/ \E s \in AsyncSubscribers : Handle(s)
      BY DEF Next, vars, taskVars, queueVars, CallPublish, Update, Snapshot, PublishReturns,
             Create, Connect, Copy, DeliverCached, Disconnect, LastValueCache
    <3> QED
      BY <2>3, <2>4, <3>1, <3>2
  <2> QED
    BY <2>1, <2>2, <2>5, <2>6
<1> QED
  BY <1>3 DEF TasksOK, P, GuardOf

\* Connect and Disconnect keep the list of slots equal to the subscriptions.
LEMMA SlotsStep == ASSUME IInv, [Next]_vars PROVE SlotsAreSubscriptions'
<1> USE DEF IInv, TypeOK
<1> DEFINE Connected == {"copy", "deliver", "live"}
           In(x) == \E i \in 1 .. Len(slots) : slots[i] = x
<1>1. /\ slots \in Seq(Subscribers)
      /\ \A i, j \in 1 .. Len(slots) : slots[i] = slots[j] => i = j
      /\ \A s \in Subscribers : In(s) <=> sub[s].pc \in Connected
  BY DEF SlotsAreSubscriptions
<1>2. ASSUME UNCHANGED slots,
             \A s \in Subscribers : sub'[s].pc \in Connected <=> sub[s].pc \in Connected
      PROVE  SlotsAreSubscriptions'
  BY <1>1, <1>2 DEF SlotsAreSubscriptions
<1>3. ASSUME NEW s \in Subscribers, Create(s) \/ Copy(s) \/ DeliverCached(s)
      PROVE  SlotsAreSubscriptions'
  <2>1. UNCHANGED slots
    BY <1>3 DEF Create, Copy, DeliverCached, busVars
  <2>2. ASSUME NEW x \in Subscribers
        PROVE  sub'[x].pc \in Connected <=> sub[x].pc \in Connected
    BY <1>3 DEF Create, Copy, DeliverCached, Advance, StepAfter, CallersOK
  <2> QED
    BY <1>2, <2>1, <2>2
<1>4. ASSUME NEW s \in Subscribers, Connect(s) PROVE SlotsAreSubscriptions'
  <2>1. /\ sub[s].pc = "connect"
        /\ slots' = Append(slots, s)
        /\ sub' = [sub EXCEPT ![s].pc = "copy"]
    BY <1>4 DEF Connect, Advance, StepAfter
  <2>2. ~In(s)
    BY <1>1, <2>1
  <2>3. \A i, j \in 1 .. Len(slots') : slots'[i] = slots'[j] => i = j
    BY <1>1, <2>1, <2>2
  <2>4. /\ slots' \in Seq(Subscribers)
        /\ \A x : (\E i \in 1 .. Len(slots') : slots'[i] = x) <=> x = s \/ In(x)
    BY <1>1, <2>1, AppendHolds
  <2>5. \A x \in Subscribers : sub'[x].pc \in Connected <=> x = s \/ sub[x].pc \in Connected
    BY <2>1 DEF CallersOK
  <2> HIDE DEF In, Connected
  <2>6. \A x \in Subscribers :
            (\E i \in 1 .. Len(slots') : slots'[i] = x) <=> sub'[x].pc \in Connected
    BY <1>1, <2>4, <2>5
  <2> QED
    BY <2>3, <2>4, <2>6 DEF SlotsAreSubscriptions, Connected
<1>5. ASSUME NEW s \in Subscribers, Disconnect(s) PROVE SlotsAreSubscriptions'
  <2>1. PICK k \in 1 .. Len(slots) : slots[k] = s /\ slots' = Without(slots, k)
    BY <1>5 DEF Disconnect, Without
  <2>2. /\ slots' \in Seq(Subscribers)
        /\ \A i, j \in 1 .. Len(slots') : slots'[i] = slots'[j] => i = j
        /\ \A x : (\E i \in 1 .. Len(slots') : slots'[i] = x) <=> x # s /\ In(x)
    <3>1. /\ Without(slots, k) \in Seq(Subscribers)
          /\ \A i, j \in 1 .. Len(Without(slots, k)) :
                Without(slots, k)[i] = Without(slots, k)[j] => i = j
          /\ \A x : (\E i \in 1 .. Len(Without(slots, k)) : Without(slots, k)[i] = x)
                      <=> x # slots[k] /\ \E i \in 1 .. Len(slots) : slots[i] = x
      <4>1. /\ slots \in Seq(Subscribers)
            /\ \A i, j \in 1 .. Len(slots) : slots[i] = slots[j] => i = j
        BY <1>1
      <4> QED
        BY ONLY <4>1, WithoutHolds
    <3> QED
      BY <2>1, <3>1
  <2>3. \A x \in Subscribers : sub'[x].pc \in Connected <=> x # s /\ sub[x].pc \in Connected
    BY <1>5 DEF Disconnect, CallersOK
  <2> HIDE DEF In, Connected
  <2>4. \A x \in Subscribers :
            (\E i \in 1 .. Len(slots') : slots'[i] = x) <=> sub'[x].pc \in Connected
    BY <1>1, <2>2, <2>3
  <2> QED
    BY <2>2, <2>4 DEF SlotsAreSubscriptions, Connected
<1>6. \/ UNCHANGED <<slots, sub>>
      \/ \E s \in Subscribers :
            Create(s) \/ Connect(s) \/ Copy(s) \/ DeliverCached(s) \/ Disconnect(s)
  BY DEF Next, vars, busVars, CallPublish, Update, Snapshot, Invoke, PublishReturns, Handle,
         LastValueCache
<1> QED
  BY <1>2, <1>3, <1>4, <1>5, <1>6

\* Every step keeps every variable in its type.
LEMMA TypeStep == IInv /\ [Next]_vars => TypeOK'
  BY BusStep, CallersStep, TasksStep, SlotsStep DEF TypeOK

-----------------------------------------------------------------------------
(* The cached value is on its way to every subscriber.                     *)

\* Every subscriber past its first critical section saw the Signal created.
LEMMA SignalStep == ASSUME IInv, [Next]_vars PROVE SignalInv'
<1> USE DEF IInv, TypeOK
<1>1. CASE UNCHANGED <<hasSignal, sub>>
  BY <1>1 DEF SignalInv
<1>2. ASSUME NEW s \in Subscribers, Create(s) PROVE SignalInv'
  BY <1>2 DEF Create, SignalInv
<1>3. ASSUME NEW s \in Subscribers,
             Connect(s) \/ Copy(s) \/ DeliverCached(s) \/ Disconnect(s)
      PROVE  SignalInv'
  <2>1. hasSignal /\ hasSignal'
    BY <1>3 DEF Connect, Copy, DeliverCached, Disconnect, busVars, SignalInv
  <2> QED
    BY <2>1 DEF SignalInv
<1>4. \/ UNCHANGED <<hasSignal, sub>>
      \/ \E s \in Subscribers :
            Create(s) \/ Connect(s) \/ Copy(s) \/ DeliverCached(s) \/ Disconnect(s)
  BY DEF Next, vars, busVars, CallPublish, Update, Snapshot, Invoke, PublishReturns, Handle,
         LastValueCache
<1> QED
  BY <1>1, <1>2, <1>3, <1>4

\* A publisher has its message from CallPublish on.
LEMMA PublisherStep == ASSUME IInv, [Next]_vars PROVE PublisherInv'
<1> USE DEF IInv, TypeOK
<1>1. Published \subseteq Published'
  BY DrawnStep
<1>2. CASE UNCHANGED pub
  BY <1>1, <1>2 DEF PublisherInv
<1>3. ASSUME NEW p \in Publishers, CallPublish(p) PROVE PublisherInv'
  <2>1. drawn + 1 \in Published'
    BY <1>3, DrawnStep DEF CallPublish, Published
  <2> QED
    BY <1>1, <1>3, <2>1 DEF CallPublish, PublisherInv, CallersOK
<1>4. ASSUME NEW p \in Publishers, Update(p) \/ Snapshot(p) \/ Invoke(p) \/ PublishReturns(p)
      PROVE  PublisherInv'
  <2>1. pub[p].pc # "idle"
    BY <1>4 DEF Update, Snapshot, Invoke, PublishReturns
  <2>2. pub'[p].pc = "idle" \/ pub'[p].msg = pub[p].msg
    BY <1>4 DEF Update, Snapshot, Invoke, PublishReturns, IdlePublisher, CallersOK
  <2>3. \A q \in Publishers : q # p => pub'[q] = pub[q]
    BY <1>4 DEF Update, Snapshot, Invoke, PublishReturns, CallersOK
  <2> QED
    BY <1>1, <2>1, <2>2, <2>3 DEF PublisherInv
<1>5. UNCHANGED pub \/ \E p \in Publishers :
          CallPublish(p) \/ Update(p) \/ Snapshot(p) \/ Invoke(p) \/ PublishReturns(p)
  BY DEF Next, vars, Create, Connect, Copy, DeliverCached, Disconnect, Handle, LastValueCache
<1> QED
  BY <1>2, <1>3, <1>4, <1>5

\* What has been offered to a subscriber stays so; a delivery offers its message.
LEMMA DeliverHolds ==
    ASSUME TypeOK, NEW t \in Subscribers, NEW m \in Published, Deliver(t, m)
    PROVE  /\ Offered(m, t)'
           /\ \A s \in Subscribers, n \in Published : Offered(n, s) => Offered(n, s)'
<1> USE DEF TypeOK
<1>1. CASE t \in AsyncSubscribers /\ inbox' = [inbox EXCEPT ![t] = Append(@, m)]
           /\ UNCHANGED refused
  <2>1. /\ inbox[t] \in Seq(Published)
        /\ inbox' = [inbox EXCEPT ![t] = Append(inbox[t], m)]
        /\ handled' = handled /\ refused' = refused
    BY <1>1 DEF Deliver, TasksOK, taskVars
  <2>2. ASSUME NEW n
        PROVE  (\E i \in 1 .. Len(inbox'[t]) : inbox'[t][i] = n)
                  <=> n = m \/ \E i \in 1 .. Len(inbox[t]) : inbox[t][i] = n
    <3>1. inbox'[t] = Append(inbox[t], m)
      BY <1>1, <2>1 DEF TasksOK
    <3> QED
      BY <2>1, <3>1, AppendHolds
  <2>3. \A s \in AsyncSubscribers : s # t => inbox'[s] = inbox[s]
    BY <2>1 DEF TasksOK
  <2> QED
    BY <1>1, <2>1, <2>2, <2>3 DEF Offered
<1>2. CASE t \in AsyncSubscribers /\ refused' = [refused EXCEPT ![t] = @ \cup {m}]
           /\ UNCHANGED inbox
  <2>1. handled' = handled /\ inbox' = inbox
    BY <1>2 DEF Deliver, taskVars
  <2>2. m \in refused'[t] /\ \A s \in AsyncSubscribers : refused[s] \subseteq refused'[s]
    BY <1>2 DEF TasksOK
  <2> QED
    BY <1>2, <2>1, <2>2 DEF Offered
<1>3. CASE t \notin AsyncSubscribers
  <2>1. inbox' = inbox /\ refused' = refused /\ handled' = [handled EXCEPT ![t] = @ \cup {m}]
    BY <1>3 DEF Deliver, queueVars
  <2>2. m \in handled'[t] /\ \A s \in Subscribers : handled[s] \subseteq handled'[s]
    BY <2>1 DEF TasksOK
  <2> QED
    BY <2>1, <2>2 DEF Offered
<1> QED
  BY <1>1, <1>2, <1>3 DEF Deliver, Dispatch

\* The worker thread calls the callback with what it takes from its queue.
LEMMA HandleHolds ==
    ASSUME TypeOK, NEW t \in AsyncSubscribers, Handle(t),
           NEW s \in Subscribers, NEW n \in Published, Offered(n, s)
    PROVE  Offered(n, s)'
<1> USE DEF TypeOK
<1>1. /\ inbox[t] \in Seq(Published) /\ inbox[t] # <<>>
      /\ inbox' = [inbox EXCEPT ![t] = Tail(inbox[t])]
      /\ handled' = [handled EXCEPT ![t] = handled[t] \cup {Head(inbox[t])}]
      /\ refused' = refused
  BY DEF Handle, TasksOK
<1>2. inbox'[t] = Tail(inbox[t]) /\ handled'[t] = handled[t] \cup {Head(inbox[t])}
  BY <1>1, SubscribersAssumption DEF TasksOK
<1>3. CASE n \in handled[s] \/ (s \in AsyncSubscribers /\ n \in refused[s])
  BY <1>1, <1>3 DEF Offered, TasksOK
<1>4. CASE s = t /\ \E i \in 1 .. Len(inbox[t]) : inbox[t][i] = n
  <2>1. n = Head(inbox[t]) \/ \E i \in 1 .. Len(Tail(inbox[t])) : Tail(inbox[t])[i] = n
    <3>1. inbox[t] \in Seq(Published) /\ inbox[t] # <<>>
      BY <1>1
    <3> QED
      BY ONLY <1>4, <3>1, HeadTailHold
  <2> QED
    BY <1>2, <1>4, <2>1 DEF Offered
<1>5. CASE s # t /\ s \in AsyncSubscribers /\ \E i \in 1 .. Len(inbox[s]) : inbox[s][i] = n
  <2>1. inbox'[s] = inbox[s]
    BY <1>1, <1>5 DEF TasksOK
  <2> QED
    BY <1>5, <2>1 DEF Offered
<1> QED
  BY <1>3, <1>4, <1>5 DEF Offered

\* The cached value is on its way: an update of the cache comes with the
\* snapshot that is still to be taken, a snapshot finds every subscription that
\* has taken its copy, and a copy takes the value as it is now.
LEMMA DeliveryStep == ASSUME IInv, [Next]_vars PROVE DeliveryInv'
<1> USE DEF IInv, TypeOK
<1> SUFFICES ASSUME NEW s \in LvcSubscribers, lastValue' # None, sub'[s].pc \in {"deliver", "live"}
             PROVE  OnItsWay(s)'
  BY DEF DeliveryInv
<1>0. s \in Subscribers
  BY SubscribersAssumption
<1>1. ASSUME UNCHANGED <<lastValue, inbox, refused, handled, pub>>, sub'[s] = sub[s] PROVE OnItsWay(s)'
  <2>1. OnItsWay(s)
    BY <1>1 DEF DeliveryInv
  <2> QED
    BY <1>1, <2>1 DEF OnItsWay, Offered, Owes
<1>2. ASSUME NEW p \in Publishers, CallPublish(p) \/ PublishReturns(p) PROVE OnItsWay(s)'
  <2>1. UNCHANGED <<lastValue, sub, inbox, refused, handled>>
    BY <1>2 DEF CallPublish, PublishReturns, busVars, taskVars, queueVars
  <2>2. ~Owes(p, s)
    BY <1>2 DEF CallPublish, PublishReturns, Owes
  <2>3. \A q \in Publishers : q # p => pub'[q] = pub[q]
    BY <1>2 DEF CallPublish, PublishReturns, CallersOK
  <2>4. OnItsWay(s)
    BY <2>1 DEF DeliveryInv
  <2> QED
    BY <2>1, <2>2, <2>3, <2>4 DEF OnItsWay, Offered, Owes
<1>3. ASSUME NEW p \in Publishers, Update(p) PROVE OnItsWay(s)'
  <2>1. UNCHANGED <<sub, inbox, refused, handled>> /\ hasSignal
    BY <1>0, <1>3 DEF Update, taskVars, queueVars, SignalInv
  <2>2. /\ pub' = [pub EXCEPT ![p].pc = "snapshot"]
        /\ pub[p].pc = "update"
        /\ lastValue' = CacheAfter(pub[p].msg)
    BY <1>3, <2>1 DEF Update
  <2>3. /\ pub'[p].pc = "snapshot" /\ pub'[p].msg = pub[p].msg
        /\ \A q \in Publishers : q # p => pub'[q] = pub[q]
    BY <2>2 DEF CallersOK
  <2>4. CASE lastValue' = pub[p].msg
    BY <2>3, <2>4 DEF OnItsWay, Owes
  <2>5. CASE lastValue' = lastValue
    <3>1. OnItsWay(s)
      BY <2>1, <2>5 DEF DeliveryInv
    <3>2. ~Owes(p, s)
      BY <2>2 DEF Owes
    <3> QED
      BY <2>1, <2>3, <2>5, <3>1, <3>2 DEF OnItsWay, Offered, Owes
  <2> QED
    BY <2>2, <2>4, <2>5 DEF CacheAfter
<1>4. ASSUME NEW p \in Publishers, Snapshot(p) PROVE OnItsWay(s)'
  <2>1. /\ UNCHANGED <<lastValue, sub, inbox, refused, handled>>
        /\ pub' = [pub EXCEPT ![p].pc = "invoke", ![p].targets = slots]
    BY <1>4 DEF Snapshot, busVars, taskVars, queueVars
  <2>2. /\ pub'[p].pc = "invoke" /\ pub'[p].msg = pub[p].msg /\ pub'[p].targets = slots
        /\ \A q \in Publishers : q # p => pub'[q] = pub[q]
    BY <2>1 DEF CallersOK
  <2>3. \E i \in 1 .. Len(slots) : slots[i] = s
    BY <1>0, <2>1 DEF SlotsAreSubscriptions
  <2>4. OnItsWay(s) /\ Owes(p, s)'
    <3>1. OnItsWay(s)
      BY <2>1 DEF DeliveryInv
    <3>2. Owes(p, s)'
      BY ONLY <2>2, <2>3 DEF Owes
    <3> QED
      BY <3>1, <3>2
  <2>5. ASSUME NEW q \in Publishers, pub[q].msg = lastValue, Owes(q, s)
        PROVE  \E q2 \in Publishers : pub'[q2].msg = lastValue' /\ Owes(q2, s)'
    BY <2>1, <2>2, <2>4, <2>5 DEF Owes
  <2>6. Offered(lastValue, s) => Offered(lastValue, s)'
    BY <2>1 DEF Offered
  <2> QED
    BY <2>1, <2>4, <2>5, <2>6, Zenon DEF OnItsWay
<1>5. ASSUME NEW p \in Publishers, Invoke(p) PROVE OnItsWay(s)'
  <2>1. /\ UNCHANGED <<lastValue, sub>> /\ lastValue \in Published
        /\ pub[p].pc = "invoke" /\ pub[p].targets # <<>>
        /\ pub[p].targets \in Seq(Subscribers) /\ pub[p].msg \in Published
    BY <1>5 DEF Invoke, busVars, CallersOK, BusOK, PublisherInv
  <2>2. OnItsWay(s)
    BY <2>1 DEF DeliveryInv
  <2>3. PICK t \in Subscribers, m \in Published :
            t = Head(pub[p].targets) /\ m = pub[p].msg /\ Deliver(t, m)
    BY <1>5, <2>1, HeadTailHold DEF Invoke
  <2>4. /\ Offered(m, t)'
        /\ \A x \in Subscribers, n \in Published : Offered(n, x) => Offered(n, x)'
    BY <2>3, DeliverHolds
  <2>5. /\ pub'[p].pc = "invoke" /\ pub'[p].msg = pub[p].msg
        /\ pub'[p].targets = Tail(pub[p].targets)
        /\ \A q \in Publishers : q # p => pub'[q] = pub[q]
    BY <1>5, <2>1 DEF Invoke, CallersOK
  <2>6. PICK v \in Published : v = lastValue
    BY <2>1
  <2>7. Offered(v, s) => Offered(v, s)'
    BY <1>0, <2>4
  <2>8. ASSUME pub[p].msg = v, Owes(p, s) PROVE Owes(p, s)' \/ Offered(v, s)'
    <3>1. s = Head(pub[p].targets)
          \/ \E i \in 1 .. Len(Tail(pub[p].targets)) : Tail(pub[p].targets)[i] = s
      BY <2>1, <2>8, HeadTailHold DEF Owes
    <3>2. s = Head(pub[p].targets) => s = t /\ v = m
      BY <2>3, <2>8
    <3> QED
      BY <2>4, <2>5, <3>1, <3>2 DEF Owes
  <2>9. \A q \in Publishers : pub[q].msg = v /\ Owes(q, s) =>
            \/ pub'[q].msg = v /\ Owes(q, s)'
            \/ Offered(v, s)'
    BY <2>5, <2>8 DEF Owes
  <2>10. lastValue' = v
    BY <2>1, <2>6
  <2> QED
    BY <2>1, <2>2, <2>6, <2>7, <2>9, <2>10 DEF OnItsWay, Offered
<1>6. ASSUME NEW x \in Subscribers, Create(x) \/ Connect(x) \/ Disconnect(x) PROVE OnItsWay(s)'
  <2>1. UNCHANGED <<lastValue, inbox, refused, handled, pub>>
    BY <1>6 DEF Create, Connect, Disconnect, taskVars, queueVars
  <2>2. sub'[x].pc \notin {"deliver", "live"} /\ \A y \in Subscribers : y # x => sub'[y] = sub[y]
    BY <1>6 DEF Create, Connect, Disconnect, Advance, StepAfter, CallersOK
  <2> QED
    BY <1>0, <1>1, <2>1, <2>2
<1>7. ASSUME NEW x \in Subscribers, Copy(x) PROVE OnItsWay(s)'
  <2>1. UNCHANGED <<lastValue, inbox, refused, handled, pub>>
    BY <1>7 DEF Copy, busVars, taskVars, queueVars
  <2>2. \A y \in Subscribers : y # x => sub'[y] = sub[y]
    BY <1>7 DEF Copy, Advance, CallersOK
  <2>3. CASE s = x
    <3>1. sub'[s].pc = "deliver" /\ sub'[s].cached = lastValue
      BY <1>0, <1>7, <2>3 DEF Copy, Advance, StepAfter, CallersOK
    <3> QED
      BY <2>1, <3>1 DEF OnItsWay
  <2> QED
    BY <1>0, <1>1, <2>1, <2>2, <2>3
<1>8. ASSUME NEW x \in Subscribers, DeliverCached(x) PROVE OnItsWay(s)'
  <2>1. UNCHANGED <<lastValue, pub>> /\ sub[x].pc = "deliver"
    BY <1>8 DEF DeliverCached, busVars
  <2>2. /\ sub'[x].pc = "live"
        /\ \A y \in Subscribers : y # x => sub'[y] = sub[y]
    BY <1>8 DEF DeliverCached, Advance, StepAfter, CallersOK
  <2>3. OnItsWay(s)
    BY <1>0, <2>1, <2>2 DEF DeliveryInv
  <2>4. PICK c \in Published \cup {None} : c = sub[x].cached
    BY DEF CallersOK
  <2>5. CASE c = None
    <3>1. UNCHANGED <<inbox, refused, handled>>
      BY <1>8, <2>4, <2>5 DEF DeliverCached, taskVars, queueVars
    <3>2. ~(sub[s].pc = "deliver" /\ sub[s].cached = lastValue) \/ s # x
      BY <2>1, <2>4, <2>5
    <3> QED
      BY <1>0, <2>1, <2>2, <2>3, <3>1, <3>2 DEF OnItsWay, Offered, Owes
  <2>6. CASE c # None
    <3>1. c \in Published /\ Deliver(x, c)
      BY <1>8, <2>4, <2>6 DEF DeliverCached
    <3>2. /\ Offered(c, x)'
          /\ \A y \in Subscribers, n \in Published : Offered(n, y) => Offered(n, y)'
      BY <3>1, DeliverHolds
    <3>3. PICK v \in Published : v = lastValue
      BY <2>1 DEF BusOK
    <3>4. lastValue' = v
      BY <2>1, <3>3
    <3>5. Offered(v, s) => Offered(v, s)'
      BY <1>0, <3>2
    <3>6. sub[s].pc = "deliver" /\ sub[s].cached = v =>
             sub'[s] = sub[s] \/ Offered(v, s)'
      BY <1>0, <2>2, <2>4, <3>2
    <3> QED
      BY <2>1, <2>3, <3>3, <3>4, <3>5, <3>6 DEF OnItsWay, Owes, Offered
  <2> QED
    BY <2>5, <2>6
<1>9. ASSUME NEW x \in AsyncSubscribers, Handle(x) PROVE OnItsWay(s)'
  <2>1. UNCHANGED <<lastValue, pub, sub>> /\ OnItsWay(s)
    BY <1>9 DEF Handle, busVars, DeliveryInv
  <2>2. PICK v \in Published : v = lastValue
    BY <2>1 DEF BusOK
  <2>3. Offered(v, s) => Offered(v, s)'
    BY <1>0, <1>9, HandleHolds
  <2>4. lastValue' = v
    BY <2>1, <2>2
  <2> QED
    BY <2>1, <2>2, <2>3, <2>4 DEF OnItsWay, Owes, Offered
<1>10. ASSUME NEW enabled \in BOOLEAN, LastValueCache(enabled) PROVE OnItsWay(s)'
  BY <1>1, <1>10 DEF LastValueCache, taskVars, queueVars
<1>11. CASE UNCHANGED vars
  BY <1>1, <1>11 DEF vars
<1> QED
  BY <1>2, <1>3, <1>4, <1>5, <1>6, <1>7, <1>8, <1>9, <1>10, <1>11 DEF Next

-----------------------------------------------------------------------------
(* The guard of a subscriber.                                              *)

\* A message that is newer than the last one of an increasing list extends it.
LEMMA IncreasingAppend ==
    ASSUME NEW seq \in Seq(Int), Increasing(seq), NEW m \in Int,
           seq # <<>> => Latest(seq) < m
    PROVE  /\ Increasing(Append(seq, m))
           /\ Append(seq, m) # <<>>
           /\ Latest(Append(seq, m)) = m
<1> DEFINE w == Append(seq, m)
           n == Len(seq)
<1>1. n \in Nat /\ (n > 0 => seq # <<>>)
  OBVIOUS
<1>2. /\ Len(w) = n + 1 /\ w[n + 1] = m
      /\ \A i \in 1 .. n : w[i] = seq[i]
  BY AppendProperties
<1>3. w # <<>> /\ Latest(w) = m
  BY <1>1, <1>2 DEF Latest
<1>4. ASSUME NEW i \in 1 .. Len(w) - 1 PROVE w[i] < w[i + 1]
  <2>1. i \in 1 .. n
    BY <1>1, <1>2
  <2>2. CASE i = n
    BY <1>1, <1>2, <2>1, <2>2 DEF Latest
  <2>3. CASE i < n
    <3>1. i \in 1 .. n - 1 /\ i + 1 \in 1 .. n
      BY <1>1, <2>1, <2>3
    <3> QED
      BY <1>2, <2>1, <3>1 DEF Increasing
  <2> QED
    BY <1>1, <2>1, <2>2, <2>3
<1> HIDE DEF w
<1>5. Increasing(w)
  BY <1>4 DEF Increasing
<1> QED
  BY <1>3, <1>5 DEF w

\* Only the worker thread of a subscriber asks its guard, about each message it
\* handles; the guard's answer is the order of the messages.
LEMMA GuardStep == ASSUME IInv, [Next]_vars PROVE GuardInv'
<1> USE DEF IInv, TypeOK
<1> DEFINE Holds(s) ==
              /\ guard[s].first <=> accepted[s] = <<>>
              /\ accepted[s] = <<>> => handled[s] = {}
              /\ accepted[s] # <<>> =>
                    /\ guard[s].last = Stamp(Latest(accepted[s]))
                    /\ \A m \in handled[s] : m <= Latest(accepted[s])
              /\ Increasing(accepted[s])
<1> SUFFICES ASSUME NEW s \in AsyncSubscribers PROVE Holds(s)'
  BY DEF GuardInv
<1>1. Holds(s)
  BY DEF GuardInv
<1>2. CASE guard'[s] = guard[s] /\ accepted'[s] = accepted[s] /\ handled'[s] = handled[s]
  BY <1>1, <1>2
<1>3. CASE Handle(s)
  <2>1. PICK m \in Published : m = Head(inbox[s])
    BY <1>3, HeadTailHold DEF Handle, TasksOK
  <2>2. handled'[s] = handled[s] \cup {m} /\ Guarded(s, m)
    BY <1>3, <2>1, SubscribersAssumption DEF Handle, TasksOK
  <2>3. /\ m \in Int /\ m \in 1 .. NumMessages
        /\ accepted[s] \in Seq(Int)
        /\ handled[s] \subseteq Int
    <3>1. Published \subseteq 1 .. NumMessages /\ Published \subseteq Int
      BY DrawnStep DEF Published
    <3>2. accepted[s] \in Seq(Published) /\ handled[s] \subseteq Published
      BY SubscribersAssumption DEF TasksOK
    <3> QED
      BY <3>1, <3>2, SeqGrows
  <2>4. accepted[s] # <<>> => Latest(accepted[s]) \in 1 .. NumMessages
    <3>1. accepted[s] \in Seq(Published) /\ Published \subseteq 1 .. NumMessages
      BY DrawnStep DEF TasksOK
    <3>2. accepted[s] # <<>> => Len(accepted[s]) \in 1 .. Len(accepted[s])
      BY <3>1
    <3>3. \A i \in 1 .. Len(accepted[s]) : accepted[s][i] \in Published
      BY <3>1
    <3> QED
      BY <3>1, <3>2, <3>3, Zenon DEF Latest
  <2>5. IsNewer(guard[s], Stamp(m))
          <=> accepted[s] = <<>> \/ m > Latest(accepted[s])
    <3>1. CASE accepted[s] = <<>>
      BY <1>1, <3>1 DEF IsNewer
    <3>2. CASE accepted[s] # <<>>
      <4>1. ~guard[s].first /\ guard[s].last = Stamp(Latest(accepted[s]))
        BY <1>1, <3>2 DEF TasksOK
      <4>2. SignedDiff(Stamp(m), Stamp(Latest(accepted[s]))) > 0 <=> m > Latest(accepted[s])
        BY <2>3, <2>4, <3>2, SignedDiffOrders
      <4> QED
        BY <3>2, <4>1, <4>2 DEF IsNewer
    <3> QED
      BY <3>1, <3>2
  <2>6. CASE IsNewer(guard[s], Stamp(m))
    <3>1. /\ guard'[s] = [first |-> FALSE, last |-> Stamp(m)]
          /\ accepted'[s] = Append(accepted[s], m)
      BY <2>2, <2>6 DEF Guarded, TasksOK
    <3>2. accepted[s] # <<>> => Latest(accepted[s]) < m
      BY <2>3, <2>4, <2>5, <2>6
    <3>3. /\ Increasing(accepted'[s])
          /\ accepted'[s] # <<>>
          /\ Latest(accepted'[s]) = m
      BY <1>1, <2>3, <3>1, <3>2, IncreasingAppend
    <3>4. \A x \in handled'[s] : x <= m
      BY <1>1, <2>2, <2>3, <2>4, <3>2
    <3>5. guard'[s].first = FALSE /\ guard'[s].last = Stamp(Latest(accepted'[s]))
      BY <3>1, <3>3
    <3> QED
      BY <3>3, <3>4, <3>5
  <2>7. CASE ~IsNewer(guard[s], Stamp(m))
    <3>1. /\ UNCHANGED <<guard, accepted>>
          /\ accepted[s] # <<>> /\ ~(m > Latest(accepted[s]))
      BY <2>2, <2>5, <2>7 DEF Guarded
    <3>2. \A x \in handled'[s] : x <= Latest(accepted[s])
      BY <1>1, <2>2, <2>3, <2>4, <3>1
    <3> QED
      BY <1>1, <3>1, <3>2
  <2> QED
    BY <2>6, <2>7
<1>4. ASSUME NEW x \in AsyncSubscribers, Handle(x), x # s
      PROVE  guard'[s] = guard[s] /\ accepted'[s] = accepted[s] /\ handled'[s] = handled[s]
  BY <1>4, SubscribersAssumption DEF Handle, Guarded, TasksOK
<1>5. ASSUME NEW x, NEW m, Deliver(x, m)
      PROVE  guard'[s] = guard[s] /\ accepted'[s] = accepted[s] /\ handled'[s] = handled[s]
  BY <1>5, SubscribersAssumption DEF Deliver, taskVars, queueVars, TasksOK
<1>6. \/ UNCHANGED taskVars
      \/ \E x, m : Deliver(x, m)
      \/ \E x \in AsyncSubscribers : Handle(x)
  BY DEF Next, vars, taskVars, queueVars, CallPublish, Update, Snapshot, Invoke,
         PublishReturns, Create, Connect, Copy, DeliverCached, Disconnect, LastValueCache
<1> QED
  BY <1>2, <1>3, <1>4, <1>5, <1>6 DEF taskVars, queueVars

-----------------------------------------------------------------------------
(* The inductive invariant and what follows from it.                       *)

\* IInv holds at the start.
LEMMA IInvInit == Init => IInv
<1> SUFFICES ASSUME Init PROVE IInv
  OBVIOUS
<1>1. SignalInv /\ PublisherInv /\ DeliveryInv
  BY DEF Init, SignalInv, PublisherInv, DeliveryInv, IdlePublisher
<1>2. GuardInv
  BY SubscribersAssumption DEF Init, GuardInv, Increasing
<1> QED
  BY <1>1, <1>2, TypeInit DEF IInv

\* IInv is kept by every step.
LEMMA IInvStep == IInv /\ [Next]_vars => IInv'
  BY TypeStep, SignalStep, PublisherStep, DeliveryStep, GuardStep DEF IInv

\* IInv holds in every reachable state.
LEMMA Invariance == Spec => []IInv
  BY IInvInit, IInvStep, PTL DEF Spec

\* Every value the cache, a queue, a publisher or a callback holds was
\* published, and the Signal's list is the list of subscriptions.
THEOREM TypeCorrect == Spec => []TypeOK
<1>1. IInv => TypeOK
  BY DEF IInv
<1> QED
  BY Invariance, <1>1, PTL

\* No update is missed by a Last Value Cache subscriber, for any number of
\* publishers and subscribers, unless its own worker thread refused that update:
\* because the slot is connected before the cached value is copied, and the cache is
\* updated before the slots are copied.
THEOREM NoUpdateMissed == Spec => []CaughtUp
<1>1. IInv => CaughtUp
  <2> SUFFICES ASSUME IInv, NEW s \in LvcSubscribers, lastValue # None, sub[s].pc = "live"
               PROVE  \/ \E p \in Publishers : pub[p].msg = lastValue
                      \/ s \in AsyncSubscribers /\ (inbox[s] # <<>> \/ lastValue \in refused[s])
                      \/ lastValue \in handled[s]
    BY DEF CaughtUp
  <2>1. OnItsWay(s)
    BY DEF IInv, DeliveryInv
  <2>2. CASE Offered(lastValue, s)
    BY <2>2 DEF Offered
  <2>3. CASE \E p \in Publishers : pub[p].msg = lastValue
    BY <2>3
  <2> QED
    BY <2>1, <2>2, <2>3 DEF OnItsWay
<1> QED
  BY Invariance, <1>1, PTL

\* A MonotonicGuard lets through a strictly increasing sequence that ends with
\* the newest message seen, for every starting value of a counter whose range is
\* at least twice the number of messages.
THEOREM GuardIsMonotonic == Spec => []GuardKeepsNewest
<1>1. IInv => GuardKeepsNewest
  <2> SUFFICES ASSUME IInv, NEW s \in AsyncSubscribers
               PROVE  /\ \A i \in 1 .. Len(accepted[s]) - 1 : accepted[s][i] < accepted[s][i + 1]
                      /\ \A m \in handled[s] :
                            accepted[s] # <<>> /\ m <= accepted[s][Len(accepted[s])]
    BY DEF GuardKeepsNewest
  <2> QED
    BY DEF IInv, GuardInv, Increasing, Latest
<1> QED
  BY Invariance, <1>1, PTL

=============================================================================
