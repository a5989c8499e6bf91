--------------------------- MODULE SchedulerProofs ---------------------------
(***************************************************************************)
(* The run loops keep to their snapshots, and main returns only when every *)
(* loop has ended: SchedulerTypeOK, SnapshotIsCurrent and ExitIsClean, for *)
(* any number of invoices, any batch size and any number of faults.        *)
(*                                                                         *)
(* What carries the induction is that an event is in one place: in one     *)
(* worker's queue, once, or waiting for its time (QueuesApart).  So the    *)
(* event a worker takes from its snapshot is still in its own queue and in *)
(* no other, and removing it disturbs no other snapshot.                   *)
(***************************************************************************)
EXTENDS Scheduler, SequenceTheorems, TLAPS

-----------------------------------------------------------------------------
(* Sequences without repetitions, and what the loops do to them.           *)

\* s holds the elements of E, each once.
Lists(s, E) == IsInjective(s) /\ Range(s) = E

LEMMA RangeMember ==
  ASSUME NEW S, NEW s \in Seq(S)
  PROVE  /\ \A x : x \in Range(s) <=> \E n \in 1..Len(s) : s[n] = x
         /\ Range(s) \subseteq S
         /\ IsInjective(s) <=> \A m, n \in 1..Len(s) : s[m] = s[n] => m = n
  BY LenProperties DEF Range, IsInjective

LEMMA EmptyLists ==
  ASSUME NEW S
  PROVE  <<>> \in Seq(S) /\ Lists(<<>>, {})
  BY DEF Lists, Range, IsInjective

LEMMA AppendLists ==
  ASSUME NEW S, NEW s \in Seq(S), NEW x \in S, IsInjective(s), x \notin Range(s)
  PROVE  Append(s, x) \in Seq(S) /\ Lists(Append(s, x), Range(s) \cup {x})
  <1> DEFINE t == Append(s, x)
  <1>1. /\ t \in Seq(S) /\ Len(t) = Len(s) + 1 /\ Len(s) \in Nat
        /\ \A n \in 1..Len(s) : t[n] = s[n]
        /\ t[Len(s) + 1] = x
    OBVIOUS
  <1> HIDE DEF t
  <1>2. \A n \in 1..Len(t) : n \in 1..Len(s) \/ n = Len(s) + 1
    BY <1>1
  <1>3. \A y : y \in Range(t) <=> y \in Range(s) \/ y = x
    BY <1>1, <1>2, RangeMember
  <1>4. IsInjective(t)
    BY <1>1, <1>2, RangeMember
  <1> QED BY <1>1, <1>3, <1>4 DEF t, Lists

LEMMA PushLists ==
  ASSUME NEW S, NEW s \in Seq(S), NEW x \in S, IsInjective(s), x \notin Range(s)
  PROVE  <<x>> \o s \in Seq(S) /\ Lists(<<x>> \o s, Range(s) \cup {x})
  <1> DEFINE t == <<x>> \o s
  <1>1. /\ t \in Seq(S) /\ Len(t) = Len(s) + 1 /\ Len(s) \in Nat
        /\ \A n \in 1..Len(s) : t[n + 1] = s[n]
        /\ t[1] = x
    <2>1. <<x>> \in Seq(S) /\ Len(<<x>>) = 1 /\ <<x>>[1] = x
      OBVIOUS
    <2>2. Len(s) \in Nat
      OBVIOUS
    <2>3. /\ t \in Seq(S) /\ Len(t) = 1 + Len(s)
          /\ \A n \in 1..1 + Len(s) : t[n] = IF n <= 1 THEN <<x>>[n] ELSE s[n - 1]
      BY <2>1, ConcatProperties
    <2> HIDE DEF t
    <2> QED BY <2>1, <2>2, <2>3
  <1> HIDE DEF t
  <1>2. \A n \in 1..Len(t) : n = 1 \/ \E m \in 1..Len(s) : n = m + 1
    <2>1. \A n \in 1..Len(t) : n # 1 => n - 1 \in 1..Len(s) /\ n = (n - 1) + 1
      BY <1>1
    <2> QED BY <2>1
  <1>s. /\ \A y : y \in Range(s) <=> \E n \in 1..Len(s) : s[n] = y
        /\ \A m, n \in 1..Len(s) : s[m] = s[n] => m = n
    BY RangeMember
  <1>r. \A y : y \in Range(t) <=> \E n \in 1..Len(t) : t[n] = y
    BY <1>1, RangeMember
  <1>3. \A y : y \in Range(t) <=> y \in Range(s) \/ y = x
    <2>1. ASSUME NEW y \in Range(t) PROVE y \in Range(s) \/ y = x
      <3>1. PICK n \in 1..Len(t) : t[n] = y
        BY <1>r
      <3>2. n = 1 \/ \E m \in 1..Len(s) : t[n] = s[m]
        BY <1>1, <1>2
      <3> QED BY <1>1, <1>s, <3>1, <3>2
    <2>2. ASSUME NEW y \in Range(s) PROVE y \in Range(t)
      <3>1. PICK n \in 1..Len(s) : s[n] = y
        BY <1>s
      <3>2. n + 1 \in 1..Len(t) /\ t[n + 1] = y
        BY <1>1, <3>1
      <3> QED BY <1>r, <3>2
    <2>3. x \in Range(t)
      <3>1. 1 \in 1..Len(t) /\ t[1] = x
        BY <1>1
      <3> QED BY <1>r, <3>1
    <2> QED BY <2>1, <2>2, <2>3
  <1>4. IsInjective(t)
    <2>1. ASSUME NEW m \in 1..Len(t), NEW n \in 1..Len(t), t[m] = t[n]
          PROVE  m = n
      <3>1. \A k \in 1..Len(s) : t[k + 1] # x
        BY <1>1, <1>s
      <3> QED BY <1>1, <1>2, <1>s, <2>1, <3>1
    <2> QED BY <1>1, <2>1, RangeMember
  <1> QED BY <1>1, <1>3, <1>4 DEF t, Lists

\* What remains of a queue when one of its events is deleted.
LEMMA RemoveLists ==
  ASSUME NEW S, NEW s \in Seq(S), IsInjective(s), NEW x \in Range(s)
  PROVE  RemoveFirst(s, x) \in Seq(S) /\ Lists(RemoveFirst(s, x), Range(s) \ {x})
  <1>s. /\ \A y : y \in Range(s) <=> \E n \in 1..Len(s) : s[n] = y
        /\ \A m, n \in 1..Len(s) : s[m] = s[n] => m = n
        /\ Len(s) \in Nat
    BY RangeMember
  <1>1. PICK k \in 1..Len(s) : s[k] = x
    BY <1>s
  <1> DEFINE a == SubSeq(s, 1, k - 1)
             b == SubSeq(s, k + 1, Len(s))
             t == RemoveFirst(s, x)
  <1>2. t = a \o b
    <2>1. {n \in 1..Len(s) : s[n] = x} = {k}
      BY <1>s, <1>1
    <2>2. SelectInSeq(s, LAMBDA v : v = x) = k
      BY <2>1, <1>1 DEF SelectInSeq, Min
    <2> QED BY <1>1, <2>2 DEF RemoveFirst, RemoveAt
  <1>3. /\ a \in Seq(S) /\ Len(a) = k - 1
        /\ \A n \in 1..k - 1 : a[n] = s[n]
    BY <1>s, <1>1, SubSeqProperties
  <1>4. /\ b \in Seq(S) /\ Len(b) = Len(s) - k
        /\ \A n \in 1..Len(s) - k : b[n] = s[k + n]
    BY <1>s, <1>1, SubSeqProperties
  <1> HIDE DEF a, b, t
  <1>5. /\ t \in Seq(S) /\ Len(t) = Len(s) - 1
        /\ \A n \in 1..Len(s) - 1 : t[n] = IF n < k THEN s[n] ELSE s[n + 1]
    <2>1. /\ t \in Seq(S) /\ Len(t) = Len(a) + Len(b)
          /\ \A n \in 1..Len(a) + Len(b) :
               t[n] = IF n <= Len(a) THEN a[n] ELSE b[n - Len(a)]
      BY <1>2, <1>3, <1>4, ConcatProperties
    <2>2. Len(a) + Len(b) = Len(s) - 1
      BY <1>s, <1>1, <1>3, <1>4
    <2>3. ASSUME NEW n \in 1..Len(s) - 1
          PROVE  t[n] = IF n < k THEN s[n] ELSE s[n + 1]
      <3>1. CASE n < k
        BY <1>1, <1>3, <2>1, <2>2, <3>1
      <3>2. CASE ~(n < k)
        <4>1. n - (k - 1) \in 1..Len(s) - k /\ k + (n - (k - 1)) = n + 1
          BY <1>s, <1>1, <3>2
        <4>2. t[n] = b[n - (k - 1)]
          BY <1>1, <1>3, <2>1, <2>2, <3>2
        <4> QED BY <1>4, <3>2, <4>1, <4>2
      <3> QED BY <3>1, <3>2
    <2> QED BY <2>1, <2>2, <2>3
  <1>r. \A y : y \in Range(t) <=> \E n \in 1..Len(t) : t[n] = y
    BY <1>5, RangeMember
  <1>6. \A y : y \in Range(t) <=> y \in Range(s) /\ y # x
    <2>1. ASSUME NEW y \in Range(t) PROVE y \in Range(s) /\ y # x
      BY <1>s, <1>1, <1>5, <1>r
    <2>2. ASSUME NEW y \in Range(s), y # x PROVE y \in Range(t)
      <3>1. PICK n \in 1..Len(s) : s[n] = y
        BY <1>s
      <3>2. \/ n \in 1..Len(t) /\ t[n] = y
            \/ n - 1 \in 1..Len(t) /\ t[n - 1] = y
        BY <1>s, <1>1, <1>5, <2>2, <3>1
      <3> QED BY <1>r, <3>2
    <2> QED BY <2>1, <2>2
  <1>7. IsInjective(t)
    <2>1. ASSUME NEW m \in 1..Len(t), NEW n \in 1..Len(t), t[m] = t[n]
          PROVE  m = n
      BY <1>s, <1>1, <1>5, <2>1
    <2> QED BY <1>5, <2>1, RangeMember
  <1> QED BY <1>5, <1>6, <1>7 DEF t, Lists

\* What remains of a snapshot when its first event has been handled.
LEMMA TailLists ==
  ASSUME NEW S, NEW s \in Seq(S), IsInjective(s), s # <<>>
  PROVE  /\ Head(s) \in Range(s) /\ Tail(s) \in Seq(S)
         /\ Lists(Tail(s), Range(s) \ {Head(s)})
         /\ Len(s) = 1 <=> Tail(s) = <<>>
  <1> DEFINE t == Tail(s)
  <1>s. /\ \A y : y \in Range(s) <=> \E n \in 1..Len(s) : s[n] = y
        /\ \A m, n \in 1..Len(s) : s[m] = s[n] => m = n
        /\ Len(s) \in Nat \ {0}
    BY RangeMember, EmptySeq
  <1>1. /\ t \in Seq(S) /\ Len(t) = Len(s) - 1
        /\ \A n \in 1..Len(t) : t[n] = s[n + 1]
        /\ Head(s) = s[1]
    BY HeadTailProperties
  <1> HIDE DEF t
  <1>r. \A y : y \in Range(t) <=> \E n \in 1..Len(t) : t[n] = y
    BY <1>1, RangeMember
  <1>2. \A y : y \in Range(t) <=> y \in Range(s) /\ y # s[1]
    <2>1. ASSUME NEW y \in Range(t) PROVE y \in Range(s) /\ y # s[1]
      BY <1>s, <1>1, <1>r
    <2>2. ASSUME NEW y \in Range(s), y # s[1] PROVE y \in Range(t)
      <3>1. PICK n \in 1..Len(s) : s[n] = y
        BY <1>s
      <3>2. n - 1 \in 1..Len(t) /\ t[n - 1] = y
        BY <1>s, <1>1, <2>2, <3>1
      <3> QED BY <1>r, <3>2
    <2> QED BY <2>1, <2>2
  <1>3. IsInjective(t)
    <2>1. ASSUME NEW m \in 1..Len(t), NEW n \in 1..Len(t), t[m] = t[n]
          PROVE  m = n
      BY <1>s, <1>1, <2>1
    <2> QED BY <1>1, <2>1, RangeMember
  <1>4. Len(s) = 1 <=> t = <<>>
    BY <1>s, <1>1, EmptySeq
  <1>5. s[1] \in Range(s)
    BY <1>s
  <1> QED BY <1>1, <1>2, <1>3, <1>4, <1>5 DEF t, Lists

\* The snapshot a tick takes of a queue.
LEMMA LimitLists ==
  ASSUME NEW S, NEW s \in Seq(S), IsInjective(s)
  PROVE  /\ LimitedTo(s) \in Seq(S) /\ IsInjective(LimitedTo(s))
         /\ Range(LimitedTo(s)) \subseteq Range(s)
         /\ LimitedTo(s) = <<>> <=> s = <<>>
  <1> DEFINE k == IF Len(s) < BatchSize THEN Len(s) ELSE BatchSize
             t == LimitedTo(s)
  <1>s. /\ \A y : y \in Range(s) <=> \E n \in 1..Len(s) : s[n] = y
        /\ \A m, n \in 1..Len(s) : s[m] = s[n] => m = n
        /\ Len(s) \in Nat /\ (s # <<>> => Len(s) # 0)
    BY RangeMember, EmptySeq
  <1>k. k \in Nat /\ k <= Len(s) /\ (k = 0 <=> Len(s) = 0)
    BY <1>s, SchedulerAssumption
  <1>1. t = SubSeq(s, 1, k)
    BY DEF LimitedTo
  <1> HIDE DEF k, t
  <1>2. /\ t \in Seq(S) /\ Len(t) = k
        /\ \A n \in 1..k : t[n] = s[n]
    <2>1. \A n \in 1..k : s[n] \in S
      BY <1>s, <1>k
    <2> QED BY <1>1, <1>k, <2>1, SubSeqProperties
  <1>r. \A y : y \in Range(t) <=> \E n \in 1..Len(t) : t[n] = y
    BY <1>2, RangeMember
  <1>3. Range(t) \subseteq Range(s)
    BY <1>s, <1>k, <1>2, <1>r
  <1>4. IsInjective(t)
    <2>1. ASSUME NEW m \in 1..Len(t), NEW n \in 1..Len(t), t[m] = t[n]
          PROVE  m = n
      BY <1>s, <1>k, <1>2, <2>1
    <2> QED BY <1>2, <2>1, RangeMember
  <1>5. t = <<>> <=> s = <<>>
    BY <1>s, <1>k, <1>2, EmptySeq
  <1> QED BY <1>2, <1>3, <1>4, <1>5 DEF t

-----------------------------------------------------------------------------
(* The inductive invariant.                                                *)

EventsAt(w) == Due(w) \cup later[w]

\* An event is in one place: due in one worker's queue, once, or put off.
QueuesApart ==
  /\ \A w \in Workers : IsInjective(queue[w]) /\ Due(w) \cap later[w] = {}
  /\ \A v, w \in Workers : v # w => EventsAt(v) \cap EventsAt(w) = {}

BatchIsDue ==
  \A w \in Workers : IsInjective(batch[w]) /\ Range(batch[w]) \subseteq Due(w)

\* Only a loop that is handling its snapshot, or died of it, has one.
LoopShape ==
  \A w \in Workers :
    /\ phase[w] = "handling" => batch[w] # <<>>
    /\ phase[w] \in {"ticking", "selecting", "stopped"} => batch[w] = <<>>

JoinedEnded ==
  /\ main \in {"serving", "draining"} => joined = 0
  /\ main = "exited" => joined = Len(worker_handles)
  /\ \A n \in 1..joined : Ended(worker_handles[n])

OutboxOK ==
  /\ queue \in [Workers -> Seq(Invoices)]
  /\ later \in [Workers -> SUBSET Invoices]
  /\ QueuesApart

LoopInv == SchedulerTypeOK /\ QueuesApart /\ BatchIsDue /\ LoopShape /\ JoinedEnded

LEMMA InitLoopInv == Init => LoopInv
  <1> SUFFICES ASSUME Init PROVE LoopInv
    OBVIOUS
  <1>1. <<>> \in Seq(Invoices) /\ IsInjective(<<>>) /\ Range(<<>>) = {}
    BY EmptyLists DEF Lists
  <1>2. \A w \in Workers : /\ queue[w] = <<>> /\ later[w] = {} /\ batch[w] = <<>>
                           /\ phase[w] = "ticking"
    BY DEF Init, Idle, Ticking
  <1>3. SchedulerTypeOK
    BY <1>1, SchedulerAssumption
       DEF Init, Idle, Ticking, SchedulerTypeOK, Phase, worker_handles
  <1>4. QueuesApart /\ BatchIsDue
    BY <1>1, <1>2 DEF QueuesApart, BatchIsDue, EventsAt, Due
  <1>5. LoopShape /\ JoinedEnded
    BY <1>2 DEF LoopShape, JoinedEnded, Init
  <1> QED BY <1>3, <1>4, <1>5 DEF LoopInv

-----------------------------------------------------------------------------
(* One event handled.                                                      *)

\* The event in hand is due in this worker's queue and nowhere else.
LEMMA InHand ==
  ASSUME LoopInv, NEW w \in Workers, Handling(w), NEW i, i = Head(batch[w])
  PROVE  /\ i \in Invoices /\ i \in Due(w) /\ i \in Range(batch[w])
         /\ queue[w] \in Seq(Invoices) /\ IsInjective(queue[w])
         /\ \A v \in Workers : i \notin later[v] /\ (v # w => i \notin Due(v))
  <1>1. /\ batch[w] \in Seq(Invoices) /\ batch[w] # <<>> /\ IsInjective(batch[w])
        /\ Range(batch[w]) \subseteq Due(w)
        /\ queue[w] \in Seq(Invoices) /\ IsInjective(queue[w])
    BY DEF LoopInv, SchedulerTypeOK, LoopShape, Handling, BatchIsDue, QueuesApart
  <1>2. i \in Range(batch[w]) /\ i \in Due(w)
    BY <1>1, TailLists
  <1>3. i \in Invoices
    BY <1>1, <1>2, RangeMember
  <1>4. ASSUME NEW v \in Workers PROVE i \notin later[v] /\ (v # w => i \notin Due(v))
    BY <1>2 DEF LoopInv, QueuesApart, EventsAt
  <1> QED BY <1>1, <1>2, <1>3, <1>4

\* The loop goes on to the next event, whatever became of this one, as long as
\* the outbox is in order and no other event of a snapshot was taken away.
LEMMA AdvanceKeeps ==
  ASSUME LoopInv, NEW w \in Workers, Handling(w), Advance(w), NEW i,
         i = Head(batch[w]), OutboxOK', attempts' \in [Invoices -> 0..MaxAttempts],
         faults' \in 0..MaxFaults,
         Due(w) \ {i} \subseteq Due(w)',
         \A v \in Workers : v # w => Due(v) \subseteq Due(v)'
  PROVE  LoopInv'
  <1>t. /\ batch \in [Workers -> Seq(Invoices)] /\ phase \in [Workers -> Phase]
        /\ batch[w] \in Seq(Invoices) /\ batch[w] # <<>> /\ IsInjective(batch[w])
    BY DEF LoopInv, SchedulerTypeOK, LoopShape, Handling, BatchIsDue
  <1>1. /\ Tail(batch[w]) \in Seq(Invoices) /\ IsInjective(Tail(batch[w]))
        /\ Range(Tail(batch[w])) = Range(batch[w]) \ {i}
        /\ Len(batch[w]) = 1 <=> Tail(batch[w]) = <<>>
    BY <1>t, TailLists DEF Lists
  <1>2. /\ batch'[w] = Tail(batch[w])
        /\ phase'[w] = IF Len(batch[w]) = 1 THEN "ticking" ELSE "handling"
        /\ \A v \in Workers : v # w => batch'[v] = batch[v] /\ phase'[v] = phase[v]
    BY <1>t DEF Advance
  <1>3. SchedulerTypeOK'
    BY <1>t, <1>1 DEF Advance, OutboxOK, SchedulerTypeOK, LoopInv, Phase
  <1>4. BatchIsDue'
    BY <1>1, <1>2 DEF BatchIsDue, LoopInv
  <1>5. LoopShape'
    BY <1>1, <1>2 DEF LoopShape, LoopInv
  <1>6. JoinedEnded'
    <2>1. \A v \in Workers : Ended(v) => Ended(v)'
      BY <1>2 DEF Ended, Handling
    <2>2. \A n \in 1..joined : worker_handles[n] \in Workers
      BY DEF LoopInv, SchedulerTypeOK, worker_handles, Workers
    <2> QED BY <2>1, <2>2 DEF JoinedEnded, LoopInv, Advance
  <1> QED BY <1>3, <1>4, <1>5, <1>6 DEF LoopInv, OutboxOK

LEMMA HandlesKeeps ==
  ASSUME LoopInv, NEW w \in Workers, Handles(w)
  PROVE  LoopInv'
  <1>h. Handling(w) /\ Advance(w)
    BY DEF Handles, Deletes, Submits, Reschedules, PutsBack, Errors
  <1> DEFINE i == Head(batch[w])
  <1>i. /\ i \in Invoices /\ i \in Due(w) /\ i \in Range(batch[w])
        /\ queue[w] \in Seq(Invoices) /\ IsInjective(queue[w])
        /\ \A v \in Workers : i \notin later[v] /\ (v # w => i \notin Due(v))
    BY <1>h, InHand
  <1>t. /\ queue \in [Workers -> Seq(Invoices)]
        /\ later \in [Workers -> SUBSET Invoices]
        /\ attempts \in [Invoices -> 0..MaxAttempts] /\ faults \in 0..MaxFaults
        /\ MaxFaults \in Nat /\ {0, MaxAttempts} \subseteq 0..MaxAttempts
    BY SchedulerAssumption DEF LoopInv, SchedulerTypeOK
  <1>r. /\ RemoveFirst(queue[w], i) \in Seq(Invoices)
        /\ IsInjective(RemoveFirst(queue[w], i))
        /\ Range(RemoveFirst(queue[w], i)) = Due(w) \ {i}
    BY <1>i, RemoveLists DEF Lists, Due
  <1> HIDE DEF i
  <1>1. CASE Deletes(w)
    <2>1. queue' = Without(w, i) /\ UNCHANGED <<later, attempts, faults>>
      BY <1>1 DEF Deletes, i
    <2>2. /\ queue'[w] = RemoveFirst(queue[w], i)
          /\ \A v \in Workers : v # w => queue'[v] = queue[v]
      BY <1>t, <2>1 DEF Without
    <2>3. Due(w)' = Due(w) \ {i} /\ \A v \in Workers : v # w => Due(v)' = Due(v)
      BY <1>r, <2>2 DEF Due
    <2>4. QueuesApart'
      BY <1>r, <2>1, <2>2, <2>3 DEF QueuesApart, EventsAt, LoopInv
    <2>5. OutboxOK'
      BY <1>t, <1>r, <2>1, <2>4 DEF OutboxOK, Without
    <2>6. attempts' \in [Invoices -> 0..MaxAttempts] /\ faults' \in 0..MaxFaults
      BY <1>t, <2>1
    <2> QED BY <1>h, <2>3, <2>5, <2>6, AdvanceKeeps DEF i
  <1>2. CASE Submits(w)
    <2>1. /\ w = Submitter /\ UNCHANGED <<later, faults>>
          /\ queue' = [Without(w, i) EXCEPT ![Poller] = Append(@, i)]
          /\ attempts' = [attempts EXCEPT ![i] = 0]
      BY <1>2 DEF Submits, i
    <2>w. Poller \in Workers /\ Poller # w
      BY <2>1 DEF Workers, Submitter, Poller
    <2>2. /\ queue'[w] = RemoveFirst(queue[w], i)
          /\ queue'[Poller] = Append(queue[Poller], i)
          /\ \A v \in Workers : v # w /\ v # Poller => queue'[v] = queue[v]
      BY <1>t, <2>1, <2>w DEF Without
    <2>3. /\ Append(queue[Poller], i) \in Seq(Invoices)
          /\ IsInjective(queue'[Poller])
          /\ Due(Poller)' = Due(Poller) \cup {i}
      <3>1. /\ queue[Poller] \in Seq(Invoices) /\ IsInjective(queue[Poller])
            /\ i \notin Range(queue[Poller])
        BY <1>t, <1>i, <2>w DEF LoopInv, QueuesApart, Due
      <3> QED BY <1>i, <2>2, <3>1, AppendLists DEF Lists, Due
    <2>4. /\ Due(w)' = Due(w) \ {i}
          /\ \A v \in Workers : v # w /\ v # Poller => Due(v)' = Due(v)
      BY <1>r, <2>2 DEF Due
    <2>5. QueuesApart'
      BY <1>r, <1>i, <2>1, <2>w, <2>2, <2>3, <2>4 DEF QueuesApart, EventsAt, LoopInv
    <2>6. OutboxOK'
      <3>1. Without(w, i) \in [Workers -> Seq(Invoices)] /\ Without(w, i)[Poller] = queue[Poller]
        BY <1>t, <1>r, <2>w DEF Without
      <3>2. queue' \in [Workers -> Seq(Invoices)] /\ later' = later
        BY <2>1, <2>3, <3>1
      <3> QED BY <1>t, <2>5, <3>2 DEF OutboxOK
    <2>7. attempts' \in [Invoices -> 0..MaxAttempts] /\ faults' \in 0..MaxFaults
      <3>1. attempts' = [attempts EXCEPT ![i] = 0] /\ faults' = faults
        BY <2>1
      <3> QED BY <1>t, <1>i, <3>1
    <2>8. /\ Due(w) \ {i} \subseteq Due(w)'
          /\ \A v \in Workers : v # w => Due(v) \subseteq Due(v)'
      BY <2>3, <2>4
    <2> QED BY <1>h, <2>6, <2>7, <2>8, AdvanceKeeps DEF i
  <1>3. CASE Reschedules(w)
    <2>1. /\ queue' = Without(w, i) /\ later' = [later EXCEPT ![w] = @ \cup {i}]
          /\ attempts[i] + 1 < MaxAttempts
          /\ attempts' = [attempts EXCEPT ![i] = @ + 1] /\ UNCHANGED faults
      BY <1>3 DEF Reschedules, i
    <2>2. /\ queue'[w] = RemoveFirst(queue[w], i)
          /\ later'[w] = later[w] \cup {i}
          /\ \A v \in Workers : v # w => queue'[v] = queue[v] /\ later'[v] = later[v]
      BY <1>t, <2>1 DEF Without
    <2>3. Due(w)' = Due(w) \ {i} /\ \A v \in Workers : v # w => Due(v)' = Due(v)
      BY <1>r, <2>2 DEF Due
    <2>4. QueuesApart'
      BY <1>r, <1>i, <2>2, <2>3 DEF QueuesApart, EventsAt, LoopInv
    <2>5. OutboxOK'
      BY <1>t, <1>i, <1>r, <2>1, <2>4 DEF OutboxOK, Without
    <2>6. attempts' \in [Invoices -> 0..MaxAttempts] /\ faults' \in 0..MaxFaults
      <3>1. /\ attempts[i] + 1 < MaxAttempts /\ faults' = faults
            /\ attempts' = [attempts EXCEPT ![i] = @ + 1]
        BY <2>1
      <3> QED BY <1>t, <1>i, <3>1
    <2> QED BY <1>h, <2>3, <2>5, <2>6, AdvanceKeeps DEF i
  <1>4. CASE PutsBack(w)
    <2>1. /\ queue' = [queue EXCEPT ![w] = <<i>> \o RemoveFirst(@, i)]
          /\ attempts' = [attempts EXCEPT ![i] = MaxAttempts]
          /\ UNCHANGED <<later, faults>>
      BY <1>4 DEF PutsBack, i
    <2>2. /\ queue'[w] = <<i>> \o RemoveFirst(queue[w], i)
          /\ \A v \in Workers : v # w => queue'[v] = queue[v]
      BY <1>t, <2>1
    <2>3. /\ <<i>> \o RemoveFirst(queue[w], i) \in Seq(Invoices)
          /\ IsInjective(queue'[w]) /\ Due(w)' = Due(w)
      <3>1. i \notin Range(RemoveFirst(queue[w], i))
        BY <1>r
      <3>2. /\ queue'[w] \in Seq(Invoices)
            /\ Lists(queue'[w], Range(RemoveFirst(queue[w], i)) \cup {i})
        BY <1>i, <1>r, <2>2, <3>1, PushLists
      <3>3. Range(queue'[w]) = Due(w)
        BY <1>i, <1>r, <3>2 DEF Lists
      <3> QED BY <2>2, <3>2, <3>3 DEF Lists, Due
    <2>4. \A v \in Workers : Due(v)' = Due(v)
      BY <2>2, <2>3 DEF Due
    <2>5. QueuesApart'
      BY <2>1, <2>2, <2>3, <2>4 DEF QueuesApart, EventsAt, LoopInv
    <2>6. OutboxOK'
      BY <1>t, <2>1, <2>3, <2>5 DEF OutboxOK
    <2>7. attempts' \in [Invoices -> 0..MaxAttempts] /\ faults' \in 0..MaxFaults
      <3>1. attempts' = [attempts EXCEPT ![i] = MaxAttempts] /\ faults' = faults
        BY <2>1
      <3> QED BY <1>t, <1>i, <3>1
    <2> QED BY <1>h, <2>4, <2>6, <2>7, AdvanceKeeps DEF i
  <1>5. CASE Errors(w)
    <2>1. UNCHANGED <<queue, later, attempts>> /\ faults' \in 0..MaxFaults
      BY <1>t, <1>5 DEF Errors, Faulty, outbox
    <2>2. \A v \in Workers : Due(v)' = Due(v)
      BY <2>1 DEF Due
    <2>3. OutboxOK'
      BY <1>t, <2>1, <2>2 DEF OutboxOK, QueuesApart, EventsAt, LoopInv
    <2>4. attempts' \in [Invoices -> 0..MaxAttempts]
      BY <1>t, <2>1
    <2> QED BY <1>h, <2>1, <2>2, <2>3, <2>4, AdvanceKeeps DEF i
  <1> QED BY <1>1, <1>2, <1>3, <1>4, <1>5 DEF Handles

-----------------------------------------------------------------------------
(* The other steps.                                                        *)

\* Every entry of worker_handles is a worker, and every worker has one.
LEMMA HandlesAreWorkers ==
  /\ Len(worker_handles) = 3
  /\ \A n \in 1..3 : worker_handles[n] \in Workers
  /\ \A w \in Workers : \E n \in 1..3 : worker_handles[n] = w
  <1>1. /\ worker_handles[1] = Submitter /\ worker_handles[2] = Poller
        /\ worker_handles[3] = Canceller
    BY DEF worker_handles
  <1>2. 1 \in 1..3 /\ 2 \in 1..3 /\ 3 \in 1..3 /\ \A n \in 1..3 : n \in {1, 2, 3}
    OBVIOUS
  <1>3. \A n \in 1..3 : worker_handles[n] \in Workers
    BY <1>1, <1>2 DEF Workers
  <1>4. \A w \in Workers : \E n \in 1..3 : worker_handles[n] = w
    BY <1>1, <1>2 DEF Workers
  <1>5. Len(worker_handles) = 3
    BY DEF worker_handles
  <1> QED BY <1>3, <1>4, <1>5

\* An event becomes due.
LEMMA GrowsKeeps ==
  ASSUME LoopInv, NEW w \in Workers, NEW i \in Invoices,
         i \notin Due(w), \A v \in Workers : v # w => i \notin EventsAt(v),
         queue' = [queue EXCEPT ![w] = Append(@, i)],
         later' = [later EXCEPT ![w] = @ \ {i}],
         attempts' \in [Invoices -> 0..MaxAttempts],
         UNCHANGED <<batch, phase, main, joined, faults>>
  PROVE  LoopInv'
  <1>t. /\ queue \in [Workers -> Seq(Invoices)] /\ queue[w] \in Seq(Invoices)
        /\ later \in [Workers -> SUBSET Invoices] /\ IsInjective(queue[w])
    BY DEF LoopInv, SchedulerTypeOK, QueuesApart
  <1>1. /\ Append(queue[w], i) \in Seq(Invoices)
        /\ Lists(Append(queue[w], i), Due(w) \cup {i})
    BY <1>t, AppendLists DEF Due
  <1>2. /\ queue'[w] = Append(queue[w], i) /\ later'[w] = later[w] \ {i}
        /\ \A v \in Workers : v # w => queue'[v] = queue[v] /\ later'[v] = later[v]
    BY <1>t
  <1>3. /\ Due(w)' = Due(w) \cup {i} /\ IsInjective(queue'[w])
        /\ \A v \in Workers : v # w => Due(v)' = Due(v)
    BY <1>1, <1>2 DEF Due, Lists
  <1>4. SchedulerTypeOK'
    <2>1. queue' \in [Workers -> Seq(Invoices)] /\ later' \in [Workers -> SUBSET Invoices]
      BY <1>t, <1>1
    <2> QED BY <2>1 DEF LoopInv, SchedulerTypeOK
  <1>5. QueuesApart'
    BY <1>2, <1>3 DEF QueuesApart, EventsAt, LoopInv
  <1>6. BatchIsDue'
    BY <1>3 DEF BatchIsDue, LoopInv
  <1>7. LoopShape' /\ JoinedEnded'
    BY DEF LoopShape, JoinedEnded, Ended, LoopInv
  <1> QED BY <1>4, <1>5, <1>6, <1>7 DEF LoopInv

LEMMA EventsArriveKeeps ==
  ASSUME LoopInv, NEW w \in Workers, NEW i \in Invoices, Accept(i, w) \/ Elapse(w, i)
  PROVE  LoopInv'
  <1>t. /\ later \in [Workers -> SUBSET Invoices]
        /\ attempts \in [Invoices -> 0..MaxAttempts] /\ 0 \in 0..MaxAttempts
    BY SchedulerAssumption DEF LoopInv, SchedulerTypeOK
  <1>1. CASE Accept(i, w)
    <2>1. \A v \in Workers : i \notin EventsAt(v)
      BY <1>1 DEF Accept, HasEvent, EventsAt
    <2>2. /\ queue' = [queue EXCEPT ![w] = Append(@, i)]
          /\ later' = [later EXCEPT ![w] = @ \ {i}]
          /\ attempts' \in [Invoices -> 0..MaxAttempts]
          /\ UNCHANGED <<batch, phase, main, joined, faults>>
      <3>1. later[w] \ {i} = later[w]
        BY <2>1 DEF EventsAt
      <3>2. later' = [later EXCEPT ![w] = later[w] \ {i}]
        BY <1>t, <1>1, <3>1 DEF Accept
      <3>3. attempts' \in [Invoices -> 0..MaxAttempts]
        BY <1>t, <1>1 DEF Accept
      <3> QED BY <1>1, <3>2, <3>3 DEF Accept
    <2> QED BY <2>1, <2>2, GrowsKeeps DEF EventsAt
  <1>2. CASE Elapse(w, i)
    <2>1. i \notin Due(w) /\ \A v \in Workers : v # w => i \notin EventsAt(v)
      BY <1>2 DEF Elapse, LoopInv, QueuesApart, EventsAt
    <2>2. /\ queue' = [queue EXCEPT ![w] = Append(@, i)]
          /\ later' = [later EXCEPT ![w] = @ \ {i}]
          /\ UNCHANGED <<attempts, batch, phase, main, joined, faults>>
      BY <1>2 DEF Elapse
    <2> QED BY <1>t, <2>1, <2>2, GrowsKeeps
  <1> QED BY <1>1, <1>2

\* Steps of one loop that leave the outbox alone.
LEMMA LoopTurnsKeeps ==
  ASSUME LoopInv, NEW w \in Workers,
         Tick(w) \/ TickFails(w) \/ Panics(w) \/ Wakes(w) \/ SeesShutdown(w)
  PROVE  LoopInv'
  <1>t. /\ batch \in [Workers -> Seq(Invoices)] /\ phase \in [Workers -> Phase]
        /\ queue[w] \in Seq(Invoices) /\ IsInjective(queue[w])
        /\ faults \in 0..MaxFaults /\ MaxFaults \in Nat
    BY SchedulerAssumption DEF LoopInv, SchedulerTypeOK, QueuesApart
  <1>1. UNCHANGED <<queue, later, attempts, main, joined>> /\ faults' \in 0..MaxFaults
    BY <1>t DEF Tick, TickFails, Panics, Wakes, SeesShutdown, Faulty, outbox
  <1>2. ~Ended(w) /\ \A v \in Workers : v # w => phase'[v] = phase[v]
    BY <1>t DEF Tick, TickFails, Panics, Handling, Wakes, SeesShutdown, Ended
  <1>3. /\ batch' \in [Workers -> Seq(Invoices)] /\ phase' \in [Workers -> Phase]
        /\ IsInjective(batch'[w]) /\ Range(batch'[w]) \subseteq Due(w)
        /\ \A v \in Workers : v # w => batch'[v] = batch[v]
        /\ phase'[w] = "handling" => batch'[w] # <<>>
        /\ phase'[w] \in {"ticking", "selecting", "stopped"} => batch'[w] = <<>>
    <2>1. CASE Tick(w)
      <3>1. /\ LimitedTo(queue[w]) \in Seq(Invoices)
            /\ IsInjective(LimitedTo(queue[w]))
            /\ Range(LimitedTo(queue[w])) \subseteq Due(w)
            /\ LimitedTo(queue[w]) = <<>> <=> queue[w] = <<>>
        BY <1>t, LimitLists DEF Due
      <3>2. /\ batch' = [batch EXCEPT ![w] = LimitedTo(queue[w])]
            /\ phase' = [phase EXCEPT ![w] =
                           IF queue[w] = <<>> THEN "selecting" ELSE "handling"]
        BY <2>1 DEF Tick, due_events
      <3> QED BY <1>t, <3>1, <3>2 DEF Phase
    <2>2. CASE TickFails(w) \/ Panics(w) \/ Wakes(w) \/ SeesShutdown(w)
      <3>1. /\ batch' = batch
            /\ \/ phase[w] = "handling" /\ phase' = [phase EXCEPT ![w] = "panicked"]
               \/ /\ phase[w] \in {"ticking", "selecting"}
                  /\ \E p \in {"ticking", "selecting", "stopped"} :
                       phase' = [phase EXCEPT ![w] = p]
        BY <2>2 DEF TickFails, Panics, Handling, Wakes, SeesShutdown
      <3>2. IsInjective(batch[w]) /\ Range(batch[w]) \subseteq Due(w)
        BY DEF LoopInv, BatchIsDue
      <3> QED BY <1>t, <3>1, <3>2 DEF Phase, LoopInv, LoopShape
    <2> QED BY <2>1, <2>2
  <1>4. SchedulerTypeOK'
    BY <1>1, <1>3 DEF LoopInv, SchedulerTypeOK
  <1>5. QueuesApart'
    BY <1>1 DEF LoopInv, QueuesApart, EventsAt, Due
  <1>6. BatchIsDue'
    BY <1>1, <1>3 DEF LoopInv, BatchIsDue, Due
  <1>7. LoopShape'
    BY <1>2, <1>3 DEF LoopInv, LoopShape
  <1>8. JoinedEnded'
    <2>1. \A v \in Workers : Ended(v) => Ended(v)'
      BY <1>2 DEF Ended
    <2>2. \A n \in 1..joined : worker_handles[n] \in Workers
      BY HandlesAreWorkers DEF LoopInv, SchedulerTypeOK
    <2> QED BY <1>1, <2>1, <2>2 DEF LoopInv, JoinedEnded
  <1> QED BY <1>4, <1>5, <1>6, <1>7, <1>8 DEF LoopInv

\* Steps of main.
LEMMA MainKeeps ==
  ASSUME LoopInv, Signal \/ ServerCloses \/ Joins \/ Aborts \/ Restarts
  PROVE  LoopInv'
  <1>1. UNCHANGED <<queue, later, attempts>>
    BY DEF Signal, ServerCloses, Joins, Aborts, Restarts, Starts, outbox
  <1>2. QueuesApart'
    BY <1>1 DEF LoopInv, QueuesApart, EventsAt, Due
  <1>3. CASE Signal \/ ServerCloses \/ Joins
    <2>1. UNCHANGED <<batch, phase, faults>>
      BY <1>3 DEF Signal, ServerCloses, Joins
    <2>2. BatchIsDue' /\ LoopShape'
      BY <1>1, <2>1 DEF LoopInv, BatchIsDue, LoopShape, Due
    <2>3. joined \in 0..3 /\ Len(worker_handles) = 3
      BY HandlesAreWorkers DEF LoopInv, SchedulerTypeOK
    <2>4. /\ main' \in {"draining", "joining", "exited"}
          /\ joined' \in 0..3
      BY <1>3, <2>3 DEF Signal, ServerCloses, Joins
    <2>5. SchedulerTypeOK'
      BY <1>1, <2>1, <2>3, <2>4 DEF LoopInv, SchedulerTypeOK
    <2>6. JoinedEnded'
      BY <1>3, <2>1, <2>3 DEF LoopInv, JoinedEnded, Ended, Signal, ServerCloses, Joins
    <2> QED BY <1>2, <2>2, <2>5, <2>6 DEF LoopInv
  <1>4. CASE Aborts \/ Restarts
    <2>1. /\ batch' = Idle /\ phase' = Ticking /\ main' = "serving" /\ joined' = 0
          /\ faults' \in 0..MaxFaults
      BY <1>4, SchedulerAssumption
         DEF Aborts, Restarts, Starts, Faulty, LoopInv, SchedulerTypeOK
    <2>2. <<>> \in Seq(Invoices) /\ IsInjective(<<>>) /\ Range(<<>>) = {}
      BY EmptyLists DEF Lists
    <2>3. \A w \in Workers : batch'[w] = <<>> /\ phase'[w] = "ticking"
      BY <2>1 DEF Idle, Ticking
    <2>4. BatchIsDue' /\ LoopShape'
      BY <2>2, <2>3 DEF BatchIsDue, LoopShape
    <2>5. SchedulerTypeOK'
      BY <1>1, <2>1, <2>2, HandlesAreWorkers
         DEF LoopInv, SchedulerTypeOK, Idle, Ticking, Phase
    <2>6. JoinedEnded'
      BY <2>1 DEF JoinedEnded
    <2> QED BY <1>2, <2>4, <2>5, <2>6 DEF LoopInv
  <1> QED BY <1>3, <1>4

LEMMA LoopInvStep == LoopInv /\ [Next]_vars => LoopInv'
  <1> SUFFICES ASSUME LoopInv, [Next]_vars PROVE LoopInv'
    OBVIOUS
  <1>1. CASE UNCHANGED vars
    BY <1>1 DEF vars, LoopInv, SchedulerTypeOK, QueuesApart, EventsAt, Due,
                BatchIsDue, LoopShape, JoinedEnded, Ended
  <1>2. CASE Next
    <2>1. {Submitter, Canceller} \subseteq Workers
      BY DEF Workers
    <2> QED BY <1>2, <2>1, EventsArriveKeeps, HandlesKeeps, LoopTurnsKeeps, MainKeeps
            DEF Next, Turns
  <1> QED BY <1>1, <1>2

-----------------------------------------------------------------------------
(* The theorems.                                                           *)

\* The queues, the snapshots and the attempts are of the types the model gives
\* them: in particular no event is ever put off beyond max_attempts.
THEOREM LoopTypes == Spec => []SchedulerTypeOK
  <1>1. LoopInv => SchedulerTypeOK
    BY DEF LoopInv
  <1> QED BY <1>1, InitLoopInv, LoopInvStep, PTL DEF Spec

\* A worker's snapshot never goes stale: what it has still to handle is in the
\* outbox and due, once, in no worker's deferred events, whatever the API and the
\* other workers wrote since the query.
THEOREM SnapshotsCurrent == Spec => []SnapshotIsCurrent
  <1>1. LoopInv => SnapshotIsCurrent
    BY DEF LoopInv, BatchIsDue, QueuesApart, EventsAt, SnapshotIsCurrent
  <1> QED BY <1>1, InitLoopInv, LoopInvStep, PTL DEF Spec

\* When main returns after ctrl-c, every worker has ended, and those that did not
\* panic ended between two events.
THEOREM ExitsClean == Spec => []ExitIsClean
  <1>1. LoopInv => ExitIsClean
    BY HandlesAreWorkers DEF LoopInv, LoopShape, JoinedEnded, ExitIsClean
  <1> QED BY <1>1, InitLoopInv, LoopInvStep, PTL DEF Spec
=============================================================================
