--------------------------- MODULE SchedulerProofs ---------------------------
(***************************************************************************)
(* Proofs about the execution scheduler, for any sets of calls, limits and *)
(* timeouts.                                                               *)
(***************************************************************************)
EXTENDS Scheduler, FiniteSetTheorems, SequenceTheorems, WellFoundedInduction, TLAPS

\* Every nonempty set of naturals has a least element.
LEMMA LeastNatural ==
  ASSUME NEW S \in SUBSET Nat, S # {}
  PROVE  \E n \in S : \A m \in S : n <= m
<1>1. PICK n \in S : \A m \in S : ~(<<m, n>> \in OpToRel(<, Nat))
  BY WFMin, NatLessThanWellFounded, Zenon
<1>2. \A m \in S : ~(m < n)
  BY <1>1 DEF OpToRel
<1> QED
  BY <1>2

\* The dispatch loop stops: LapsedHeads counts a prefix of lapsed jobs that is
\* the whole queue or is followed by a live job.
LEMMA LapsedHeadsSpec ==
  ASSUME NEW q \in Seq(Jobs), NEW jobs \in [Jobs -> JobRecord]
  PROVE  /\ LapsedHeads(q, jobs) \in 0 .. Len(q)
         /\ \A i \in 1 .. LapsedHeads(q, jobs) : jobs[q[i]].queueLeft = 0
         /\ LapsedHeads(q, jobs) < Len(q)
              => jobs[q[LapsedHeads(q, jobs) + 1]].queueLeft > 0
<1> DEFINE Live(k) == jobs[q[k + 1]].queueLeft > 0
           S == {m \in 0 .. Len(q) : m < Len(q) => Live(m)}
<1>1. S \in SUBSET Nat /\ Len(q) \in S
  OBVIOUS
<1>2. PICK n \in S : \A m \in S : n <= m
  BY <1>1, LeastNatural
<1>3. \A i \in 1 .. n : jobs[q[i]].queueLeft = 0
  <2> SUFFICES ASSUME NEW i \in 1 .. n  PROVE jobs[q[i]].queueLeft = 0
    OBVIOUS
  <2>1. n \in 0 .. Len(q) /\ i - 1 \in 0 .. Len(q) /\ i - 1 < Len(q)
    OBVIOUS
  <2>3. i - 1 \notin S
    BY <2>1, <1>2
  <2>2. q[i] \in Jobs /\ jobs[q[i]].queueLeft \in Nat
    BY <2>1 DEF JobRecord
  <2> QED
    BY <2>1, <2>2, <2>3
<1> QED
  BY <1>2, <1>3 DEF LapsedHeads

-----------------------------------------------------------------------------
(* The inductive invariant.                                                *)

\* The queues hold exactly the queued jobs, each once and in its own class.
QueuesHoldQueued(qs, jobs) ==
  /\ \A c \in Classes : \A i \in 1 .. Len(qs[c]) :
       jobs[qs[c][i]].state = "queued" /\ ClassOf(qs[c][i]) = c
  /\ \A c \in Classes : \A i, k \in 1 .. Len(qs[c]) : qs[c][i] = qs[c][k] => i = k
  /\ \A j \in Jobs : jobs[j].state = "queued" =>
       \E i \in 1 .. Len(qs[ClassOf(j)]) : qs[ClassOf(j)][i] = j

RunningIn(c, jobs) ==
  IF \E j \in Jobs : ClassOf(j) = c /\ jobs[j].state = "running" THEN 1 ELSE 0

\* At most one job runs, exactly while the worker is active; permits are out
\* for the queued jobs and that one; a free worker leaves nothing queued.
SlotConsistent(qs, alloc, jobs, active) ==
  /\ QueuesHoldQueued(qs, jobs)
  /\ \A j, k \in Jobs : jobs[j].state = "running" /\ jobs[k].state = "running" => j = k
  /\ active <=> \E j \in Jobs : jobs[j].state = "running"
  /\ \A c \in Classes : alloc[c] = Len(qs[c]) + RunningIn(c, jobs)
  /\ ~active => \A c \in Classes : qs[c] = <<>>

\* The futures and the operation of a job agree with its state and with what
\* its caller knows.
JobConsistent(r, who) ==
  /\ r.operation = "active" => r.state = "running"
  /\ r.operation # "none" => r.started = "set"
  /\ r.started = "set" => r.state \in {"running", "finished"}
  /\ r.started = "failed" => r.state = "finished"
  /\ r.state = "running" => r.started = "set"
  /\ r.state = "queued" => r.started = "pending" /\ r.result = "pending" /\ who = "starting"
  /\ r.state = "running" /\ r.operation = "none" => r.result = "pending"
  /\ r.result \in {"value", "error"} => r.operation = r.result
  /\ r.result = "upstream_timeout" => r.operation # "none"
  /\ who = "queue_timeout" => r.state = "finished" /\ r.operation = "none"
  /\ who = "upstream_timeout" => r.operation # "none"
  /\ who \in {"value", "error"} => r.operation = who

SlotInv ==
  /\ TypeOK
  /\ SlotConsistent(queue, allocated, job, workerActive)
  /\ \A j \in Jobs : JobConsistent(job[j], caller[j])
-----------------------------------------------------------------------------
(* What the helpers do.                                                    *)

\* Every call has one of the two classes.
LEMMA ClassOfType == \A j \in Jobs : ClassOf(j) \in Classes
BY DEF ClassOf, Classes

\* A deadline is set: the earliest of a set of naturals is one of them.
LEMMA EarliestType ==
  ASSUME NEW d \in Nat, NEW S \in SUBSET Nat
  PROVE  Earliest({d} \cup S) \in Nat
<1>1. PICK n \in {d} \cup S : \A m \in {d} \cup S : n <= m
  BY LeastNatural
<1> QED
  BY <1>1 DEF Earliest

\* Removing a job that occurs once shifts the later ones by one.
LEMMA WithoutSpec ==
  ASSUME NEW q \in Seq(Jobs), NEW p \in 1 .. Len(q),
         \A i \in 1 .. Len(q) : q[i] = q[p] => i = p
  PROVE  /\ Without(q, q[p]) \in Seq(Jobs)
         /\ Len(Without(q, q[p])) = Len(q) - 1
         /\ \A i \in 1 .. Len(q) - 1 :
              Without(q, q[p])[i] = IF i < p THEN q[i] ELSE q[i + 1]
<1>1. (CHOOSE i \in DOMAIN q : q[i] = q[p]) = p
  OBVIOUS
<1>2. Without(q, q[p]) = SubSeq(q, 1, p - 1) \o SubSeq(q, p + 1, Len(q))
  BY <1>1 DEF Without, RemoveAt
<1> DEFINE a == SubSeq(q, 1, p - 1)
           b == SubSeq(q, p + 1, Len(q))
<1>3. /\ a \in Seq(Jobs) /\ Len(a) = p - 1
      /\ \A i \in 1 .. p - 1 : a[i] = q[i]
  OBVIOUS
<1>4. /\ b \in Seq(Jobs) /\ Len(b) = Len(q) - p
      /\ \A i \in 1 .. Len(q) - p : b[i] = q[p + i]
  OBVIOUS
<1> HIDE DEF a, b
<1>5. /\ a \o b \in Seq(Jobs)
      /\ Len(a \o b) = Len(a) + Len(b)
      /\ \A i \in 1 .. Len(a) + Len(b) :
           (a \o b)[i] = IF i <= Len(a) THEN a[i] ELSE b[i - Len(a)]
  BY <1>3, <1>4, ConcatProperties
<1>6. \A i \in 1 .. Len(q) - 1 : (a \o b)[i] = IF i < p THEN q[i] ELSE q[i + 1]
  <2> SUFFICES ASSUME NEW i \in 1 .. Len(q) - 1
               PROVE  (a \o b)[i] = IF i < p THEN q[i] ELSE q[i + 1]
    OBVIOUS
  <2>1. CASE i < p
    BY <2>1, <1>3, <1>4, <1>5
  <2>2. CASE ~(i < p)
    <3>1. /\ i - (p - 1) \in 1 .. Len(q) - p /\ p + (i - (p - 1)) = i + 1
          /\ ~(i <= Len(a)) /\ i \in 1 .. Len(a) + Len(b)
      BY <2>2, <1>3, <1>4
    <3>2. (a \o b)[i] = b[i - (p - 1)]
      BY <3>1, <1>3, <1>5
    <3> QED
      BY <2>2, <3>1, <3>2, <1>4
  <2> QED
    BY <2>1, <2>2
<1>7. Without(q, q[p]) = a \o b
  BY <1>2 DEF a, b
<1>8. Len(a \o b) = Len(q) - 1
  BY <1>3, <1>4, <1>5
<1> QED
  BY <1>5, <1>6, <1>7, <1>8

\* What a job's record is after it is withdrawn or dispatched.
LEMMA RecordFields ==
  ASSUME NEW r \in JobRecord
  PROVE  /\ Expired(r) \in JobRecord /\ Removed(r) \in JobRecord /\ Dispatched(r) \in JobRecord
         /\ Expired(r).state = "finished" /\ Expired(r).started = "failed"
         /\ Expired(r).result = "cancelled" /\ Expired(r).operation = r.operation
         /\ Removed(r).state = "finished" /\ Removed(r).started = "cancelled"
         /\ Removed(r).result = "cancelled" /\ Removed(r).operation = r.operation
         /\ Dispatched(r).state = "running" /\ Dispatched(r).started = "set"
         /\ Dispatched(r).result = r.result /\ Dispatched(r).operation = r.operation
         /\ Expired(r).requestLeft = {} /\ Removed(r).requestLeft = {}
         /\ Dispatched(r).requestLeft = r.requestLeft
         /\ Dispatched(r).queueLeft = r.queueLeft
BY DEF Expired, Removed, Dispatched, JobRecord, Ended

\* The job a dispatch starts is live, the jobs before it have left its queue,
\* and if it is a background job no protected one is left.
DispatchedInTurn(qs, j) ==
  /\ job'[j].queueLeft > 0
  /\ \E n \in 1 .. Len(qs[ClassOf(j)]) :
       /\ qs[ClassOf(j)][n] = j
       /\ \A i \in 1 .. n - 1 : job'[qs[ClassOf(j)][i]].state # "queued"
  /\ ClassOf(j) = "background" => queue'["protected"] = <<>>

\* The dispatch loop, on a free worker, drops a prefix of each queue and
\* starts at most the job that follows it.
LEMMA LapsedSpec ==
  ASSUME NEW qs \in [Classes -> Seq(Jobs)], NEW jobs \in [Jobs -> JobRecord]
  PROVE  /\ Lapsed(qs, jobs) \in [Classes -> Nat]
         /\ \A c \in Classes : Lapsed(qs, jobs)[c] \in 0 .. Len(qs[c])
         /\ \A c \in Classes : \A i \in 1 .. Lapsed(qs, jobs)[c] : jobs[qs[c][i]].queueLeft = 0
         /\ Lapsed(qs, jobs)["protected"] < Len(qs["protected"])
              => jobs[qs["protected"][Lapsed(qs, jobs)["protected"] + 1]].queueLeft > 0
         /\ (/\ Lapsed(qs, jobs)["protected"] = Len(qs["protected"])
             /\ Lapsed(qs, jobs)["background"] < Len(qs["background"]))
              => jobs[qs["background"][Lapsed(qs, jobs)["background"] + 1]].queueLeft > 0
<1>1. qs["protected"] \in Seq(Jobs) /\ qs["background"] \in Seq(Jobs)
  BY DEF Classes
<1> DEFINE p == LapsedHeads(qs["protected"], jobs)
           b == LapsedHeads(qs["background"], jobs)
<1>2. /\ p \in 0 .. Len(qs["protected"])
      /\ \A i \in 1 .. p : jobs[qs["protected"][i]].queueLeft = 0
      /\ p < Len(qs["protected"]) => jobs[qs["protected"][p + 1]].queueLeft > 0
  BY <1>1, LapsedHeadsSpec
<1>3. /\ b \in 0 .. Len(qs["background"])
      /\ \A i \in 1 .. b : jobs[qs["background"][i]].queueLeft = 0
      /\ b < Len(qs["background"]) => jobs[qs["background"][b + 1]].queueLeft > 0
  BY <1>1, LapsedHeadsSpec
<1>4. Lapsed(qs, jobs) = [c \in Classes |-> IF c = "protected" THEN p
                                            ELSE IF p < Len(qs["protected"]) THEN 0 ELSE b]
  BY DEF Lapsed
<1> HIDE DEF p, b
<1>5. /\ Lapsed(qs, jobs)["protected"] = p
      /\ Lapsed(qs, jobs)["background"] = IF p < Len(qs["protected"]) THEN 0 ELSE b
  BY <1>4 DEF Classes
<1>6. /\ Lapsed(qs, jobs) \in [Classes -> Nat]
      /\ \A c \in Classes : Lapsed(qs, jobs)[c] \in 0 .. Len(qs[c])
  BY <1>1, <1>2, <1>3, <1>4 DEF Classes
<1>7. \A c \in Classes : \A i \in 1 .. Lapsed(qs, jobs)[c] : jobs[qs[c][i]].queueLeft = 0
  BY <1>2, <1>3, <1>5 DEF Classes
<1>8. (/\ Lapsed(qs, jobs)["protected"] = Len(qs["protected"])
       /\ Lapsed(qs, jobs)["background"] < Len(qs["background"]))
        => jobs[qs["background"][Lapsed(qs, jobs)["background"] + 1]].queueLeft > 0
  BY <1>2, <1>3, <1>5
<1> QED
  BY <1>2, <1>5, <1>6, <1>7, <1>8

\* What _dispatch_locked keeps, and what it says of each job.
LEMMA DispatchSpec ==
  ASSUME NEW qs \in [Classes -> Seq(Jobs)], NEW alloc \in [Classes -> Nat],
         NEW jobs \in [Jobs -> JobRecord],
         QueuesHoldQueued(qs, jobs),
         \A c \in Classes : alloc[c] = Len(qs[c]),
         \A j \in Jobs : jobs[j].state # "running",
         Dispatch(qs, alloc, jobs)
  PROVE  /\ queue' \in [Classes -> Seq(Jobs)]
         /\ allocated' \in [Classes -> Nat]
         /\ job' \in [Jobs -> JobRecord]
         /\ workerActive' \in BOOLEAN
         /\ SlotConsistent(queue', allocated', job', workerActive')
         /\ \A j \in Jobs :
              \/ job'[j] = jobs[j]
              \/ /\ jobs[j].state = "queued"
                 /\ job'[j] = Expired(jobs[j]) \/ job'[j] = Dispatched(jobs[j])
         /\ \A j \in Jobs : job'[j].state = "running" => DispatchedInTurn(qs, j)
<1> DEFINE lapsed == Lapsed(qs, jobs)
           live == [c \in Classes |-> SubSeq(qs[c], lapsed[c] + 1, Len(qs[c]))]
           from == NextClass(live)
           off(c) == lapsed[c] + (IF c \in from THEN 1 ELSE 0)
           expires(j) == \E i \in 1 .. lapsed[ClassOf(j)] : qs[ClassOf(j)][i] = j
           starts(j) == ClassOf(j) \in from /\ Head(live[ClassOf(j)]) = j
<1>1. /\ lapsed \in [Classes -> Nat]
      /\ \A c \in Classes : lapsed[c] \in 0 .. Len(qs[c])
  BY LapsedSpec
<1>2. /\ queue' = [c \in Classes |-> IF c \in from THEN Tail(live[c]) ELSE live[c]]
      /\ allocated' = [c \in Classes |-> alloc[c] - lapsed[c]]
      /\ job' = [j \in Jobs |-> IF expires(j) THEN Expired(jobs[j])
                                ELSE IF starts(j) THEN Dispatched(jobs[j])
                                ELSE jobs[j]]
      /\ workerActive' = (from # {})
  BY DEF Dispatch
<1>L. /\ lapsed["protected"] < Len(qs["protected"])
           => jobs[qs["protected"][lapsed["protected"] + 1]].queueLeft > 0
      /\ (/\ lapsed["protected"] = Len(qs["protected"])
          /\ lapsed["background"] < Len(qs["background"]))
           => jobs[qs["background"][lapsed["background"] + 1]].queueLeft > 0
  BY LapsedSpec
<1> HIDE DEF lapsed
<1>3. \A c \in Classes :
        /\ live[c] \in Seq(Jobs)
        /\ Len(live[c]) = Len(qs[c]) - lapsed[c]
        /\ \A i \in 1 .. Len(live[c]) : live[c][i] = qs[c][lapsed[c] + i]
  BY <1>1
<1> HIDE DEF live
<1>4. /\ from \subseteq Classes
      /\ \A c \in from : live[c] # <<>>
      /\ \A c, d \in from : c = d
      /\ from = {} => \A c \in Classes : live[c] = <<>>
      /\ "background" \in from => live["protected"] = <<>> /\ "protected" \notin from
  BY DEF NextClass, Classes
<1> HIDE DEF from
<1>5. \A c \in Classes : off(c) \in 0 .. Len(qs[c])
  BY <1>1, <1>3, <1>4
<1>6. \A c \in Classes :
        /\ queue'[c] \in Seq(Jobs)
        /\ Len(queue'[c]) = Len(qs[c]) - off(c)
        /\ \A i \in 1 .. Len(queue'[c]) : queue'[c][i] = qs[c][off(c) + i]
  <2> SUFFICES ASSUME NEW c \in Classes
               PROVE  /\ queue'[c] \in Seq(Jobs)
                      /\ Len(queue'[c]) = Len(qs[c]) - off(c)
                      /\ \A i \in 1 .. Len(queue'[c]) : queue'[c][i] = qs[c][off(c) + i]
    OBVIOUS
  <2>1. CASE c \in from
    <3>1. queue'[c] = Tail(live[c])
      BY <1>2, <2>1
    <3>2. live[c] # <<>>
      BY <1>4, <2>1
    <3> QED
      BY <3>1, <3>2, <2>1, <1>1, <1>3, HeadTailProperties
  <2>2. CASE c \notin from
    BY <2>2, <1>1, <1>2, <1>3
  <2> QED
    BY <2>1, <2>2
<1>7. \A j \in Jobs : starts(j) <=> ClassOf(j) \in from /\ j = qs[ClassOf(j)][lapsed[ClassOf(j)] + 1]
  <2>1. \A c \in from : Head(live[c]) = qs[c][lapsed[c] + 1]
    <3> SUFFICES ASSUME NEW c \in from  PROVE Head(live[c]) = qs[c][lapsed[c] + 1]
      OBVIOUS
    <3>1. /\ live[c] \in Seq(Jobs) /\ Len(live[c]) \in Nat /\ live[c] # <<>>
          /\ \A i \in 1 .. Len(live[c]) : live[c][i] = qs[c][lapsed[c] + i]
      BY <1>3, <1>4
    <3>2. Len(live[c]) > 0 /\ Head(live[c]) = live[c][1]
      BY <3>1
    <3> QED
      BY <3>1, <3>2
  <2> QED
    BY <2>1
<1> HIDE DEF starts
<1>8. \A j \in Jobs :
        /\ expires(j) => jobs[j].state = "queued"
        /\ starts(j) => jobs[j].state = "queued" /\ ~expires(j)
  <2> SUFFICES ASSUME NEW j \in Jobs
               PROVE  /\ expires(j) => jobs[j].state = "queued"
                      /\ starts(j) => jobs[j].state = "queued" /\ ~expires(j)
    OBVIOUS
  <2> DEFINE c == ClassOf(j)
  <2>1. c \in Classes
    BY ClassOfType
  <2>2. c \in from => lapsed[c] + 1 \in 1 .. Len(qs[c])
    BY <2>1, <1>1, <1>5
  <2> QED
    BY <2>1, <2>2, <1>1, <1>7 DEF QueuesHoldQueued
<1>9. \A j \in Jobs :
        /\ job'[j] \in JobRecord
        /\ expires(j) => job'[j] = Expired(jobs[j]) /\ job'[j].state = "finished"
        /\ starts(j) => job'[j] = Dispatched(jobs[j]) /\ job'[j].state = "running"
        /\ ~expires(j) /\ ~starts(j) => job'[j] = jobs[j]
  BY <1>2, <1>8, RecordFields
<1>10. \A c \in Classes : \A i \in 1 .. Len(queue'[c]) :
         LET j == queue'[c][i]
         IN  j \in Jobs /\ ClassOf(j) = c /\ ~expires(j) /\ ~starts(j)
  <2> SUFFICES ASSUME NEW c \in Classes, NEW i \in 1 .. Len(queue'[c])
               PROVE  LET j == queue'[c][i]
                      IN  j \in Jobs /\ ClassOf(j) = c /\ ~expires(j) /\ ~starts(j)
    OBVIOUS
  <2>1. queue'[c][i] = qs[c][off(c) + i] /\ off(c) + i \in 1 .. Len(qs[c])
    BY <1>5, <1>6
  <2>2. queue'[c][i] \in Jobs /\ ClassOf(queue'[c][i]) = c
    BY <2>1 DEF QueuesHoldQueued
  <2>3. \A k \in 1 .. Len(qs[c]) : qs[c][k] = queue'[c][i] => k = off(c) + i
    BY <2>1 DEF QueuesHoldQueued
  <2>4. ~expires(queue'[c][i])
    BY <2>2, <2>3, <1>1
  <2>5. ~starts(queue'[c][i])
    BY <2>2, <2>3, <1>1, <1>5, <1>7
  <2> QED
    BY <2>2, <2>4, <2>5
<1>11. \A j \in Jobs : jobs[j].state = "queued" /\ ~expires(j) /\ ~starts(j) =>
         \E i \in 1 .. Len(queue'[ClassOf(j)]) : queue'[ClassOf(j)][i] = j
  <2> SUFFICES ASSUME NEW j \in Jobs, jobs[j].state = "queued", ~expires(j), ~starts(j)
               PROVE  \E i \in 1 .. Len(queue'[ClassOf(j)]) : queue'[ClassOf(j)][i] = j
    OBVIOUS
  <2> DEFINE c == ClassOf(j)
  <2>1. c \in Classes
    BY ClassOfType
  <2>2. PICK i \in 1 .. Len(qs[c]) : qs[c][i] = j
    BY DEF QueuesHoldQueued
  <2>3. i > lapsed[c]
    BY <2>1, <2>2, <1>1
  <2>4. c \in from => i # lapsed[c] + 1
    BY <2>2, <1>7
  <2>5. i - off(c) \in 1 .. Len(queue'[c]) /\ off(c) + (i - off(c)) = i
    <3>1. /\ off(c) \in Nat /\ off(c) < i
          /\ Len(queue'[c]) = Len(qs[c]) - off(c) /\ Len(qs[c]) \in Nat
      BY <2>1, <2>3, <2>4, <1>1, <1>6
    <3> HIDE DEF off
    <3> QED
      BY <3>1
  <2> HIDE DEF off
  <2> QED
    BY <2>1, <2>2, <2>5, <1>6
<1> HIDE DEF expires
<1>12. QueuesHoldQueued(queue', job')
  <2>1. \A c \in Classes : \A i \in 1 .. Len(queue'[c]) :
          job'[queue'[c][i]].state = "queued" /\ ClassOf(queue'[c][i]) = c
    <3> SUFFICES ASSUME NEW c \in Classes, NEW i \in 1 .. Len(queue'[c])
                 PROVE  job'[queue'[c][i]].state = "queued" /\ ClassOf(queue'[c][i]) = c
      OBVIOUS
    <3>1. queue'[c][i] = qs[c][off(c) + i] /\ off(c) + i \in 1 .. Len(qs[c])
      BY <1>5, <1>6
    <3> QED
      BY <3>1, <1>9, <1>10 DEF QueuesHoldQueued
  <2>2. \A c \in Classes : \A i, k \in 1 .. Len(queue'[c]) : queue'[c][i] = queue'[c][k] => i = k
    <3> SUFFICES ASSUME NEW c \in Classes, NEW i \in 1 .. Len(queue'[c]),
                        NEW k \in 1 .. Len(queue'[c]), queue'[c][i] = queue'[c][k]
                 PROVE  i = k
      OBVIOUS
    <3>1. /\ qs[c][off(c) + i] = qs[c][off(c) + k]
          /\ off(c) + i \in 1 .. Len(qs[c]) /\ off(c) + k \in 1 .. Len(qs[c])
      <4>1. queue'[c][i] = qs[c][off(c) + i] /\ queue'[c][k] = qs[c][off(c) + k]
        BY <1>6
      <4>2. off(c) \in Nat /\ Len(queue'[c]) = Len(qs[c]) - off(c) /\ Len(qs[c]) \in Nat
        BY <1>5, <1>6
      <4> HIDE DEF off
      <4>3. off(c) + i \in 1 .. Len(qs[c])
        BY <4>2
      <4>4. off(c) + k \in 1 .. Len(qs[c])
        BY <4>2
      <4> QED
        BY <4>1, <4>3, <4>4
    <3>2. off(c) + i = off(c) + k
      BY <3>1 DEF QueuesHoldQueued
    <3> QED
      BY <3>2, <1>5
  <2>3. \A j \in Jobs : job'[j].state = "queued" =>
          jobs[j].state = "queued" /\ ~expires(j) /\ ~starts(j)
    BY <1>9
  <2> QED
    BY <2>1, <2>2, <2>3, <1>11 DEF QueuesHoldQueued
<1>13. \A j \in Jobs : job'[j].state = "running" <=> starts(j)
  BY <1>8, <1>9
<1>14. \A c \in from : \E j \in Jobs : ClassOf(j) = c /\ starts(j)
  <2> SUFFICES ASSUME NEW c \in from
               PROVE  \E j \in Jobs : ClassOf(j) = c /\ starts(j)
    OBVIOUS
  <2>1. c \in Classes /\ lapsed[c] + 1 \in 1 .. Len(qs[c])
    BY <1>1, <1>4, <1>5
  <2>2. qs[c][lapsed[c] + 1] \in Jobs /\ ClassOf(qs[c][lapsed[c] + 1]) = c
    BY <2>1 DEF QueuesHoldQueued
  <2> QED
    BY <2>2, <1>7
<1>15. \A c \in Classes : RunningIn(c, job') = IF c \in from THEN 1 ELSE 0
  BY <1>7, <1>13, <1>14 DEF RunningIn
<1>16. \A c \in Classes : /\ allocated'[c] \in Nat
                          /\ allocated'[c] = Len(queue'[c]) + RunningIn(c, job')
  <2> SUFFICES ASSUME NEW c \in Classes
               PROVE  /\ allocated'[c] \in Nat
                      /\ allocated'[c] = Len(queue'[c]) + RunningIn(c, job')
    OBVIOUS
  <2>1. /\ allocated'[c] = Len(qs[c]) - lapsed[c] /\ lapsed[c] \in 0 .. Len(qs[c])
        /\ Len(queue'[c]) = Len(qs[c]) - off(c) /\ Len(qs[c]) \in Nat
    BY <1>1, <1>2, <1>6
  <2>2. off(c) = lapsed[c] + RunningIn(c, job') /\ RunningIn(c, job') \in {0, 1}
    BY <1>15
  <2>3. Len(queue'[c]) = Len(qs[c]) - (lapsed[c] + RunningIn(c, job'))
    BY <2>1, <2>2
  <2>4. lapsed[c] + RunningIn(c, job') \in 0 .. Len(qs[c])
    BY <2>2, <1>5
  <2> HIDE DEF off
  <2> QED
    BY <2>1, <2>2, <2>3, <2>4
<1>17. workerActive' <=> \E j \in Jobs : job'[j].state = "running"
  BY <1>2, <1>4, <1>7, <1>13, <1>14, ClassOfType
<1>18. \A j, k \in Jobs : job'[j].state = "running" /\ job'[k].state = "running" => j = k
  BY <1>4, <1>7, <1>13
<1>19. ~workerActive' => \A c \in Classes : queue'[c] = <<>>
  BY <1>2, <1>4
<1>20. /\ queue' \in [Classes -> Seq(Jobs)]
       /\ allocated' \in [Classes -> Nat]
       /\ job' \in [Jobs -> JobRecord]
       /\ workerActive' \in BOOLEAN
  BY <1>2, <1>6, <1>9, <1>16
<1>21. \A j \in Jobs :
         \/ job'[j] = jobs[j]
         \/ /\ jobs[j].state = "queued"
            /\ job'[j] = Expired(jobs[j]) \/ job'[j] = Dispatched(jobs[j])
  BY <1>8, <1>9
<1>22. ASSUME NEW j \in Jobs, job'[j].state = "running"
       PROVE  DispatchedInTurn(qs, j)
  <2> DEFINE c == ClassOf(j)
             n == lapsed[c] + 1
  <2>1. /\ starts(j) /\ c \in Classes /\ c \in from /\ j = qs[c][n]
    BY <1>7, <1>13, <1>22, ClassOfType
  <2>2. n \in 1 .. Len(qs[c]) /\ lapsed[c] < Len(qs[c])
    BY <2>1, <1>1, <1>5
  <2>3. \A i \in 1 .. n - 1 : job'[qs[c][i]].state # "queued"
    <3> SUFFICES ASSUME NEW i \in 1 .. n - 1  PROVE job'[qs[c][i]].state # "queued"
      OBVIOUS
    <3>1. i \in 1 .. lapsed[c] /\ i \in 1 .. Len(qs[c])
      BY <2>1, <2>2, <1>1
    <3>2. qs[c][i] \in Jobs /\ ClassOf(qs[c][i]) = c
      BY <2>1, <3>1 DEF QueuesHoldQueued
    <3>3. expires(qs[c][i])
      BY <3>1, <3>2 DEF expires
    <3> QED
      BY <3>2, <3>3, <1>9
  <2>4. c = "background" => queue'["protected"] = <<>>
    BY <2>1, <1>2, <1>4 DEF Classes
  <2>5. jobs[j].queueLeft > 0
    <3>1. CASE c = "protected"
      BY <3>1, <2>1, <2>2, <1>L
    <3>2. CASE c = "background"
      <4>1. Len(live["protected"]) = 0
        BY <3>2, <2>1, <1>4
      <4>2. lapsed["protected"] = Len(qs["protected"])
        BY <4>1, <1>1, <1>3 DEF Classes
      <4> QED
        BY <4>2, <3>2, <2>1, <2>2, <1>L
    <3> QED
      BY <2>1, <3>1, <3>2 DEF Classes
  <2>6. job'[j].queueLeft > 0
    BY <2>1, <2>5, <1>9, RecordFields
  <2> HIDE DEF n
  <2> QED
    BY <2>1, <2>2, <2>3, <2>4, <2>6 DEF DispatchedInTurn
<1> QED
  BY <1>12, <1>16, <1>17, <1>18, <1>19, <1>20, <1>21, <1>22 DEF SlotConsistent
-----------------------------------------------------------------------------
(* Steps that leave every job in, or out of, its place.                    *)

\* The slot only depends on which jobs are queued and which one runs.
LEMMA SameJobsOwed ==
  ASSUME NEW qs \in [Classes -> Seq(Jobs)], NEW alloc \in [Classes -> Nat],
         NEW active \in BOOLEAN,
         NEW old \in [Jobs -> JobRecord], NEW new \in [Jobs -> JobRecord],
         SlotConsistent(qs, alloc, old, active),
         \A j \in Jobs : /\ new[j].state = "queued" <=> old[j].state = "queued"
                         /\ new[j].state = "running" <=> old[j].state = "running"
  PROVE  SlotConsistent(qs, alloc, new, active)
<1>1. QueuesHoldQueued(qs, new)
  BY DEF SlotConsistent, QueuesHoldQueued
<1>2. \A c \in Classes : RunningIn(c, new) = RunningIn(c, old)
  BY DEF RunningIn
<1> QED
  BY <1>1, <1>2 DEF SlotConsistent

\* One record changes, without entering or leaving a queue or the slot.
LEMMA SameJobsOwedUpdate ==
  ASSUME TypeOK, SlotConsistent(queue, allocated, job, workerActive),
         NEW j \in Jobs, NEW r \in JobRecord,
         r.state = "queued" <=> job[j].state = "queued",
         r.state = "running" <=> job[j].state = "running",
         job' = [job EXCEPT ![j] = r],
         UNCHANGED <<queue, allocated, workerActive>>
  PROVE  SlotConsistent(queue', allocated', job', workerActive')
<1>1. job' \in [Jobs -> JobRecord] /\ job \in [Jobs -> JobRecord]
  BY DEF TypeOK
<1>2. \A k \in Jobs : /\ job'[k].state = "queued" <=> job[k].state = "queued"
                      /\ job'[k].state = "running" <=> job[k].state = "running"
  BY <1>1
<1>3. /\ queue \in [Classes -> Seq(Jobs)] /\ allocated \in [Classes -> Nat]
      /\ workerActive \in BOOLEAN
  BY DEF TypeOK
<1>4. SlotConsistent(queue, allocated, job', workerActive)
  <2>1. QueuesHoldQueued(queue, job')
    <3>1. QueuesHoldQueued(queue, job)
      BY DEF SlotConsistent
    <3>2. \A c \in Classes : \A i \in 1 .. Len(queue[c]) : queue[c][i] \in Jobs
      BY <1>3
    <3>3. \A c \in Classes : \A i \in 1 .. Len(queue[c]) :
            job'[queue[c][i]].state = "queued" /\ ClassOf(queue[c][i]) = c
      BY <1>2, <3>1, <3>2 DEF QueuesHoldQueued
    <3> QED
      BY <1>2, <3>1, <3>3 DEF QueuesHoldQueued
  <2>2. \A c \in Classes : RunningIn(c, job') = RunningIn(c, job)
    BY <1>2 DEF RunningIn
  <2> QED
    BY <1>2, <2>1, <2>2 DEF SlotConsistent
<1> QED
  BY <1>4

\* _release_queued_locked: one job leaves its queue, wherever it stands in it.
LEMMA ReleaseSpec ==
  ASSUME TypeOK, SlotConsistent(queue, allocated, job, workerActive),
         NEW j \in Jobs, job[j].state = "queued",
         NEW after \in JobRecord, after.state = "finished",
         ReleaseQueued(j, after), UNCHANGED workerActive
  PROVE  /\ queue' \in [Classes -> Seq(Jobs)]
         /\ allocated' \in [Classes -> Nat]
         /\ job' = [job EXCEPT ![j] = after]
         /\ idle' \in BOOLEAN
         /\ SlotConsistent(queue', allocated', job', workerActive')
<1> DEFINE c == ClassOf(j)
           q == queue[c]
<1>1. /\ c \in Classes /\ q \in Seq(Jobs)
      /\ \A d \in Classes : allocated[d] \in Nat /\ queue[d] \in Seq(Jobs)
  BY ClassOfType DEF TypeOK
<1>2. PICK p \in 1 .. Len(q) : q[p] = j
  BY DEF SlotConsistent, QueuesHoldQueued
<1>3. \A i \in 1 .. Len(q) : q[i] = q[p] => i = p
  BY <1>1 DEF SlotConsistent, QueuesHoldQueued
<1>4. /\ queue' = [queue EXCEPT ![c] = Without(q, j)]
      /\ allocated' = [allocated EXCEPT ![c] = @ - 1]
      /\ job' = [job EXCEPT ![j] = after]
      /\ idle' = (idle \/ Drained(allocated'))
  BY DEF ReleaseQueued, Freed
<1>5. /\ Without(q, j) \in Seq(Jobs)
      /\ Len(Without(q, j)) = Len(q) - 1
      /\ \A i \in 1 .. Len(q) - 1 : Without(q, j)[i] = IF i < p THEN q[i] ELSE q[i + 1]
  <2>1. /\ Without(q, q[p]) \in Seq(Jobs)
        /\ Len(Without(q, q[p])) = Len(q) - 1
        /\ \A i \in 1 .. Len(q) - 1 :
             Without(q, q[p])[i] = IF i < p THEN q[i] ELSE q[i + 1]
    <3> HIDE DEF q
    <3> QED
      BY <1>1, <1>3, WithoutSpec
  <2> QED
    BY <1>2, <2>1
<1> DEFINE w == Without(q, j)
<1> HIDE DEF w
<1>6. /\ queue' \in [Classes -> Seq(Jobs)]
      /\ queue'[c] = w
      /\ \A d \in Classes \ {c} : queue'[d] = queue[d]
  BY <1>1, <1>4, <1>5 DEF TypeOK, w
<1>7. job' \in [Jobs -> JobRecord] /\ job'[j] = after /\ \A k \in Jobs \ {j} : job'[k] = job[k]
  BY <1>4 DEF TypeOK
<1> DEFINE from(i) == IF i < p THEN i ELSE i + 1
<1>8. \A i \in 1 .. Len(w) :
        from(i) \in 1 .. Len(q) /\ from(i) # p /\ w[i] = q[from(i)] /\ w[i] \in Jobs \ {j}
  <2> SUFFICES ASSUME NEW i \in 1 .. Len(w)
               PROVE  /\ from(i) \in 1 .. Len(q) /\ from(i) # p
                      /\ w[i] = q[from(i)] /\ w[i] \in Jobs \ {j}
    OBVIOUS
  <2>1. i \in 1 .. Len(q) - 1
    BY <1>5 DEF w
  <2>2. from(i) \in 1 .. Len(q) /\ from(i) # p
    BY <2>1, <1>1
  <2>3. w[i] = q[from(i)]
    BY <2>1, <1>5 DEF w
  <2> HIDE DEF from
  <2> QED
    BY <2>2, <2>3, <1>1, <1>2, <1>3
<1>9. \A k \in 1 .. Len(q) : k # p => \E i \in 1 .. Len(w) : w[i] = q[k]
  <2> SUFFICES ASSUME NEW k \in 1 .. Len(q), k # p
               PROVE  \E i \in 1 .. Len(w) : w[i] = q[k]
    OBVIOUS
  <2>1. CASE k < p
    BY <2>1, <1>2, <1>5 DEF w
  <2>2. CASE k > p
    <3>1. k - 1 \in 1 .. Len(q) - 1 /\ ~(k - 1 < p) /\ (k - 1) + 1 = k
      BY <2>2, <1>2
    <3> QED
      BY <3>1, <1>5 DEF w
  <2> QED
    BY <2>1, <2>2, <1>2
<1>10. QueuesHoldQueued(queue', job')
  <2> USE DEF SlotConsistent, QueuesHoldQueued
  <2>1. \A d \in Classes : \A i \in 1 .. Len(queue'[d]) :
          job'[queue'[d][i]].state = "queued" /\ ClassOf(queue'[d][i]) = d
    <3>1. \A i \in 1 .. Len(w) : job'[w[i]].state = "queued" /\ ClassOf(w[i]) = c
      <4> HIDE DEF from
      <4> QED
        BY <1>1, <1>7, <1>8
    <3>2. \A d \in Classes \ {c} : \A i \in 1 .. Len(queue[d]) :
            queue[d][i] \in Jobs \ {j}
      BY <1>1
    <3>3. \A d \in Classes \ {c} : \A i \in 1 .. Len(queue[d]) :
            job'[queue[d][i]].state = "queued" /\ ClassOf(queue[d][i]) = d
      BY <3>2, <1>7
    <3> QED
      BY <3>1, <3>3, <1>6
  <2>2. \A d \in Classes : \A i, k \in 1 .. Len(queue'[d]) : queue'[d][i] = queue'[d][k] => i = k
    <3>1. \A i, k \in 1 .. Len(w) : w[i] = w[k] => i = k
      <4> SUFFICES ASSUME NEW i \in 1 .. Len(w), NEW k \in 1 .. Len(w), w[i] = w[k]
                   PROVE  i = k
        OBVIOUS
      <4>1. q[from(i)] = q[from(k)] /\ from(i) \in 1 .. Len(q) /\ from(k) \in 1 .. Len(q)
        BY <1>8
      <4>2. from(i) = from(k)
        BY <4>1, <1>1
      <4> QED
        BY <4>2, <1>2
    <3>2. \A d \in Classes \ {c} : \A i, k \in 1 .. Len(queue[d]) :
            queue[d][i] = queue[d][k] => i = k
      OBVIOUS
    <3> QED
      BY <3>1, <3>2, <1>6
  <2>3. \A k \in Jobs : job'[k].state = "queued" =>
          \E i \in 1 .. Len(queue'[ClassOf(k)]) : queue'[ClassOf(k)][i] = k
    <3> SUFFICES ASSUME NEW k \in Jobs, job'[k].state = "queued"
                 PROVE  \E i \in 1 .. Len(queue'[ClassOf(k)]) : queue'[ClassOf(k)][i] = k
      OBVIOUS
    <3>1. k # j /\ job[k].state = "queued"
      BY <1>7
    <3>2. PICK i \in 1 .. Len(queue[ClassOf(k)]) : queue[ClassOf(k)][i] = k
      BY <3>1
    <3>3. CASE ClassOf(k) = c
      BY <3>1, <3>2, <3>3, <1>2, <1>6, <1>9
    <3>4. CASE ClassOf(k) # c
      BY <3>2, <3>4, <1>6, ClassOfType
    <3> QED
      BY <3>3, <3>4
  <2> QED
    BY <2>1, <2>2, <2>3
<1>11. \A k \in Jobs : job'[k].state = "running" <=> job[k].state = "running"
  BY <1>7
<1>12. \A d \in Classes : RunningIn(d, job') = RunningIn(d, job) /\ RunningIn(d, job) \in {0, 1}
  BY <1>11 DEF RunningIn
<1>13. \A d \in Classes : /\ allocated'[d] \in Nat
                          /\ allocated'[d] = Len(queue'[d]) + RunningIn(d, job')
  <2>1. allocated[c] = Len(q) + RunningIn(c, job) /\ Len(q) \in Nat \ {0}
    BY <1>1, <1>2 DEF SlotConsistent
  <2>2. allocated'[c] = allocated[c] - 1
    BY <1>1, <1>4 DEF TypeOK
  <2>3. Len(queue'[c]) = Len(q) - 1
    BY <1>5, <1>6 DEF w
  <2>4. allocated'[c] \in Nat /\ allocated'[c] = Len(queue'[c]) + RunningIn(c, job')
    BY <2>1, <2>2, <2>3, <1>1, <1>12
  <2>5. \A d \in Classes \ {c} : allocated'[d] = allocated[d]
    BY <1>4 DEF TypeOK
  <2> QED
    BY <2>4, <2>5, <1>1, <1>6, <1>12 DEF SlotConsistent
<1>14. allocated' \in [Classes -> Nat]
  BY <1>4, <1>13 DEF TypeOK
<1>15. workerActive
  BY <1>1, <1>2 DEF SlotConsistent
<1>16. \A k, m \in Jobs : job'[k].state = "running" /\ job'[m].state = "running" => k = m
  BY <1>1, <1>11 DEF SlotConsistent
<1>17. workerActive' <=> \E k \in Jobs : job'[k].state = "running"
  BY <1>1, <1>4, <1>11 DEF SlotConsistent
<1> QED
  BY <1>4, <1>6, <1>10, <1>13, <1>14, <1>15, <1>16, <1>17 DEF SlotConsistent

\* A new job goes to the back of its class's queue.
LEMMA AppendSpec ==
  ASSUME NEW qs \in [Classes -> Seq(Jobs)], NEW jobs \in [Jobs -> JobRecord],
         QueuesHoldQueued(qs, jobs),
         NEW j \in Jobs, jobs[j].state # "queued",
         NEW r \in JobRecord, r.state = "queued"
  PROVE  LET longer == [qs EXCEPT ![ClassOf(j)] = Append(@, j)]
             after  == [jobs EXCEPT ![j] = r]
         IN  /\ longer \in [Classes -> Seq(Jobs)]
             /\ \A c \in Classes :
                  Len(longer[c]) = Len(qs[c]) + (IF c = ClassOf(j) THEN 1 ELSE 0)
             /\ after \in [Jobs -> JobRecord]
             /\ QueuesHoldQueued(longer, after)
<1> DEFINE c == ClassOf(j)
           q == qs[c]
           w == Append(q, j)
           longer == [qs EXCEPT ![c] = w]
           after == [jobs EXCEPT ![j] = r]
<1>1. c \in Classes /\ q \in Seq(Jobs) /\ Len(q) \in Nat
  BY ClassOfType
<1>2. /\ w \in Seq(Jobs) /\ Len(w) = Len(q) + 1
      /\ \A i \in 1 .. Len(q) : w[i] = q[i]
      /\ w[Len(q) + 1] = j
  BY <1>1, AppendProperties
<1> HIDE DEF w
<1>3. /\ longer \in [Classes -> Seq(Jobs)]
      /\ longer[c] = w
      /\ \A d \in Classes \ {c} : longer[d] = qs[d]
  BY <1>1, <1>2
<1>4. after \in [Jobs -> JobRecord] /\ after[j] = r /\ \A k \in Jobs \ {j} : after[k] = jobs[k]
  OBVIOUS
<1> HIDE DEF longer, after
<1>5. \A i \in 1 .. Len(w) : i \in 1 .. Len(q) \/ i = Len(q) + 1
  BY <1>1, <1>2
<1>6. \A d \in Classes : \A i \in 1 .. Len(qs[d]) : qs[d][i] \in Jobs \ {j}
  BY DEF QueuesHoldQueued
<1>7. \A d \in Classes : \A i \in 1 .. Len(longer[d]) :
        after[longer[d][i]].state = "queued" /\ ClassOf(longer[d][i]) = d
  <2>1. \A d \in Classes : \A i \in 1 .. Len(qs[d]) :
          jobs[qs[d][i]].state = "queued" /\ ClassOf(qs[d][i]) = d
    BY DEF QueuesHoldQueued
  <2>2. \A d \in Classes : \A i \in 1 .. Len(qs[d]) :
          after[qs[d][i]].state = "queued" /\ ClassOf(qs[d][i]) = d
    BY <1>4, <1>6, <2>1
  <2>3. after[j].state = "queued" /\ ClassOf(j) = c
    BY <1>4
  <2>4. \A i \in 1 .. Len(w) : after[w[i]].state = "queued" /\ ClassOf(w[i]) = c
    <3> SUFFICES ASSUME NEW i \in 1 .. Len(w)
                 PROVE  after[w[i]].state = "queued" /\ ClassOf(w[i]) = c
      OBVIOUS
    <3>1. CASE i = Len(q) + 1
      BY <1>2, <2>3, <3>1
    <3>2. CASE i \in 1 .. Len(q)
      <4>1. w[i] = q[i]
        BY <1>2, <3>2
      <4> QED
        BY <1>1, <2>2, <3>2, <4>1
    <3> QED
      BY <1>5, <3>1, <3>2
  <2> QED
    BY <2>2, <2>4, <1>3
<1>8. \A d \in Classes : \A i, k \in 1 .. Len(longer[d]) : longer[d][i] = longer[d][k] => i = k
  <2>1. \A i, k \in 1 .. Len(w) : w[i] = w[k] => i = k
    <3>1. \A i, k \in 1 .. Len(q) : q[i] = q[k] => i = k
      BY <1>1 DEF QueuesHoldQueued
    <3>2. \A i \in 1 .. Len(q) : w[i] = q[i] /\ w[i] # j
      BY <1>1, <1>2, <1>6
    <3> QED
      BY <1>2, <1>5, <3>1, <3>2
  <2>2. \A d \in Classes \ {c} : \A i, k \in 1 .. Len(qs[d]) : qs[d][i] = qs[d][k] => i = k
    BY DEF QueuesHoldQueued
  <2> QED
    BY <2>1, <2>2, <1>3
<1>9. \A k \in Jobs : after[k].state = "queued" =>
        \E i \in 1 .. Len(longer[ClassOf(k)]) : longer[ClassOf(k)][i] = k
  <2> SUFFICES ASSUME NEW k \in Jobs, after[k].state = "queued"
               PROVE  \E i \in 1 .. Len(longer[ClassOf(k)]) : longer[ClassOf(k)][i] = k
    OBVIOUS
  <2>1. CASE k = j
    <3>1. Len(q) + 1 \in 1 .. Len(w)
      BY <1>1, <1>2
    <3> QED
      BY <2>1, <3>1, <1>2, <1>3
  <2>2. CASE k # j
    <3>1. PICK i \in 1 .. Len(qs[ClassOf(k)]) : qs[ClassOf(k)][i] = k
      BY <2>2, <1>4 DEF QueuesHoldQueued
    <3>2. CASE ClassOf(k) = c
      <4>1. i \in 1 .. Len(w) /\ w[i] = k
        BY <3>1, <3>2, <1>1, <1>2
      <4> QED
        BY <4>1, <3>2, <1>3
    <3>3. CASE ClassOf(k) # c
      BY <3>1, <3>3, <1>3, ClassOfType
    <3> QED
      BY <3>2, <3>3
  <2> QED
    BY <2>1, <2>2
<1>10. \A d \in Classes : Len(longer[d]) = Len(qs[d]) + (IF d = c THEN 1 ELSE 0)
  BY <1>1, <1>2, <1>3
<1>11. QueuesHoldQueued(longer, after)
  BY <1>7, <1>8, <1>9 DEF QueuesHoldQueued
<1> QED
  BY <1>3, <1>4, <1>10, <1>11 DEF longer, after, w

\* A job ends with the result it is given.
LEMMA CompletedFields ==
  ASSUME NEW r \in JobRecord, NEW v \in {"pending", "upstream_timeout"} \cup Ended
  PROVE  /\ Completed(r, v) \in JobRecord
         /\ Completed(r, v).state = "finished" /\ Completed(r, v).started = r.started
         /\ Completed(r, v).result = v /\ Completed(r, v).operation = r.operation
         /\ Completed(r, v).requestLeft = r.requestLeft
<1> DEFINE a == [r EXCEPT !.state = "finished", !.result = v]
<1>1. /\ a \in JobRecord
      /\ a.state = "finished" /\ a.started = r.started /\ a.result = v
      /\ a.operation = r.operation /\ a.requestLeft = r.requestLeft
  BY DEF JobRecord
<1>2. Completed(r, v) = [a EXCEPT !.execLeft = 0]
  BY DEF Completed
<1> HIDE DEF a
<1> QED
  BY <1>1, <1>2 DEF JobRecord

\* The steps of one job's lifecycle and of its caller.
LEMMA MoreRecordFields ==
  ASSUME NEW r \in JobRecord
  PROVE  /\ Unarmed(r) \in JobRecord
         /\ Unarmed(r).state = r.state /\ Unarmed(r).started = r.started
         /\ Unarmed(r).result = r.result /\ Unarmed(r).operation = r.operation
         /\ Unarmed(r).requestLeft = r.requestLeft
         /\ \A n \in Nat :
              /\ Begun(r, n) \in JobRecord
              /\ Begun(r, n).state = r.state /\ Begun(r, n).started = r.started
              /\ Begun(r, n).result = IF n = 0 THEN "upstream_timeout" ELSE r.result
              /\ Begun(r, n).operation = "active"
              /\ Begun(r, n).requestLeft = {}
         /\ \A v \in {"pending", "upstream_timeout"} \cup Ended :
              /\ Completed(r, v) \in JobRecord
              /\ Completed(r, v).state = "finished" /\ Completed(r, v).started = r.started
              /\ Completed(r, v).result = v /\ Completed(r, v).operation = r.operation
              /\ Completed(r, v).requestLeft = r.requestLeft
<1>1. /\ Unarmed(r) \in JobRecord
      /\ Unarmed(r).state = r.state /\ Unarmed(r).started = r.started
      /\ Unarmed(r).result = r.result /\ Unarmed(r).operation = r.operation
      /\ Unarmed(r).requestLeft = r.requestLeft
  BY DEF Unarmed, JobRecord
<1>2. ASSUME NEW n \in Nat
      PROVE  /\ Begun(r, n) \in JobRecord
             /\ Begun(r, n).state = r.state /\ Begun(r, n).started = r.started
             /\ Begun(r, n).result = IF n = 0 THEN "upstream_timeout" ELSE r.result
             /\ Begun(r, n).operation = "active"
             /\ Begun(r, n).requestLeft = {}
  <2> DEFINE a == [r EXCEPT !.operation = "active", !.requestLeft = {}]
             v == IF n = 0 THEN "upstream_timeout" ELSE r.result
             b == [a EXCEPT !.result = v]
  <2>1. /\ a \in JobRecord
        /\ a.state = r.state /\ a.started = r.started /\ a.result = r.result
        /\ a.operation = "active" /\ a.requestLeft = {}
    BY DEF JobRecord
  <2>2. Begun(r, n) = [b EXCEPT !.execLeft = n]
    BY <2>1 DEF Begun, JobRecord
  <2>3. v \in {"pending", "upstream_timeout"} \cup Ended
    BY DEF JobRecord
  <2> HIDE DEF a, v
  <2>4. /\ b \in JobRecord
        /\ b.state = r.state /\ b.started = r.started /\ b.result = v
        /\ b.operation = "active" /\ b.requestLeft = {}
    BY <2>1, <2>3 DEF JobRecord
  <2> HIDE DEF b
  <2> QED
    BY <2>2, <2>4 DEF JobRecord, v
<1>3. \A v \in {"pending", "upstream_timeout"} \cup Ended :
        /\ Completed(r, v) \in JobRecord
        /\ Completed(r, v).state = "finished" /\ Completed(r, v).started = r.started
        /\ Completed(r, v).result = v /\ Completed(r, v).operation = r.operation
        /\ Completed(r, v).requestLeft = r.requestLeft
  BY CompletedFields
<1> QED
  BY <1>1, <1>2, <1>3

\* Time changes deadlines only.
LEMMA AgedFields ==
  ASSUME NEW r \in JobRecord, NEW who,
         \A m, n \in r.requestLeft : m = n
  PROVE  /\ Aged(r, who) \in JobRecord
         /\ Aged(r, who).state = r.state /\ Aged(r, who).started = r.started
         /\ Aged(r, who).result = r.result /\ Aged(r, who).operation = r.operation
         /\ \A m, n \in Aged(r, who).requestLeft : m = n
<1>1. \A n \in Nat : CountDown(n, 0) \in Nat
  BY DEF CountDown
<1>2. \A n \in Int : CountDown(n, -1) \in Int
  BY DEF CountDown
<1>3. /\ r.queueLeft \in Nat /\ r.execLeft \in Int /\ r.requestLeft \in SUBSET Nat
  BY DEF JobRecord
<1>4. {CountDown(n, 0) : n \in r.requestLeft} \in SUBSET Nat
  BY <1>1, <1>3
<1> QED
  BY <1>1, <1>2, <1>3, <1>4 DEF Aged, JobRecord

\* A new job is queued, and nothing has happened to it yet.
LEMMA NewJobFields ==
  ASSUME NEW j \in Jobs, NEW budget \in RequestDeadlines
  PROVE  /\ NewJob(j, budget) \in JobRecord
         /\ NewJob(j, budget).state = "queued" /\ NewJob(j, budget).started = "pending"
         /\ NewJob(j, budget).result = "pending" /\ NewJob(j, budget).operation = "none"
         /\ NewJob(j, budget).requestLeft = budget
         /\ \A m, n \in budget : m = n
<1>1. budget \in SUBSET Nat /\ \A m, n \in budget : m = n
  BY TimeoutsArePositive DEF RequestDeadlines
<1>2. QueueTimeout[ClassOf(j)] \in Nat
  BY TimeoutsArePositive, ClassOfType
<1>3. Earliest({QueueTimeout[ClassOf(j)]} \cup budget) \in Nat
  BY <1>1, <1>2, EarliestType
<1>4. /\ NoJob \in JobRecord /\ NoJob.started = "pending"
      /\ NoJob.result = "pending" /\ NoJob.operation = "none"
  BY DEF NoJob, JobRecord, Ended
<1> QED
  BY <1>1, <1>3, <1>4 DEF NewJob, JobRecord
-----------------------------------------------------------------------------
(* Every step keeps the invariant.                                         *)

CallerStates == {"absent"} \cup InCall \cup Answers
AtMostOne(S) == \A m, n \in S : m = n

\* All that a step does to a job, but for a new call under its name: it starts
\* from its queue, leaves its queue unstarted, or ends; a result stays.
Forward(r, next) ==
  /\ \/ next.state = r.state /\ next.started = r.started
     \/ r.state = "queued" /\ next.state = "running"
     \/ r.state = "queued" /\ next.state = "finished" /\ next.started # "set"
     \/ r.state = "running" /\ next.state = "finished" /\ next.started = r.started
  /\ r.result # "pending" => next.result = r.result

Kept(r, next) == Forward(r, next) /\ (next.state = "running" => r.state = "running")

\* A job that starts does so in its turn.
StartedFairly(j) ==
  /\ job'[j].queueLeft > 0
  /\ \A k \in Jobs : Ahead(k, j) => job'[k].state # "queued"
  /\ ClassOf(j) = "background" => queue'["protected"] = <<>>

\* What DispatchSpec says of the job it starts, in the words of the property.
LEMMA InTurnIsFair ==
  ASSUME SlotInv, NEW j \in Jobs, DispatchedInTurn(queue, j)
  PROVE  StartedFairly(j)
<1> DEFINE q == queue[ClassOf(j)]
<1>1. q \in Seq(Jobs)
  BY ClassOfType DEF SlotInv, TypeOK
<1>2. PICK n \in 1 .. Len(q) : q[n] = j /\ \A i \in 1 .. n - 1 : job'[q[i]].state # "queued"
  BY DEF DispatchedInTurn
<1>3. ASSUME NEW k \in Jobs, Ahead(k, j)  PROVE job'[k].state # "queued"
  <2>1. PICK m \in DOMAIN q : q[m] = k /\ \A i \in 1 .. m : q[i] # j
    BY <1>3 DEF Ahead
  <2>2. m \in 1 .. Len(q)
    BY <1>1, <2>1
  <2>3. ~(n <= m)
    BY <1>2, <2>1, <2>2
  <2>4. m \in 1 .. n - 1
    BY <2>2, <2>3
  <2> QED
    BY <1>2, <2>1, <2>4
<1> QED
  BY <1>3 DEF StartedFairly, DispatchedInTurn

\* A step of one call: its record or its caller changes, its place does not.
LEMMA OneCallStep ==
  ASSUME SlotInv, NEW j \in Jobs, NEW r \in JobRecord, NEW who \in CallerStates,
         AtMostOne(r.requestLeft), JobConsistent(r, who),
         r.state = "queued" <=> job[j].state = "queued",
         r.state = "running" <=> job[j].state = "running",
         job' = [job EXCEPT ![j] = r],
         caller' = [caller EXCEPT ![j] = who],
         UNCHANGED <<queue, allocated, workerActive, accepting, idle, shutdown>>
  PROVE  SlotInv'
<1>1. TypeOK /\ SlotConsistent(queue, allocated, job, workerActive)
  BY DEF SlotInv
<1>2. SlotConsistent(queue, allocated, job, workerActive)'
  BY <1>1, SameJobsOwedUpdate
<1>3. \A k \in Jobs \ {j} : job'[k] = job[k] /\ caller'[k] = caller[k]
  BY <1>1 DEF TypeOK
<1>4. job'[j] = r /\ caller'[j] = who
  BY <1>1 DEF TypeOK
<1>5. \A k \in Jobs : JobConsistent(job'[k], caller'[k]) /\ AtMostOne(job'[k].requestLeft)
  BY <1>3, <1>4 DEF SlotInv, TypeOK, AtMostOne
<1>6. TypeOK'
  BY <1>1, <1>5 DEF TypeOK, CallerStates, AtMostOne
<1> QED
  BY <1>2, <1>5, <1>6 DEF SlotInv

\* The invariant, for one job.
LEMMA KnownJob ==
  ASSUME SlotInv, NEW j \in Jobs
  PROVE  /\ job[j] \in JobRecord /\ AtMostOne(job[j].requestLeft)
         /\ caller[j] \in CallerStates
         /\ JobConsistent(job[j], caller[j])
BY DEF SlotInv, TypeOK, AtMostOne, CallerStates

\* execute() refuses the call.
LEMMA RejectKeeps ==
  ASSUME SlotInv, NEW j \in Jobs, Reject(j)
  PROVE  SlotInv'
<1>1. NoJob \in JobRecord /\ NoJob.state = "absent" /\ AtMostOne(NoJob.requestLeft)
  BY DEF NoJob, JobRecord, Ended, AtMostOne
<1>2. JobConsistent(NoJob, "rejected")
  BY DEF JobConsistent, NoJob
<1>3. job[j].state \notin {"queued", "running"}
  BY DEF Reject, Idle
<1>4. "rejected" \in CallerStates
  BY DEF CallerStates, Answers
<1> QED
  BY <1>1, <1>2, <1>3, <1>4, OneCallStep DEF Reject

\* The started future wakes its waiter.
LEMMA CallerResumesKeeps ==
  ASSUME SlotInv, NEW j \in Jobs, CallerResumes(j)
  PROVE  SlotInv'
<1>1. /\ job[j] \in JobRecord /\ AtMostOne(job[j].requestLeft)
      /\ JobConsistent(job[j], caller[j])
  BY KnownJob
<1>2. caller[j] = "starting" /\ job[j].started \in {"set", "failed", "cancelled"}
  BY <1>1 DEF CallerResumes, JobRecord
<1>3. AfterStart(j) \in CallerStates
  BY <1>2 DEF AfterStart, CallerStates, InCall, Answers, Ended
<1>4. JobConsistent(job[j], AfterStart(j))
  BY <1>1, <1>2 DEF JobConsistent, AfterStart
<1>5. /\ Unarmed(job[j]) \in JobRecord
      /\ Unarmed(job[j]).state = job[j].state
      /\ Unarmed(job[j]).requestLeft = job[j].requestLeft
      /\ JobConsistent(Unarmed(job[j]), AfterStart(j))
  BY <1>1, <1>4, MoreRecordFields DEF JobConsistent
<1> QED
  BY <1>1, <1>3, <1>5, OneCallStep DEF CallerResumes

\* The result future wakes its waiter.
LEMMA ResultArrivesKeeps ==
  ASSUME SlotInv, NEW j \in Jobs, ResultArrives(j)
  PROVE  SlotInv'
<1>1. /\ job[j] \in JobRecord /\ AtMostOne(job[j].requestLeft)
      /\ JobConsistent(job[j], caller[j])
  BY KnownJob
<1>2. job[j].result \in CallerStates
  BY <1>1 DEF ResultArrives, JobRecord, CallerStates, Answers
<1>3. caller[j] = "waiting" /\ job[j].result \in {"upstream_timeout"} \cup Ended
  BY <1>1 DEF ResultArrives, JobRecord
<1>4. JobConsistent(job[j], job[j].result)
  BY <1>1, <1>3 DEF JobConsistent, Ended
<1>5. job' = [job EXCEPT ![j] = job[j]]
  BY DEF ResultArrives, SlotInv, TypeOK
<1> QED
  BY <1>1, <1>2, <1>4, <1>5, OneCallStep DEF ResultArrives

\* _run_job fixes the execution deadline and creates the operation.
LEMMA LifecycleStartsKeeps ==
  ASSUME SlotInv, NEW j \in Jobs, LifecycleStarts(j)
  PROVE  SlotInv'
<1>1. /\ job[j] \in JobRecord /\ AtMostOne(job[j].requestLeft)
      /\ caller[j] \in CallerStates
      /\ JobConsistent(job[j], caller[j])
  BY KnownJob
<1>2. PICK budget \in Nat : job' = [job EXCEPT ![j] = Begun(job[j], budget)]
  <2>1. Earliest({ExecTimeout} \cup job[j].requestLeft) \in Nat
    BY <1>1, TimeoutsArePositive, EarliestType DEF JobRecord
  <2> QED
    BY <2>1 DEF LifecycleStarts, SlotInv, TypeOK
<1> DEFINE r == Begun(job[j], budget)
<1>3. /\ r \in JobRecord /\ r.state = "running" /\ r.started = job[j].started
      /\ r.result = IF budget = 0 THEN "upstream_timeout" ELSE job[j].result
      /\ r.operation = "active" /\ r.requestLeft = {}
  BY <1>1, MoreRecordFields DEF LifecycleStarts
<1> HIDE DEF r
<1>4. job[j].operation = "none" /\ job[j].state = "running"
  BY DEF LifecycleStarts
<1>5. JobConsistent(r, caller[j])
  BY <1>1, <1>3, <1>4 DEF JobConsistent
<1>6. caller' = [caller EXCEPT ![j] = caller[j]]
  BY DEF LifecycleStarts, SlotInv, TypeOK
<1>7. AtMostOne(r.requestLeft)
  BY <1>3 DEF AtMostOne
<1>8. job' = [job EXCEPT ![j] = r]
  BY <1>2 DEF r
<1> QED
  BY <1>1, <1>3, <1>4, <1>5, <1>6, <1>7, <1>8, OneCallStep DEF LifecycleStarts

\* The operation ends by itself.
LEMMA OperationEndsKeeps ==
  ASSUME SlotInv, NEW j \in Jobs, NEW how \in Outcomes, OperationEnds(j, how)
  PROVE  SlotInv'
<1>1. /\ job[j] \in JobRecord /\ AtMostOne(job[j].requestLeft)
      /\ caller[j] \in CallerStates
      /\ JobConsistent(job[j], caller[j])
  BY KnownJob
<1> DEFINE r == [job[j] EXCEPT !.operation = how]
<1>2. /\ r \in JobRecord /\ r.state = job[j].state /\ r.started = job[j].started
      /\ r.result = job[j].result /\ r.operation = how
      /\ r.requestLeft = job[j].requestLeft
  BY <1>1, OutcomesAreEnds DEF JobRecord
<1>3. job' = [job EXCEPT ![j] = r]
  BY DEF OperationEnds
<1> HIDE DEF r
<1>4. how \in Ended /\ job[j].operation = "active"
  BY OutcomesAreEnds DEF OperationEnds
<1>5. JobConsistent(r, caller[j])
  BY <1>1, <1>2, <1>4 DEF JobConsistent, Ended
<1>6. caller' = [caller EXCEPT ![j] = caller[j]]
  BY DEF OperationEnds, SlotInv, TypeOK
<1> QED
  BY <1>1, <1>2, <1>3, <1>5, <1>6, OneCallStep DEF OperationEnds

\* The execution deadline passes while the operation goes on.
LEMMA ExecutionTimerKeeps ==
  ASSUME SlotInv, NEW j \in Jobs, ExecutionTimer(j)
  PROVE  SlotInv'
<1>1. /\ job[j] \in JobRecord /\ AtMostOne(job[j].requestLeft)
      /\ caller[j] \in CallerStates
      /\ JobConsistent(job[j], caller[j])
  BY KnownJob
<1> DEFINE r == [job[j] EXCEPT !.result = "upstream_timeout"]
<1>2. /\ r \in JobRecord /\ r.state = job[j].state /\ r.started = job[j].started
      /\ r.result = "upstream_timeout" /\ r.operation = job[j].operation
      /\ r.requestLeft = job[j].requestLeft
  BY <1>1 DEF JobRecord
<1>3. job' = [job EXCEPT ![j] = r]
  BY DEF ExecutionTimer
<1> HIDE DEF r
<1>4. job[j].operation = "active"
  BY DEF ExecutionTimer
<1>5. JobConsistent(r, caller[j])
  BY <1>1, <1>2, <1>4 DEF JobConsistent
<1>6. caller' = [caller EXCEPT ![j] = caller[j]]
  BY DEF ExecutionTimer, SlotInv, TypeOK
<1> QED
  BY <1>1, <1>2, <1>3, <1>5, <1>6, OneCallStep DEF ExecutionTimer

\* A queued job withdrawn by its own caller.
LEMMA WithdrawalKeeps ==
  ASSUME SlotInv, NEW j \in Jobs, job[j].state = "queued",
         NEW after \in JobRecord, after.state = "finished", AtMostOne(after.requestLeft),
         NEW who \in CallerStates, JobConsistent(after, who),
         ReleaseQueued(j, after),
         caller' = [caller EXCEPT ![j] = who],
         UNCHANGED <<workerActive, accepting, shutdown>>
  PROVE  SlotInv'
<1>1. TypeOK /\ SlotConsistent(queue, allocated, job, workerActive)
  BY DEF SlotInv
<1>2. /\ queue' \in [Classes -> Seq(Jobs)]
      /\ allocated' \in [Classes -> Nat]
      /\ job' = [job EXCEPT ![j] = after]
      /\ idle' \in BOOLEAN
      /\ SlotConsistent(queue, allocated, job, workerActive)'
  BY <1>1, ReleaseSpec
<1>3. /\ job' \in [Jobs -> JobRecord]
      /\ \A k \in Jobs \ {j} : job'[k] = job[k] /\ caller'[k] = caller[k]
      /\ job'[j] = after /\ caller'[j] = who
  BY <1>1, <1>2 DEF TypeOK
<1>4. \A k \in Jobs : JobConsistent(job'[k], caller'[k]) /\ AtMostOne(job'[k].requestLeft)
  BY <1>3 DEF SlotInv, TypeOK, AtMostOne
<1>5. TypeOK'
  BY <1>1, <1>2, <1>3, <1>4 DEF TypeOK, CallerStates, AtMostOne
<1> QED
  BY <1>2, <1>4, <1>5 DEF SlotInv

\* The queue deadline passes.
LEMMA QueueTimerKeeps ==
  ASSUME SlotInv, NEW j \in Jobs, QueueTimer(j)
  PROVE  SlotInv'
<1>1. /\ job[j] \in JobRecord /\ AtMostOne(job[j].requestLeft)
      /\ JobConsistent(job[j], caller[j])
  BY KnownJob
<1>2. CASE job[j].state = "queued"
  <2> DEFINE r == Expired(job[j])
  <2>1. /\ r \in JobRecord /\ r.state = "finished" /\ r.started = "failed"
        /\ r.result = "cancelled" /\ r.operation = job[j].operation /\ r.requestLeft = {}
    BY <1>1, RecordFields
  <2> HIDE DEF r
  <2>2. AtMostOne(r.requestLeft) /\ JobConsistent(r, "queue_timeout")
    BY <1>1, <1>2, <2>1 DEF AtMostOne, JobConsistent
  <2>3. "queue_timeout" \in CallerStates
    BY DEF CallerStates, Answers
  <2>4. ReleaseQueued(j, r) /\ caller' = [caller EXCEPT ![j] = "queue_timeout"]
    BY <1>2 DEF QueueTimer, r
  <2> QED
    BY <1>2, <2>1, <2>2, <2>3, <2>4, WithdrawalKeeps DEF QueueTimer
<1>3. CASE job[j].state # "queued"
  <2>1. /\ caller[j] = "starting"
        /\ caller' = [caller EXCEPT ![j] = TimerAnswer(j)]
        /\ UNCHANGED <<job, queue, allocated, workerActive, accepting, idle, shutdown>>
    BY <1>3 DEF QueueTimer
  <2>2. TimerAnswer(j) \in CallerStates
    BY DEF TimerAnswer, CallerStates, Answers, InCall
  <2>3. JobConsistent(job[j], TimerAnswer(j))
    BY <1>1, <1>3, <2>1 DEF JobConsistent, TimerAnswer
  <2>4. job' = [job EXCEPT ![j] = job[j]]
    BY <2>1 DEF SlotInv, TypeOK
  <2> QED
    BY <1>1, <2>1, <2>2, <2>3, <2>4, OneCallStep
<1> QED
  BY <1>2, <1>3

\* The caller's task is cancelled.
LEMMA CallerCancelsKeeps ==
  ASSUME SlotInv, NEW j \in Jobs, CallerCancels(j)
  PROVE  SlotInv'
<1>1. /\ job[j] \in JobRecord /\ AtMostOne(job[j].requestLeft)
      /\ JobConsistent(job[j], caller[j])
  BY KnownJob
<1>2. "cancelled" \in CallerStates /\ caller' = [caller EXCEPT ![j] = "cancelled"]
  BY DEF CallerCancels, CallerStates, Answers, Ended
<1>3. CASE job[j].state = "queued"
  <2> DEFINE r == Unarmed(Removed(job[j]))
  <2>1. /\ r \in JobRecord /\ r.state = "finished" /\ r.started = "cancelled"
        /\ r.result = "cancelled" /\ r.operation = job[j].operation /\ r.requestLeft = {}
    BY <1>1, RecordFields, MoreRecordFields
  <2>2. ReleaseQueued(j, r)
    BY <1>3 DEF CallerCancels
  <2> HIDE DEF r
  <2>3. AtMostOne(r.requestLeft) /\ JobConsistent(r, "cancelled")
    BY <1>1, <1>3, <2>1 DEF AtMostOne, JobConsistent
  <2> QED
    BY <1>2, <1>3, <2>1, <2>2, <2>3, WithdrawalKeeps DEF CallerCancels
<1>4. CASE job[j].state # "queued"
  <2> DEFINE r == Unarmed(job[j])
  <2>1. /\ r \in JobRecord /\ r.state = job[j].state /\ r.started = job[j].started
        /\ r.result = job[j].result /\ r.operation = job[j].operation
        /\ r.requestLeft = job[j].requestLeft
    BY <1>1, MoreRecordFields
  <2>2. /\ job' = [job EXCEPT ![j] = r]
        /\ UNCHANGED <<queue, allocated, workerActive, accepting, idle, shutdown>>
    BY <1>4 DEF CallerCancels
  <2> HIDE DEF r
  <2>3. JobConsistent(r, "cancelled")
    BY <1>1, <1>4, <2>1 DEF JobConsistent
  <2> QED
    BY <1>1, <1>2, <2>1, <2>2, <2>3, OneCallStep
<1> QED
  BY <1>3, <1>4

\* The dispatch loop, run by an admission or a release, keeps it.
LEMMA DispatchedConsistent ==
  ASSUME NEW r \in JobRecord, NEW who, JobConsistent(r, who), AtMostOne(r.requestLeft),
         r.state = "queued"
  PROVE  /\ JobConsistent(Expired(r), who) /\ AtMostOne(Expired(r).requestLeft)
         /\ JobConsistent(Dispatched(r), who) /\ AtMostOne(Dispatched(r).requestLeft)
         /\ Forward(r, Expired(r)) /\ Forward(r, Dispatched(r))
<1>1. JobConsistent(Expired(r), who)
  BY RecordFields DEF JobConsistent
<1>2. JobConsistent(Dispatched(r), who)
  BY RecordFields DEF JobConsistent
<1>3. Forward(r, Expired(r)) /\ Forward(r, Dispatched(r))
  BY RecordFields DEF Forward, JobConsistent
<1> QED
  BY <1>1, <1>2, <1>3, RecordFields DEF AtMostOne

\* Dispatch in a state that was consistent but for a free worker.
LEMMA DispatchKeeps ==
  ASSUME TypeOK,
         NEW qs \in [Classes -> Seq(Jobs)], NEW alloc \in [Classes -> Nat],
         NEW jobs \in [Jobs -> JobRecord], NEW callers \in [Jobs -> CallerStates],
         QueuesHoldQueued(qs, jobs),
         \A c \in Classes : alloc[c] = Len(qs[c]),
         \A j \in Jobs : /\ jobs[j].state # "running"
                         /\ JobConsistent(jobs[j], callers[j])
                         /\ AtMostOne(jobs[j].requestLeft),
         Dispatch(qs, alloc, jobs),
         caller' = callers,
         idle' \in BOOLEAN,
         UNCHANGED <<accepting, shutdown>>
  PROVE  /\ SlotInv'
         /\ \A k \in Jobs : Forward(jobs[k], job'[k])
         /\ \A k \in Jobs : job'[k].state = "running" => DispatchedInTurn(qs, k)
<1>1. /\ queue' \in [Classes -> Seq(Jobs)]
      /\ allocated' \in [Classes -> Nat]
      /\ job' \in [Jobs -> JobRecord]
      /\ workerActive' \in BOOLEAN
      /\ SlotConsistent(queue', allocated', job', workerActive')
      /\ \A j \in Jobs :
           \/ job'[j] = jobs[j]
           \/ /\ jobs[j].state = "queued"
              /\ job'[j] = Expired(jobs[j]) \/ job'[j] = Dispatched(jobs[j])
      /\ \A j \in Jobs : job'[j].state = "running" => DispatchedInTurn(qs, j)
  <2>1. \A j \in Jobs : jobs[j].state # "running"
    OBVIOUS
  <2> QED
    BY <2>1, DispatchSpec, Zenon
<1>2. \A j \in Jobs : JobConsistent(job'[j], caller'[j]) /\ AtMostOne(job'[j].requestLeft)
  BY <1>1, DispatchedConsistent
<1>3. TypeOK'
  BY <1>1, <1>2 DEF TypeOK, CallerStates, AtMostOne
<1>4. \A k \in Jobs : Forward(jobs[k], job'[k])
  <2>1. \A k \in Jobs : Forward(jobs[k], jobs[k])
    BY DEF Forward
  <2> QED
    BY <2>1, <1>1, DispatchedConsistent
<1> QED
  BY <1>1, <1>2, <1>3, <1>4 DEF SlotInv

\* execute() admits the call, and dispatches if the worker is free.
LEMMA AdmitKeeps ==
  ASSUME SlotInv, NEW j \in Jobs, NEW budget \in RequestDeadlines, Admit(j, budget)
  PROVE  /\ SlotInv'
         /\ \A k \in Jobs \ {j} : Forward(job[k], job'[k])
         /\ job'[j].state # "finished" \/ job'[j].started # "set"
         /\ \A k \in Jobs : Starts(k) => StartedFairly(k)
<1> DEFINE c == ClassOf(j)
           r == NewJob(j, budget)
           qs == [queue EXCEPT ![c] = Append(@, j)]
           alloc == [allocated EXCEPT ![c] = @ + 1]
           jobs == [job EXCEPT ![j] = r]
           callers == [caller EXCEPT ![j] = "starting"]
<1>1. TypeOK /\ SlotConsistent(queue, allocated, job, workerActive) /\ c \in Classes
  BY ClassOfType DEF SlotInv
<1>2. job[j].state \notin {"queued", "running"}
  BY DEF Admit, Idle
<1>3. /\ caller' = callers /\ idle' \in BOOLEAN
      /\ UNCHANGED <<accepting, shutdown>>
  BY DEF Admit, Drained
<1>4. \/ /\ workerActive
         /\ queue' = qs /\ allocated' = alloc /\ job' = jobs /\ UNCHANGED workerActive
      \/ ~workerActive /\ Dispatch(qs, alloc, jobs)
  BY DEF Admit, WorkerBusy
<1>5. /\ r \in JobRecord /\ r.state = "queued" /\ r.started = "pending"
      /\ r.result = "pending" /\ r.operation = "none"
      /\ AtMostOne(r.requestLeft)
  BY NewJobFields DEF AtMostOne
<1> HIDE DEF r
<1>6. /\ queue \in [Classes -> Seq(Jobs)] /\ job \in [Jobs -> JobRecord]
      /\ allocated \in [Classes -> Nat] /\ caller \in [Jobs -> CallerStates]
  BY <1>1 DEF TypeOK, CallerStates
<1>7. /\ qs \in [Classes -> Seq(Jobs)]
      /\ \A d \in Classes : Len(qs[d]) = Len(queue[d]) + (IF d = c THEN 1 ELSE 0)
      /\ jobs \in [Jobs -> JobRecord]
      /\ QueuesHoldQueued(qs, jobs)
  BY <1>1, <1>2, <1>5, <1>6, AppendSpec DEF SlotConsistent
<1>8. /\ alloc \in [Classes -> Nat]
      /\ \A d \in Classes : alloc[d] = allocated[d] + (IF d = c THEN 1 ELSE 0)
  BY <1>1, <1>6
<1>9. /\ callers \in [Jobs -> CallerStates] /\ callers[j] = "starting"
      /\ \A k \in Jobs \ {j} : callers[k] = caller[k]
  BY <1>6 DEF CallerStates, InCall
<1>10. jobs[j] = r /\ \A k \in Jobs \ {j} : jobs[k] = job[k]
  BY <1>6
<1> HIDE DEF qs, alloc, jobs, callers
<1>11. JobConsistent(r, "starting")
  BY <1>5 DEF JobConsistent
<1>12. \A k \in Jobs : JobConsistent(jobs[k], callers[k]) /\ AtMostOne(jobs[k].requestLeft)
  BY <1>5, <1>9, <1>10, <1>11, KnownJob
<1>13. \A k \in Jobs : jobs[k].state = "running" <=> job[k].state = "running"
  BY <1>2, <1>5, <1>10
<1>14. CASE workerActive
  <2>1. queue' = qs /\ allocated' = alloc /\ job' = jobs /\ UNCHANGED workerActive
    BY <1>4, <1>14
  <2>2. \A d \in Classes : RunningIn(d, jobs) = RunningIn(d, job) /\ RunningIn(d, job) \in {0, 1}
    BY <1>13 DEF RunningIn
  <2>3. \A d \in Classes : alloc[d] = Len(qs[d]) + RunningIn(d, jobs)
    <3> SUFFICES ASSUME NEW d \in Classes  PROVE alloc[d] = Len(qs[d]) + RunningIn(d, jobs)
      OBVIOUS
    <3>1. Len(queue[d]) \in Nat /\ allocated[d] = Len(queue[d]) + RunningIn(d, job)
      BY <1>1, <1>6 DEF SlotConsistent
    <3>2. PICK e \in {0, 1} : Len(qs[d]) = Len(queue[d]) + e /\ alloc[d] = allocated[d] + e
      BY <1>7, <1>8
    <3>3. PICK n \in {0, 1} : n = RunningIn(d, job) /\ n = RunningIn(d, jobs)
      BY <2>2
    <3> QED
      BY <3>1, <3>2, <3>3
  <2>4. SlotConsistent(qs, alloc, jobs, workerActive)
    BY <2>3, <1>1, <1>7, <1>13, <1>14 DEF SlotConsistent
  <2>5. TypeOK'
    BY <2>1, <1>1, <1>3, <1>7, <1>8, <1>9, <1>12 DEF TypeOK, CallerStates, AtMostOne
  <2>6. \A k \in Jobs \ {j} : Forward(job[k], job'[k])
    BY <2>1, <1>10 DEF Forward
  <2>7. job'[j].state = "queued" /\ \A k \in Jobs : ~Starts(k)
    BY <2>1, <1>5, <1>10, <1>13 DEF Starts
  <2> QED
    BY <2>1, <2>4, <2>5, <2>6, <2>7, <1>3, <1>12 DEF SlotInv
<1>15. CASE ~workerActive
  <2>1. Dispatch(qs, alloc, jobs)
    BY <1>4, <1>15
  <2>2. \A k \in Jobs : job[k].state # "running"
    BY <1>1, <1>15 DEF SlotConsistent
  <2>3. \A d \in Classes : RunningIn(d, job) = 0
    BY <2>2 DEF RunningIn
  <2>4. \A d \in Classes : alloc[d] = Len(qs[d])
    <3> SUFFICES ASSUME NEW d \in Classes  PROVE alloc[d] = Len(qs[d])
      OBVIOUS
    <3>1. Len(queue[d]) \in Nat /\ allocated[d] = Len(queue[d]) + 0
      BY <2>3, <1>1, <1>6 DEF SlotConsistent
    <3>2. PICK e \in {0, 1} : Len(qs[d]) = Len(queue[d]) + e /\ alloc[d] = allocated[d] + e
      BY <1>7, <1>8
    <3> QED
      BY <3>1, <3>2
  <2>5. \A k \in Jobs : jobs[k].state # "running"
    BY <2>2, <1>13
  <2>6. /\ SlotInv'
        /\ \A k \in Jobs : Forward(jobs[k], job'[k])
        /\ \A k \in Jobs : job'[k].state = "running" => DispatchedInTurn(qs, k)
    BY <2>1, <2>4, <2>5, <1>1, <1>3, <1>7, <1>8, <1>9, <1>12, DispatchKeeps
  <2>7. job'[j].state # "finished" \/ job'[j].started # "set"
    BY <2>6, <1>5, <1>10 DEF Forward
  <2>8. \A d \in Classes : queue[d] = <<>>
    BY <1>1, <1>15 DEF SlotConsistent
  <2>9. \A k, i \in Jobs : ~Ahead(i, k)
    BY <2>8, ClassOfType DEF Ahead
  <2>10. \A k \in Jobs : Starts(k) => StartedFairly(k)
    BY <2>6, <2>9 DEF Starts, StartedFairly, DispatchedInTurn
  <2> QED
    BY <2>6, <2>7, <2>10, <1>10
<1> QED
  BY <1>14, <1>15

\* The result the lifecycle resolves agrees with how the operation ended.
LEMMA FinalResultType ==
  ASSUME SlotInv, NEW j \in Jobs, job[j].operation \in Ended
  PROVE  /\ FinalResult(j) \in {"upstream_timeout"} \cup Ended
         /\ FinalResult(j) \in {"value", "error"} => job[j].operation = FinalResult(j)
<1>1. job[j] \in JobRecord /\ JobConsistent(job[j], caller[j])
  BY KnownJob
<1> QED
  BY <1>1 DEF FinalResult, JobRecord, JobConsistent, Ended

\* The end of _run_job: the slot is returned and handed on.
LEMMA LifecycleFinishesKeeps ==
  ASSUME SlotInv, NEW j \in Jobs, LifecycleFinishes(j)
  PROVE  /\ SlotInv'
         /\ \A k \in Jobs : Forward(job[k], job'[k])
         /\ \A k \in Jobs : Starts(k) => StartedFairly(k)
<1> DEFINE c == ClassOf(j)
           r == Completed(job[j], FinalResult(j))
           alloc == Freed(allocated, c)
           jobs == [job EXCEPT ![j] = r]
<1>1. TypeOK /\ SlotConsistent(queue, allocated, job, workerActive) /\ c \in Classes
  BY ClassOfType DEF SlotInv
<1>2. /\ job[j].state = "running" /\ job[j].operation \in Ended
      /\ idle' = (idle \/ Drained(allocated'))
      /\ UNCHANGED <<caller, accepting, shutdown>>
  BY DEF LifecycleFinishes, Over
<1>3. /\ queue \in [Classes -> Seq(Jobs)] /\ job \in [Jobs -> JobRecord]
      /\ allocated \in [Classes -> Nat] /\ caller \in [Jobs -> CallerStates]
      /\ idle \in BOOLEAN
  BY <1>1 DEF TypeOK, CallerStates
<1>4. Dispatch(queue, alloc, jobs)
  BY <1>3 DEF LifecycleFinishes
<1>5. /\ job[j] \in JobRecord /\ AtMostOne(job[j].requestLeft)
      /\ JobConsistent(job[j], caller[j])
  BY KnownJob
<1>6. /\ FinalResult(j) \in {"upstream_timeout"} \cup Ended
      /\ FinalResult(j) \in {"value", "error"} => job[j].operation = FinalResult(j)
  BY <1>2, FinalResultType
<1>7. /\ r \in JobRecord /\ r.state = "finished" /\ r.started = job[j].started
      /\ r.result = FinalResult(j) /\ r.operation = job[j].operation
      /\ r.requestLeft = job[j].requestLeft
  <2>1. PICK v \in {"pending", "upstream_timeout"} \cup Ended : v = FinalResult(j)
    BY <1>6
  <2>2. r = Completed(job[j], v)
    BY <2>1
  <2>3. job[j] \in JobRecord
    BY <1>5
  <2>4. /\ Completed(job[j], v) \in JobRecord
        /\ Completed(job[j], v).state = "finished"
        /\ Completed(job[j], v).started = job[j].started
        /\ Completed(job[j], v).result = v
        /\ Completed(job[j], v).operation = job[j].operation
        /\ Completed(job[j], v).requestLeft = job[j].requestLeft
    BY <2>1, <2>3, CompletedFields
  <2> HIDE DEF r
  <2> QED
    BY <2>1, <2>2, <2>4
<1>8. jobs \in [Jobs -> JobRecord] /\ jobs[j] = r /\ \A k \in Jobs \ {j} : jobs[k] = job[k]
  BY <1>3, <1>7
<1> HIDE DEF r, jobs
<1>9. JobConsistent(r, caller[j])
  BY <1>2, <1>5, <1>6, <1>7 DEF JobConsistent, Ended
<1>10. \A k \in Jobs \ {j} : job[k].state # "running"
  BY <1>1, <1>2 DEF SlotConsistent
<1>11. \A k \in Jobs : /\ jobs[k].state # "running"
                       /\ JobConsistent(jobs[k], caller[k])
                       /\ AtMostOne(jobs[k].requestLeft)
  BY <1>5, <1>7, <1>8, <1>9, <1>10, KnownJob
<1>12. QueuesHoldQueued(queue, jobs)
  <2>1. \A k \in Jobs : jobs[k].state = "queued" <=> job[k].state = "queued"
    BY <1>2, <1>7, <1>8
  <2>2. \A d \in Classes : \A i \in 1 .. Len(queue[d]) : queue[d][i] \in Jobs
    BY <1>3
  <2> QED
    BY <2>1, <2>2, <1>1 DEF SlotConsistent, QueuesHoldQueued
<1>13. \A d \in Classes : alloc[d] = Len(queue[d]) /\ alloc[d] \in Nat
  <2> SUFFICES ASSUME NEW d \in Classes  PROVE alloc[d] = Len(queue[d]) /\ alloc[d] \in Nat
    OBVIOUS
  <2>1. Len(queue[d]) \in Nat /\ allocated[d] = Len(queue[d]) + RunningIn(d, job)
    BY <1>1, <1>3 DEF SlotConsistent
  <2>2. CASE d = c
    <3>1. RunningIn(d, job) = 1
      BY <1>2, <2>2 DEF RunningIn
    <3>2. alloc[d] = allocated[d] - 1
      BY <1>1, <1>3, <2>2 DEF Freed
    <3> QED
      BY <2>1, <3>1, <3>2
  <2>3. CASE d # c
    <3>1. RunningIn(d, job) = 0
      BY <1>10, <2>3 DEF RunningIn
    <3>2. alloc[d] = allocated[d]
      BY <1>3, <2>3 DEF Freed
    <3> QED
      BY <2>1, <3>1, <3>2
  <2> QED
    BY <2>2, <2>3
<1>14. alloc \in [Classes -> Nat]
  <2>1. alloc = [d \in Classes |-> alloc[d]]
    BY <1>3 DEF Freed
  <2> HIDE DEF alloc
  <2> QED
    BY <2>1, <1>13
<1> HIDE DEF alloc
<1>15. caller' = caller /\ UNCHANGED <<accepting, shutdown>> /\ idle' \in BOOLEAN
  BY <1>2, <1>3 DEF Drained
<1>16. /\ SlotInv'
       /\ \A k \in Jobs : Forward(jobs[k], job'[k])
       /\ \A k \in Jobs : job'[k].state = "running" => DispatchedInTurn(queue, k)
  BY <1>1, <1>3, <1>4, <1>8, <1>11, <1>12, <1>13, <1>14, <1>15, DispatchKeeps
<1>17. \A k \in Jobs : Forward(job[k], job'[k])
  <2>1. job[j].result # "pending" => jobs[j].result = job[j].result
    BY <1>7, <1>8 DEF FinalResult
  <2>2. jobs[j].state = "finished"
    BY <1>7, <1>8
  <2>3. Forward(job[j], job'[j])
    BY <2>1, <2>2, <1>2, <1>7, <1>8, <1>16 DEF Forward
  <2> QED
    BY <2>3, <1>8, <1>16
<1>18. \A k \in Jobs : Starts(k) => StartedFairly(k)
  BY <1>16, InTurnIsFair DEF Starts
<1> QED
  BY <1>16, <1>17, <1>18

\* shutdown() empties the queues.
LEMMA ShutdownBeginsKeeps ==
  ASSUME SlotInv, ShutdownBegins
  PROVE  SlotInv'
<1>1. TypeOK /\ SlotConsistent(queue, allocated, job, workerActive)
  BY DEF SlotInv
<1>2. /\ queue \in [Classes -> Seq(Jobs)] /\ job \in [Jobs -> JobRecord]
      /\ allocated \in [Classes -> Nat] /\ idle \in BOOLEAN
  BY <1>1 DEF TypeOK
<1>3. /\ shutdown' = "draining" /\ accepting' = FALSE /\ UNCHANGED <<caller, workerActive>>
      /\ job' = [j \in Jobs |-> IF job[j].state = "queued" THEN Removed(job[j]) ELSE job[j]]
      /\ queue' = [c \in Classes |-> <<>>]
      /\ allocated' = [c \in Classes |-> allocated[c] - Len(queue[c])]
      /\ idle' \in BOOLEAN
  BY <1>2 DEF ShutdownBegins, Drained
<1>4. \A j \in Jobs :
        /\ job'[j] \in JobRecord /\ AtMostOne(job'[j].requestLeft)
        /\ job'[j].state # "queued"
        /\ job'[j].state = "running" <=> job[j].state = "running"
        /\ JobConsistent(job'[j], caller'[j])
  <2> SUFFICES ASSUME NEW j \in Jobs
               PROVE  /\ job'[j] \in JobRecord /\ AtMostOne(job'[j].requestLeft)
                      /\ job'[j].state # "queued"
                      /\ job'[j].state = "running" <=> job[j].state = "running"
                      /\ JobConsistent(job'[j], caller'[j])
    OBVIOUS
  <2>1. /\ job[j] \in JobRecord /\ AtMostOne(job[j].requestLeft)
        /\ JobConsistent(job[j], caller[j]) /\ caller'[j] = caller[j]
    BY <1>3, KnownJob
  <2>2. CASE job[j].state = "queued"
    <3>1. job'[j] = Removed(job[j])
      BY <1>3, <2>2
    <3> QED
      BY <2>1, <2>2, <3>1, RecordFields DEF JobConsistent, AtMostOne
  <2>3. CASE job[j].state # "queued"
    BY <1>3, <2>1, <2>3
  <2> QED
    BY <2>2, <2>3
<1>5. \A c \in Classes : queue'[c] = <<>> /\ Len(queue'[c]) = 0 /\ queue'[c] \in Seq(Jobs)
  BY <1>3
<1>6. \A c \in Classes : RunningIn(c, job') = RunningIn(c, job) /\ RunningIn(c, job) \in {0, 1}
  BY <1>4 DEF RunningIn
<1>7. \A c \in Classes : allocated'[c] = RunningIn(c, job') /\ allocated'[c] \in Nat
  <2> SUFFICES ASSUME NEW c \in Classes
               PROVE  allocated'[c] = RunningIn(c, job') /\ allocated'[c] \in Nat
    OBVIOUS
  <2>1. Len(queue[c]) \in Nat /\ allocated[c] = Len(queue[c]) + RunningIn(c, job)
    BY <1>1, <1>2 DEF SlotConsistent
  <2>2. PICK n \in {0, 1} : n = RunningIn(c, job) /\ n = RunningIn(c, job')
    BY <1>6
  <2>3. allocated'[c] = allocated[c] - Len(queue[c])
    BY <1>3
  <2>4. allocated[c] = Len(queue[c]) + n
    BY <2>1, <2>2
  <2>5. allocated'[c] = n
    BY <2>1, <2>3, <2>4
  <2> QED
    BY <2>2, <2>5
<1>8. QueuesHoldQueued(queue', job')
  BY <1>4, <1>5 DEF QueuesHoldQueued
<1>9. \A c \in Classes : allocated'[c] = Len(queue'[c]) + RunningIn(c, job')
  BY <1>5, <1>6, <1>7
<1>10. SlotConsistent(queue', allocated', job', workerActive')
  BY <1>1, <1>3, <1>4, <1>5, <1>8, <1>9 DEF SlotConsistent
<1>11. TypeOK'
  BY <1>1, <1>3, <1>4, <1>5, <1>7 DEF TypeOK, AtMostOne
<1> QED
  BY <1>4, <1>10, <1>11 DEF SlotInv

\* Time passes.
LEMMA TickKeeps ==
  ASSUME SlotInv, Tick
  PROVE  SlotInv'
<1>1. TypeOK /\ SlotConsistent(queue, allocated, job, workerActive)
  BY DEF SlotInv
<1>2. /\ job' = [j \in Jobs |-> Aged(job[j], caller[j])]
      /\ UNCHANGED <<caller, queue, allocated, workerActive, accepting, idle, shutdown>>
  BY DEF Tick
<1>3. \A j \in Jobs :
        /\ job'[j] \in JobRecord /\ AtMostOne(job'[j].requestLeft)
        /\ job'[j].state = job[j].state
        /\ JobConsistent(job'[j], caller[j])
  <2> SUFFICES ASSUME NEW j \in Jobs
               PROVE  /\ job'[j] \in JobRecord /\ AtMostOne(job'[j].requestLeft)
                      /\ job'[j].state = job[j].state
                      /\ JobConsistent(job'[j], caller[j])
    OBVIOUS
  <2>1. /\ job[j] \in JobRecord /\ AtMostOne(job[j].requestLeft)
        /\ JobConsistent(job[j], caller[j])
    BY KnownJob
  <2>2. job'[j] = Aged(job[j], caller[j])
    BY <1>2
  <2>3. /\ job'[j] \in JobRecord /\ AtMostOne(job'[j].requestLeft)
        /\ job'[j].state = job[j].state /\ job'[j].started = job[j].started
        /\ job'[j].result = job[j].result /\ job'[j].operation = job[j].operation
    BY <2>1, <2>2, AgedFields DEF AtMostOne
  <2> QED
    BY <2>1, <2>3 DEF JobConsistent
<1>4. job' \in [Jobs -> JobRecord] /\ job \in [Jobs -> JobRecord]
  BY <1>1, <1>2, <1>3 DEF TypeOK
<1>5. /\ queue \in [Classes -> Seq(Jobs)] /\ allocated \in [Classes -> Nat]
      /\ workerActive \in BOOLEAN
  BY <1>1 DEF TypeOK
<1>6. SlotConsistent(queue, allocated, job', workerActive)
  BY <1>1, <1>3, <1>4, <1>5, SameJobsOwed
<1>7. TypeOK'
  BY <1>1, <1>2, <1>3, <1>4 DEF TypeOK, AtMostOne
<1> QED
  BY <1>2, <1>3, <1>6, <1>7 DEF SlotInv
-----------------------------------------------------------------------------
(* The theorems.                                                           *)

\* The constructor establishes the invariant.
LEMMA InitEstablishes == Init => SlotInv
<1> SUFFICES ASSUME Init  PROVE SlotInv
  OBVIOUS
<1>1. NoJob \in JobRecord
  BY DEF NoJob, JobRecord, Ended
<1>2. \A j \in Jobs : /\ job[j] = NoJob /\ job[j].state = "absent"
                      /\ AtMostOne(job[j].requestLeft)
                      /\ caller[j] = "absent"
  BY DEF Init, NoJob, AtMostOne
<1>3. \A c \in Classes : queue[c] = <<>> /\ Len(queue[c]) = 0 /\ allocated[c] = 0
  BY DEF Init
<1>4. TypeOK
  <2>1. job \in [Jobs -> JobRecord] /\ \A j \in Jobs : \A m, n \in job[j].requestLeft : m = n
    BY <1>1, <1>2 DEF Init, AtMostOne
  <2>2. queue \in [Classes -> Seq(Jobs)] /\ allocated \in [Classes -> Nat]
    BY <1>3 DEF Init
  <2>3. caller \in [Jobs -> {"absent"} \cup InCall \cup Answers]
    BY DEF Init
  <2> QED
    BY <2>1, <2>2, <2>3 DEF Init, TypeOK
<1>5. \A c \in Classes : RunningIn(c, job) = 0
  BY <1>2 DEF RunningIn
<1>6. SlotConsistent(queue, allocated, job, workerActive)
  BY <1>2, <1>3, <1>5 DEF SlotConsistent, QueuesHoldQueued, Init
<1>7. \A j \in Jobs : JobConsistent(job[j], caller[j])
  BY <1>2 DEF JobConsistent, NoJob
<1> QED
  BY <1>4, <1>6, <1>7 DEF SlotInv

\* Nothing happens.
LEMMA StutterKeeps ==
  ASSUME SlotInv, UNCHANGED vars
  PROVE  SlotInv'
<1>1. TypeOK'
  BY DEF SlotInv, TypeOK, vars
<1>2. UNCHANGED <<queue, allocated, job, workerActive, caller>>
  BY DEF vars
<1>3. SlotConsistent(queue', allocated', job', workerActive')
  BY <1>2 DEF SlotInv
<1>4. \A j \in Jobs : JobConsistent(job'[j], caller'[j])
  BY <1>2 DEF SlotInv
<1> QED
  BY <1>1, <1>3, <1>4 DEF SlotInv

\* shutdown() returns.
LEMMA ShutdownEndsKeeps ==
  ASSUME SlotInv, ShutdownEnds
  PROVE  SlotInv'
<1>1. TypeOK'
  BY DEF SlotInv, TypeOK, ShutdownEnds
<1>2. UNCHANGED <<queue, allocated, job, workerActive, caller>>
  BY DEF ShutdownEnds
<1> QED
  BY <1>1, <1>2 DEF SlotInv

\* Every step keeps the invariant.
LEMMA NextKeeps == SlotInv /\ [Next]_vars => SlotInv'
<1> SUFFICES ASSUME SlotInv, [Next]_vars  PROVE SlotInv'
  OBVIOUS
<1>1. ASSUME NEW j \in Jobs, Reject(j)  PROVE SlotInv'
  BY <1>1, RejectKeeps
<1>2. ASSUME NEW j \in Jobs, NEW budget \in RequestDeadlines, Admit(j, budget)  PROVE SlotInv'
  BY <1>2, AdmitKeeps
<1>3. ASSUME NEW j \in Jobs, CallerResumes(j)  PROVE SlotInv'
  BY <1>3, CallerResumesKeeps
<1>4. ASSUME NEW j \in Jobs, QueueTimer(j)  PROVE SlotInv'
  BY <1>4, QueueTimerKeeps
<1>5. ASSUME NEW j \in Jobs, ResultArrives(j)  PROVE SlotInv'
  BY <1>5, ResultArrivesKeeps
<1>6. ASSUME NEW j \in Jobs, CallerCancels(j)  PROVE SlotInv'
  BY <1>6, CallerCancelsKeeps
<1>7. ASSUME NEW j \in Jobs, LifecycleStarts(j)  PROVE SlotInv'
  BY <1>7, LifecycleStartsKeeps
<1>8. ASSUME NEW j \in Jobs, NEW how \in Outcomes, OperationEnds(j, how)  PROVE SlotInv'
  BY <1>8, OperationEndsKeeps
<1>9. ASSUME NEW j \in Jobs, ExecutionTimer(j)  PROVE SlotInv'
  BY <1>9, ExecutionTimerKeeps
<1>10. ASSUME NEW j \in Jobs, LifecycleFinishes(j)  PROVE SlotInv'
  BY <1>10, LifecycleFinishesKeeps
<1>11. CASE ShutdownBegins
  BY <1>11, ShutdownBeginsKeeps
<1>12. CASE ShutdownEnds
  BY <1>12, ShutdownEndsKeeps
<1>13. CASE Tick
  BY <1>13, TickKeeps
<1>14. CASE UNCHANGED vars
  BY <1>14, StutterKeeps
<1> QED
  BY <1>1, <1>2, <1>3, <1>4, <1>5, <1>6, <1>7, <1>8, <1>9, <1>10, <1>11, <1>12,
     <1>13, <1>14 DEF Next

\* The inductive invariant holds of the scheduler.
THEOREM SlotInvHolds == Spec => []SlotInv
BY InitEstablishes, NextKeeps, PTL DEF Spec

\* Every variable keeps its type, whatever the limits and timeouts.
THEOREM TypesHold == Spec => []TypeOK
<1>1. SlotInv => TypeOK
  BY DEF SlotInv
<1> QED
  BY <1>1, SlotInvHolds, PTL

\* From the creation of an operation to its end, past the timeout or the
\* cancellation of its caller, the slot of _run_job is its job's alone.
THEOREM SlotIsHeld == Spec => []OperationHoldsSlot
<1>1. SlotInv => OperationHoldsSlot
  BY DEF SlotInv, SlotConsistent, JobConsistent, OperationHoldsSlot
<1> QED
  BY <1>1, SlotInvHolds, PTL

\* The worker is active exactly while a job runs, and while it is free no job
\* is left queued without an event that would dispatch it.
THEOREM SlotIsUsed == Spec => []NothingWaitsForAFreeSlot
<1>1. SlotInv => NothingWaitsForAFreeSlot
  <2> SUFFICES ASSUME SlotInv  PROVE NothingWaitsForAFreeSlot
    OBVIOUS
  <2>1. ~workerActive => \A j \in Jobs : job[j].state # "queued"
    <3> SUFFICES ASSUME ~workerActive, NEW j \in Jobs, job[j].state = "queued"  PROVE FALSE
      OBVIOUS
    <3>1. queue[ClassOf(j)] = <<>>
      BY ClassOfType DEF SlotInv, SlotConsistent
    <3>2. \E i \in 1 .. Len(queue[ClassOf(j)]) : queue[ClassOf(j)][i] = j
      BY DEF SlotInv, SlotConsistent, QueuesHoldQueued
    <3> QED
      BY <3>1, <3>2
  <2> QED
    BY <2>1 DEF SlotInv, SlotConsistent, NothingWaitsForAFreeSlot
<1> QED
  BY <1>1, SlotInvHolds, PTL

\* What execute() answers is what became of the job.
THEOREM AnswersAreTrue == Spec => []AnswerMatchesFate
<1>1. SlotInv => AnswerMatchesFate
  BY DEF SlotInv, JobConsistent, AnswerMatchesFate
<1> QED
  BY <1>1, SlotInvHolds, PTL
-----------------------------------------------------------------------------
(* What a step does to a job that is not called anew.                      *)

\* A step that changes one record.
LEMMA OneJobForward ==
  ASSUME SlotInv, NEW j \in Jobs, NEW r, job' = [job EXCEPT ![j] = r], Kept(job[j], r)
  PROVE  \A k \in Jobs : Kept(job[k], job'[k])
<1>1. job'[j] = r /\ \A k \in Jobs \ {j} : job'[k] = job[k]
  BY DEF SlotInv, TypeOK
<1> QED
  BY <1>1 DEF Kept, Forward

\* A step that changes none.
LEMMA SameJobsForward ==
  ASSUME UNCHANGED job
  PROVE  \A k \in Jobs : Kept(job[k], job'[k])
BY DEF Kept, Forward

\* A queued job that is withdrawn.
LEMMA WithdrawnForward ==
  ASSUME NEW r \in JobRecord, NEW who, JobConsistent(r, who), r.state = "queued"
  PROVE  Kept(r, Expired(r)) /\ Kept(r, Removed(r)) /\ Kept(r, Unarmed(Removed(r)))
BY RecordFields, MoreRecordFields DEF Kept, Forward, JobConsistent

\* But for a new call under its name, a step only moves a job forward, and a
\* job that it starts is started in its turn.
LEMMA StepsGoForward ==
  ASSUME SlotInv, [Next]_vars, NEW k \in Jobs
  PROVE  /\ \/ Forward(job[k], job'[k])
            \/ Reject(k)
            \/ \E budget \in RequestDeadlines : Admit(k, budget)
         /\ Starts(k) => StartedFairly(k)
<1> USE KnownJob
<1>1. ASSUME NEW j \in Jobs, Reject(j), j # k  PROVE Kept(job[k], job'[k])
  BY <1>1 DEF Reject, SlotInv, TypeOK, Kept, Forward
<1>2. ASSUME NEW j \in Jobs, NEW budget \in RequestDeadlines, Admit(j, budget), j # k
      PROVE  Forward(job[k], job'[k])
  BY <1>2, AdmitKeeps
<1>3. ASSUME NEW j \in Jobs, CallerResumes(j)  PROVE Kept(job[k], job'[k])
  <2>1. job' = [job EXCEPT ![j] = Unarmed(job[j])]
    BY <1>3 DEF CallerResumes
  <2>2. Kept(job[j], Unarmed(job[j]))
    BY MoreRecordFields DEF Kept, Forward
  <2> QED
    BY <2>1, <2>2, OneJobForward
<1>4. ASSUME NEW j \in Jobs, QueueTimer(j)  PROVE Kept(job[k], job'[k])
  <2>1. CASE job[j].state = "queued"
    <3>1. job' = [job EXCEPT ![j] = Expired(job[j])]
      BY <1>4, <2>1 DEF QueueTimer, ReleaseQueued
    <3>2. Kept(job[j], Expired(job[j]))
      BY <2>1, WithdrawnForward
    <3> QED
      BY <3>1, <3>2, OneJobForward
  <2>2. CASE job[j].state # "queued"
    BY <1>4, <2>2, SameJobsForward DEF QueueTimer
  <2> QED
    BY <2>1, <2>2
<1>5. ASSUME NEW j \in Jobs, ResultArrives(j)  PROVE Kept(job[k], job'[k])
  BY <1>5, SameJobsForward DEF ResultArrives
<1>6. ASSUME NEW j \in Jobs, CallerCancels(j)  PROVE Kept(job[k], job'[k])
  <2>1. CASE job[j].state = "queued"
    <3>1. job' = [job EXCEPT ![j] = Unarmed(Removed(job[j]))]
      BY <1>6, <2>1 DEF CallerCancels, ReleaseQueued
    <3>2. Kept(job[j], Unarmed(Removed(job[j])))
      BY <2>1, WithdrawnForward
    <3> QED
      BY <3>1, <3>2, OneJobForward
  <2>2. CASE job[j].state # "queued"
    <3>1. job' = [job EXCEPT ![j] = Unarmed(job[j])]
      BY <1>6, <2>2 DEF CallerCancels
    <3>2. Kept(job[j], Unarmed(job[j]))
      BY MoreRecordFields DEF Kept, Forward
    <3> QED
      BY <3>1, <3>2, OneJobForward
  <2> QED
    BY <2>1, <2>2
<1>7. ASSUME NEW j \in Jobs, LifecycleStarts(j)  PROVE Kept(job[k], job'[k])
  <2>1. PICK budget \in Nat : job' = [job EXCEPT ![j] = Begun(job[j], budget)]
    <3>1. Earliest({ExecTimeout} \cup job[j].requestLeft) \in Nat
      BY TimeoutsArePositive, EarliestType DEF JobRecord
    <3> QED
      BY <1>7, <3>1 DEF LifecycleStarts
  <2>2. /\ Begun(job[j], budget).state = job[j].state
        /\ Begun(job[j], budget).started = job[j].started
    BY MoreRecordFields
  <2>3. job[j].result = "pending"
    BY <1>7 DEF LifecycleStarts, JobConsistent
  <2>4. Kept(job[j], Begun(job[j], budget))
    BY <1>7, <2>2, <2>3 DEF Kept, Forward, LifecycleStarts
  <2> QED
    BY <2>1, <2>4, OneJobForward
<1>8. ASSUME NEW j \in Jobs, NEW how \in Outcomes, OperationEnds(j, how)
      PROVE  Kept(job[k], job'[k])
  <2> DEFINE r == [job[j] EXCEPT !.operation = how]
  <2>1. job' = [job EXCEPT ![j] = r]
    BY <1>8 DEF OperationEnds
  <2>2. Kept(job[j], r)
    BY DEF Kept, Forward, JobRecord
  <2> HIDE DEF r
  <2> QED
    BY <2>1, <2>2, OneJobForward
<1>9. ASSUME NEW j \in Jobs, ExecutionTimer(j)  PROVE Kept(job[k], job'[k])
  <2> DEFINE r == [job[j] EXCEPT !.result = "upstream_timeout"]
  <2>1. job' = [job EXCEPT ![j] = r] /\ job[j].result = "pending"
    BY <1>9 DEF ExecutionTimer
  <2>2. Kept(job[j], r)
    BY <2>1 DEF Kept, Forward, JobRecord
  <2> HIDE DEF r
  <2> QED
    BY <2>1, <2>2, OneJobForward
<1>10. ASSUME NEW j \in Jobs, LifecycleFinishes(j)
       PROVE  Forward(job[k], job'[k]) /\ (Starts(k) => StartedFairly(k))
  BY <1>10, LifecycleFinishesKeeps
<1>11. ASSUME ShutdownBegins  PROVE Kept(job[k], job'[k])
  <2>1. job'[k] = IF job[k].state = "queued" THEN Removed(job[k]) ELSE job[k]
    BY <1>11 DEF ShutdownBegins
  <2>2. Kept(job[k], job[k])
    BY DEF Kept, Forward
  <2> QED
    BY <2>1, <2>2, WithdrawnForward
<1>12. ASSUME ShutdownEnds  PROVE Kept(job[k], job'[k])
  BY <1>12, SameJobsForward DEF ShutdownEnds
<1>13. ASSUME Tick  PROVE Kept(job[k], job'[k])
  <2>1. job'[k] = Aged(job[k], caller[k])
    BY <1>13 DEF Tick
  <2> QED
    BY <2>1, AgedFields DEF Kept, Forward, AtMostOne
<1>14. ASSUME UNCHANGED vars  PROVE Kept(job[k], job'[k])
  BY <1>14, SameJobsForward DEF vars
<1>15. ASSUME Reject(k)  PROVE ~Starts(k)
  BY <1>15 DEF Reject, NoJob, Starts, SlotInv, TypeOK
<1>16. ASSUME Kept(job[k], job'[k])
       PROVE  Forward(job[k], job'[k]) /\ (Starts(k) => StartedFairly(k))
  BY <1>16 DEF Kept, Starts
<1>17. ASSUME NEW j \in Jobs, Reject(j)
       PROVE  /\ Forward(job[k], job'[k]) \/ Reject(k)
              /\ Starts(k) => StartedFairly(k)
  BY <1>1, <1>15, <1>16, <1>17
<1>18. ASSUME NEW j \in Jobs, NEW budget \in RequestDeadlines, Admit(j, budget)
       PROVE  /\ Forward(job[k], job'[k]) \/ Admit(k, budget)
              /\ Starts(k) => StartedFairly(k)
  BY <1>2, <1>18, AdmitKeeps
<1> QED
  BY <1>3, <1>4, <1>5, <1>6, <1>7, <1>8, <1>9, <1>10, <1>11, <1>12,
     <1>13, <1>14, <1>16, <1>17, <1>18 DEF Next

\* A resolved result future is never resolved again, by a drain, a timer or a
\* shutdown that comes later.
THEOREM ResultsAreFinal == Spec => ResultIsFinal
<1>1. SlotInv /\ [Next]_vars =>
        \A j \in Jobs : ~Idle(j) /\ job[j].result # "pending" => job'[j].result = job[j].result
  BY StepsGoForward DEF Forward, Reject, Admit
<1> QED
  BY <1>1, SlotInvHolds, PTL DEF Spec, ResultIsFinal

\* A scheduler that accepts nothing holds nothing queued.
NothingQueuedOnceClosed == ~accepting => \A j \in Jobs : job[j].state # "queued"

\* What shutdown() drops is gone for good: nothing is queued again.
THEOREM QueuesStayEmpty == Spec => []NothingQueuedOnceClosed
<1>1. Init => NothingQueuedOnceClosed
  BY DEF Init, NothingQueuedOnceClosed
<1>2. SlotInv /\ NothingQueuedOnceClosed /\ [Next]_vars => NothingQueuedOnceClosed'
  <2> SUFFICES ASSUME SlotInv, NothingQueuedOnceClosed, [Next]_vars, ~accepting',
                      NEW k \in Jobs
               PROVE  job'[k].state # "queued"
    BY DEF NothingQueuedOnceClosed
  <2>1. CASE accepting
    <3>1. ShutdownBegins
      BY <2>1 DEF Next, Reject, Admit, CallerResumes, QueueTimer, ResultArrives, CallerCancels,
         LifecycleStarts, OperationEnds, ExecutionTimer, LifecycleFinishes, ShutdownEnds, Tick, vars
    <3>2. job'[k] = IF job[k].state = "queued" THEN Removed(job[k]) ELSE job[k]
      BY <3>1 DEF ShutdownBegins
    <3> QED
      BY <3>2, KnownJob, RecordFields
  <2>2. CASE ~accepting
    <3>1. CASE Forward(job[k], job'[k])
      BY <2>2, <3>1 DEF Forward, NothingQueuedOnceClosed
    <3>2. CASE Reject(k)
      BY <3>2 DEF Reject, NoJob, SlotInv, TypeOK
    <3>3. ASSUME NEW budget \in RequestDeadlines, Admit(k, budget)  PROVE FALSE
      BY <2>2, <3>3 DEF Admit
    <3> QED
      BY <3>1, <3>2, <3>3, StepsGoForward
  <2> QED
    BY <2>1, <2>2
<1> QED
  BY <1>1, <1>2, SlotInvHolds, PTL DEF Spec

\* shutdown() closes admission and empties the queues in one step, so that no
\* step after it can dispatch a job.
THEOREM NothingStartsAfterShutdown == Spec => NoStartAfterShutdown
<1>1. SlotInv /\ NothingQueuedOnceClosed /\ [Next]_vars => (~accepting => \A j \in Jobs : ~Starts(j))
  <2> SUFFICES ASSUME SlotInv, NothingQueuedOnceClosed, [Next]_vars, ~accepting,
                      NEW k \in Jobs, Starts(k)
               PROVE  FALSE
    OBVIOUS
  <2>1. CASE Forward(job[k], job'[k])
    BY <2>1 DEF Forward, Starts, NothingQueuedOnceClosed
  <2>2. CASE Reject(k)
    BY <2>2 DEF Reject, NoJob, Starts, SlotInv, TypeOK
  <2>3. ASSUME NEW budget \in RequestDeadlines, Admit(k, budget)  PROVE FALSE
    BY <2>3 DEF Admit
  <2> QED
    BY <2>1, <2>2, <2>3, StepsGoForward
<1> QED
  BY <1>1, SlotInvHolds, QueuesStayEmpty, PTL DEF Spec, NoStartAfterShutdown

\* Priority, order and the queue deadline: a job starts in its turn and in time.
THEOREM StartsAreOrderly == Spec => StartsInOrderAndInTime
<1>1. ASSUME SlotInv, SlotInv', [Next]_vars, NEW j \in Jobs, Starts(j),
             NEW k \in Jobs, Ahead(k, j) \/ (j \in Background /\ k \in Protected)
      PROVE  job'[k].state # "queued"
  <2>1. StartedFairly(j)
    BY <1>1, StepsGoForward
  <2>2. CASE Ahead(k, j)
    BY <2>1, <2>2 DEF StartedFairly
  <2>3. CASE j \in Background /\ k \in Protected
    <3>1. ClassOf(j) = "background" /\ ClassOf(k) = "protected"
      BY <2>3, ClassesAreDisjoint DEF ClassOf
    <3>2. queue'["protected"] = <<>>
      BY <2>1, <3>1 DEF StartedFairly
    <3> QED
      BY <1>1, <3>1, <3>2 DEF SlotInv, SlotConsistent, QueuesHoldQueued
  <2> QED
    BY <1>1, <2>2, <2>3
<1>2. SlotInv /\ SlotInv' /\ [Next]_vars =>
        \A j \in Jobs : Starts(j) =>
          /\ job'[j].queueLeft > 0
          /\ \A k \in Jobs :
               Ahead(k, j) \/ (j \in Background /\ k \in Protected)
                 => job'[k].state # "queued"
  BY <1>1, StepsGoForward DEF StartedFairly
<1> QED
  BY <1>2, SlotInvHolds, PTL DEF Spec, StartsInOrderAndInTime

-----------------------------------------------------------------------------
(* The scheduler implements the slot it promises.                          *)

\* The fate of a job is what the slot knows of its state.
LEMMA FateOf ==
  ASSUME NEW r \in JobRecord
  PROVE  /\ Fate(r) \in {"none", "waiting", "serving", "served", "withdrawn"}
         /\ Fate(r) = "waiting" <=> r.state = "queued"
         /\ Fate(r) = "serving" <=> r.state = "running"
BY DEF Fate, JobRecord

\* Where a step may take a record.
LEMMA FateMoves ==
  ASSUME NEW r \in JobRecord, NEW next \in JobRecord, Forward(r, next),
         r.state = "running" => r.started = "set"
  PROVE  Fate(next) \in Slot!MaySucceed(Fate(r))
<1>1. CASE next.state = r.state /\ next.started = r.started
  BY <1>1 DEF Fate, Slot!MaySucceed, JobRecord
<1>2. CASE r.state = "queued" /\ next.state = "running"
  BY <1>2 DEF Fate, Slot!MaySucceed
<1>3. CASE r.state = "queued" /\ next.state = "finished" /\ next.started # "set"
  BY <1>3 DEF Fate, Slot!MaySucceed
<1>4. CASE r.state = "running" /\ next.state = "finished" /\ next.started = r.started
  BY <1>4 DEF Fate, Slot!MaySucceed
<1> QED
  BY <1>1, <1>2, <1>3, <1>4 DEF Forward

\* A name that is idle takes a new call, which waits, is served at once or is
\* withdrawn as it arrives.
LEMMA FateOfNewCall ==
  ASSUME NEW r \in JobRecord, NEW next \in JobRecord,
         r.state \notin {"queued", "running"},
         next.state # "finished" \/ next.started # "set"
  PROVE  Fate(next) \in Slot!MaySucceed(Fate(r))
BY DEF Fate, Slot!MaySucceed, JobRecord

\* The scheduler implements ExecutionSlot: queues, futures, timers and the
\* allocation counters are one way to serve one call at a time in that order.
THEOREM SchedulerImplementsSlot == Spec => ImplementsSlot
<1> DEFINE fate == [j \in Jobs |-> Fate(job[j])]
<1>1. Init => Slot!Init
  <2> SUFFICES ASSUME Init  PROVE Slot!Init
    OBVIOUS
  <2>1. \A j \in Jobs : Fate(job[j]) = "none"
    BY DEF Init, Fate, NoJob
  <2> QED
    BY <2>1 DEF Slot!Init, Slot!Calls, Jobs
<1>2. ASSUME SlotInv, SlotInv', [Next]_vars
      PROVE  Slot!Next
  <2>1. job \in [Jobs -> JobRecord] /\ job' \in [Jobs -> JobRecord]
    BY <1>2 DEF SlotInv, TypeOK
  <2>2. fate' \in [Slot!Calls -> Slot!Fates]
    BY <2>1, FateOf DEF Slot!Calls, Slot!Fates, Jobs
  <2>3. ASSUME NEW j \in Jobs  PROVE Fate(job'[j]) \in Slot!MaySucceed(Fate(job[j]))
    <3>1. CASE Forward(job[j], job'[j])
      BY <1>2, <2>1, <3>1, FateMoves, KnownJob DEF JobConsistent
    <3>2. CASE Reject(j)
      <4>1. job'[j].state # "finished"
        BY <2>1, <3>2 DEF Reject, NoJob
      <4>2. job[j].state \notin {"queued", "running"}
        BY <3>2 DEF Reject, Idle
      <4> QED
        BY <2>1, <4>1, <4>2, FateOfNewCall
    <3>3. ASSUME NEW budget \in RequestDeadlines, Admit(j, budget)
          PROVE  Fate(job'[j]) \in Slot!MaySucceed(Fate(job[j]))
      <4>1. job'[j].state # "finished" \/ job'[j].started # "set"
        BY <1>2, <3>3, AdmitKeeps
      <4>2. job[j].state \notin {"queued", "running"}
        BY <3>3 DEF Admit, Idle
      <4> QED
        BY <2>1, <4>1, <4>2, FateOfNewCall
    <3> QED
      BY <1>2, <3>1, <3>2, <3>3, StepsGoForward
  <2>4. \A c \in Slot!Calls : fate'[c] \in Slot!MaySucceed(fate[c])
    BY <2>3 DEF Slot!Calls, Jobs
  <2>5. Slot!SlotIsExclusive'
    BY <1>2, <2>1, FateOf DEF Slot!SlotIsExclusive, Slot!With, Slot!Calls, Jobs,
       SlotInv, SlotConsistent
  <2>6. Slot!SlotIsUsed'
    <3> SUFFICES ASSUME ~\E j \in Jobs : job'[j].state = "running",
                        NEW j \in Jobs, job'[j].state = "queued"
                 PROVE  FALSE
      BY <2>1, FateOf DEF Slot!SlotIsUsed, Slot!With, Slot!Calls, Jobs
    <3> QED
      BY <1>2, ClassOfType DEF SlotInv, SlotConsistent, QueuesHoldQueued
  <2>7. Slot!ServesProtectedFirst
    <3> SUFFICES ASSUME NEW b \in Background, Starts(b), NEW p \in Protected,
                        job'[p].state = "queued"
                 PROVE  FALSE
      BY <2>1, FateOf DEF Slot!ServesProtectedFirst, Starts, Jobs
    <3>1. b \in Jobs /\ p \in Jobs /\ ClassOf(b) = "background" /\ ClassOf(p) = "protected"
      BY ClassesAreDisjoint DEF ClassOf, Jobs
    <3>2. queue'["protected"] = <<>>
      BY <1>2, <3>1, StepsGoForward DEF StartedFairly
    <3> QED
      BY <1>2, <3>1, <3>2 DEF SlotInv, SlotConsistent, QueuesHoldQueued
  <2> QED
    BY <2>2, <2>4, <2>5, <2>6, <2>7 DEF Slot!Next
<1>3. SlotInv /\ SlotInv' /\ [Next]_vars => [Slot!Next]_fate
  BY <1>2
<1> QED
  BY <1>1, <1>3, SlotInvHolds, PTL DEF Spec, ImplementsSlot, Slot!Spec
-----------------------------------------------------------------------------
(* The books balance: the allocation counters are the number of calls that *)
(* are still owed an execution, within the limits, and the idle event is   *)
(* set exactly when none is.                                               *)

WithinLimits == \A c \in Classes : allocated[c] <= Limit[c]
IdleWhenDrained == idle <=> Drained(allocated)

\* The interval from 1 to n has n members.
LEMMA IntervalSize ==
  ASSUME NEW n \in Nat
  PROVE  IsFiniteSet(1 .. n) /\ Cardinality(1 .. n) = n
<1>1. IsFiniteSet(1 .. n) /\ Cardinality(1 .. n) = IF 1 > n THEN 0 ELSE n - 1 + 1
  BY FS_Interval
<1>2. (IF 1 > n THEN 0 ELSE n - 1 + 1) = n
  OBVIOUS
<1> QED
  BY <1>1, <1>2

\* Every class has room for at least one call.
LEMMA LimitType == \A c \in Classes : Limit[c] \in Nat /\ Limit[c] >= 1
BY LimitIsPositive

\* The jobs of a class that are owed an execution are those in its queue and,
\* if it is of the class, the one that runs.
LEMMA OwedCount ==
  ASSUME SlotInv, NEW c \in Classes
  PROVE  IsFiniteSet(Owed(c)) /\ Cardinality(Owed(c)) = allocated[c]
<1> DEFINE q == queue[c]
           f == [i \in 1 .. Len(q) |-> q[i]]
           Queued == {q[i] : i \in 1 .. Len(q)}
<1>1. q \in Seq(Jobs) /\ Len(q) \in Nat /\ allocated[c] \in Nat
  BY DEF SlotInv, TypeOK
<1>2. QueuesHoldQueued(queue, job) /\ allocated[c] = Len(q) + RunningIn(c, job)
  BY DEF SlotInv, SlotConsistent
<1>3. IsFiniteSet(Queued) /\ Cardinality(Queued) = Len(q)
  <2>1. f \in Bijection(1 .. Len(q), Queued)
    <3>1. \A i, k \in 1 .. Len(q) : f[i] = f[k] => i = k
      BY <1>2 DEF QueuesHoldQueued
    <3>2. f \in [1 .. Len(q) -> Queued] /\ \A t \in Queued : \E i \in 1 .. Len(q) : f[i] = t
      OBVIOUS
    <3> QED
      BY <3>1, <3>2 DEF Bijection, Injection, Surjection, IsInjective
  <2>2. ExistsBijection(1 .. Len(q), Queued)
    BY <2>1 DEF ExistsBijection
  <2>3. IsFiniteSet(1 .. Len(q)) /\ Cardinality(1 .. Len(q)) = Len(q)
    BY <1>1, IntervalSize
  <2> QED
    BY <2>2, <2>3, FS_Bijection
<1>4. Queued = {j \in Jobs : ClassOf(j) = c /\ job[j].state = "queued"}
  BY <1>1, <1>2 DEF QueuesHoldQueued
<1>5. CASE \E j \in Jobs : ClassOf(j) = c /\ job[j].state = "running"
  <2>1. PICK j \in Jobs : ClassOf(j) = c /\ job[j].state = "running"
    BY <1>5
  <2>2. \A k \in Jobs : job[k].state = "running" => k = j
    BY <2>1 DEF SlotInv, SlotConsistent
  <2>3. Owed(c) = Queued \cup {j} /\ j \notin Queued
    BY <1>4, <2>1, <2>2 DEF Owed
  <2>4. allocated[c] = Len(q) + 1
    BY <1>2, <1>5 DEF RunningIn
  <2>5. /\ IsFiniteSet(Queued \cup {j})
        /\ Cardinality(Queued \cup {j}) = Cardinality(Queued) + 1
    <3> HIDE DEF Queued
    <3> QED
      BY <1>3, <2>3, FS_AddElement
  <2> QED
    BY <1>3, <2>3, <2>4, <2>5
<1>6. CASE ~\E j \in Jobs : ClassOf(j) = c /\ job[j].state = "running"
  <2>1. Owed(c) = Queued
    BY <1>4, <1>6 DEF Owed
  <2>2. allocated[c] = Len(q)
    BY <1>1, <1>2, <1>6 DEF RunningIn
  <2> QED
    BY <1>3, <2>1, <2>2
<1> QED
  BY <1>5, <1>6

\* Dispatch takes no permit.
LEMMA DispatchFrees ==
  ASSUME NEW qs \in [Classes -> Seq(Jobs)], NEW alloc \in [Classes -> Nat],
         NEW jobs \in [Jobs -> JobRecord], Dispatch(qs, alloc, jobs), NEW c \in Classes
  PROVE  allocated'[c] <= alloc[c]
<1>1. Lapsed(qs, jobs)[c] \in Nat
  BY LapsedSpec
<1>2. allocated'[c] = alloc[c] - Lapsed(qs, jobs)[c]
  BY DEF Dispatch
<1>3. alloc[c] \in Nat
  OBVIOUS
<1> QED
  BY <1>1, <1>2, <1>3

\* A queued or a running job holds a permit.
LEMMA PermitIsHeld ==
  ASSUME SlotInv, NEW j \in Jobs, job[j].state \in {"queued", "running"}
  PROVE  ~Drained(allocated)
<1> DEFINE c == ClassOf(j)
<1>1. c \in Classes /\ j \in Owed(c)
  BY ClassOfType DEF Owed
<1>2. IsFiniteSet(Owed(c)) /\ Cardinality(Owed(c)) = allocated[c]
  BY <1>1, OwedCount
<1>3. allocated[c] # 0
  BY <1>1, <1>2, FS_EmptySet
<1> QED
  BY <1>1, <1>3 DEF Drained

\* What a step does to the books: it leaves them, admits a call, gives back the
\* permits of jobs that held some, or shuts down.
GivesBack ==
  /\ ~Drained(allocated)
  /\ \A c \in Classes : allocated'[c] <= allocated[c]
  /\ idle' = (idle \/ Drained(allocated'))

\* Giving a permit back takes one off its class.
LEMMA FreedIsLess ==
  ASSUME SlotInv, NEW d \in Classes
  PROVE  /\ \A c \in Classes : Freed(allocated, d)[c] <= allocated[c]
         /\ allocated[d] >= 1 => Freed(allocated, d) \in [Classes -> Nat]
<1>1. allocated \in [Classes -> Nat]
  BY DEF SlotInv, TypeOK
<1> QED
  BY <1>1 DEF Freed

\* A queued job that is withdrawn gives its permit back.
LEMMA ReleaseGivesBack ==
  ASSUME SlotInv, NEW j \in Jobs, NEW after, job[j].state = "queued", ReleaseQueued(j, after)
  PROVE  GivesBack
<1>1. ~Drained(allocated)
  BY PermitIsHeld
<1>2. allocated' = Freed(allocated, ClassOf(j)) /\ idle' = (idle \/ Drained(allocated'))
  BY DEF ReleaseQueued
<1> QED
  BY <1>1, <1>2, FreedIsLess, ClassOfType DEF GivesBack

\* A job that ran gives its permit back.
LEMMA FinishGivesBack ==
  ASSUME SlotInv, NEW j \in Jobs, LifecycleFinishes(j)
  PROVE  GivesBack
<1> DEFINE d == ClassOf(j)
           alloc == Freed(allocated, d)
           jobs == [job EXCEPT ![j] = Completed(job[j], FinalResult(j))]
<1>1. /\ queue \in [Classes -> Seq(Jobs)] /\ allocated \in [Classes -> Nat]
      /\ job \in [Jobs -> JobRecord] /\ d \in Classes
  BY ClassOfType DEF SlotInv, TypeOK
<1>2. /\ job[j].state = "running" /\ job[j].operation \in Ended
      /\ idle' = (idle \/ Drained(allocated'))
      /\ Dispatch(queue, alloc, jobs)
  BY <1>1 DEF LifecycleFinishes, Over
<1>3. ~Drained(allocated)
  BY <1>2, PermitIsHeld
<1>4. allocated[d] >= 1
  <2>1. RunningIn(d, job) = 1
    BY <1>2 DEF RunningIn
  <2>2. allocated[d] = Len(queue[d]) + RunningIn(d, job)
    BY <1>1 DEF SlotInv, SlotConsistent
  <2> QED
    BY <1>1, <2>1, <2>2
<1>5. alloc \in [Classes -> Nat] /\ \A c \in Classes : alloc[c] <= allocated[c]
  BY <1>1, <1>4, FreedIsLess
<1>6. jobs \in [Jobs -> JobRecord]
  <2>1. Completed(job[j], FinalResult(j)) \in JobRecord
    BY <1>1, <1>2, FinalResultType, MoreRecordFields
  <2> QED
    BY <1>1, <2>1
<1>7. ASSUME NEW c \in Classes  PROVE allocated'[c] <= allocated[c]
  <2> HIDE DEF alloc, jobs
  <2>1. allocated'[c] <= alloc[c]
    BY <1>1, <1>2, <1>5, <1>6, DispatchFrees
  <2>2. allocated'[c] \in Nat
    BY LifecycleFinishesKeeps DEF SlotInv, TypeOK
  <2>3. alloc[c] \in Nat /\ allocated[c] \in Nat /\ alloc[c] <= allocated[c]
    BY <1>1, <1>5
  <2> QED
    BY <2>1, <2>2, <2>3
<1> QED
  BY <1>2, <1>3, <1>7 DEF GivesBack

\* Every step is of one of these kinds.
LEMMA StepsKeepTheBooks ==
  ASSUME SlotInv, [Next]_vars
  PROVE  \/ UNCHANGED <<allocated, idle>>
         \/ \E j \in Jobs, budget \in RequestDeadlines : Admit(j, budget)
         \/ GivesBack
         \/ ShutdownBegins
<1>1. ASSUME NEW j \in Jobs, QueueTimer(j)  PROVE UNCHANGED <<allocated, idle>> \/ GivesBack
  BY <1>1, ReleaseGivesBack DEF QueueTimer
<1>2. ASSUME NEW j \in Jobs, CallerCancels(j)  PROVE UNCHANGED <<allocated, idle>> \/ GivesBack
  BY <1>2, ReleaseGivesBack DEF CallerCancels
<1> QED
  BY <1>1, <1>2, FinishGivesBack DEF Next, Reject, CallerResumes, ResultArrives,
     LifecycleStarts, OperationEnds, ExecutionTimer, ShutdownEnds, Tick, vars

\* No step takes a class over its limit.
LEMMA LimitsKept ==
  ASSUME SlotInv, WithinLimits, [Next]_vars
  PROVE  WithinLimits'
<1> SUFFICES ASSUME NEW c \in Classes  PROVE allocated'[c] <= Limit[c]
  BY DEF WithinLimits
<1>1. /\ queue \in [Classes -> Seq(Jobs)] /\ allocated \in [Classes -> Nat]
      /\ job \in [Jobs -> JobRecord]
  BY DEF SlotInv, TypeOK
<1>2. allocated[c] \in Nat /\ allocated[c] <= Limit[c] /\ Limit[c] \in Nat
  BY <1>1, LimitType DEF WithinLimits
<1>3. ASSUME NEW j \in Jobs, NEW budget \in RequestDeadlines, Admit(j, budget)
      PROVE  allocated'[c] <= Limit[c]
  <2> DEFINE qs == [queue EXCEPT ![ClassOf(j)] = Append(@, j)]
             alloc == [allocated EXCEPT ![ClassOf(j)] = @ + 1]
             jobs == [job EXCEPT ![j] = NewJob(j, budget)]
  <2>1. ClassOf(j) \in Classes /\ allocated[ClassOf(j)] < Limit[ClassOf(j)]
    BY <1>3, ClassOfType DEF Admit, HasRoom
  <2>2. alloc \in [Classes -> Nat] /\ alloc[c] <= Limit[c]
    BY <1>1, <1>2, <2>1
  <2>3. CASE WorkerBusy
    BY <1>3, <2>2, <2>3 DEF Admit
  <2>4. CASE ~WorkerBusy
    <3>1. Dispatch(qs, alloc, jobs)
      BY <1>3, <2>4 DEF Admit
    <3>2. qs \in [Classes -> Seq(Jobs)]
      BY <1>1, <2>1
    <3>3. jobs \in [Jobs -> JobRecord]
      BY <1>1, <1>3, NewJobFields
    <3>4. allocated'[c] <= alloc[c]
      <4> HIDE DEF qs, alloc, jobs
      <4> QED
        BY <2>2, <3>1, <3>2, <3>3, DispatchFrees
    <3>5. allocated'[c] \in Nat
      BY <1>3, AdmitKeeps DEF SlotInv, TypeOK
    <3> QED
      BY <1>2, <2>2, <3>4, <3>5
  <2> QED
    BY <2>3, <2>4
<1>4. CASE GivesBack
  <2>1. allocated'[c] <= allocated[c]
    BY <1>4 DEF GivesBack
  <2>2. allocated'[c] \in Nat
    BY NextKeeps DEF SlotInv, TypeOK
  <2> QED
    BY <1>2, <2>1, <2>2
<1>5. CASE ShutdownBegins
  <2>1. allocated'[c] = allocated[c] - Len(queue[c]) /\ Len(queue[c]) \in Nat
    BY <1>1, <1>5 DEF ShutdownBegins
  <2> QED
    BY <1>2, <2>1
<1> QED
  BY <1>2, <1>3, <1>4, <1>5, StepsKeepTheBooks

\* No step changes whether a call is owed without the idle event following.
LEMMA IdleKept ==
  ASSUME SlotInv, IdleWhenDrained, [Next]_vars
  PROVE  IdleWhenDrained'
<1>1. CASE UNCHANGED <<allocated, idle>>
  BY <1>1 DEF IdleWhenDrained, Drained
<1>2. ASSUME NEW j \in Jobs, NEW budget \in RequestDeadlines, Admit(j, budget)
      PROVE  IdleWhenDrained'
  <2>1. idle' = Drained(allocated')
    BY <1>2 DEF Admit
  <2> QED
    BY <2>1 DEF IdleWhenDrained, Drained
<1>3. CASE GivesBack
  BY <1>3 DEF GivesBack, IdleWhenDrained, Drained
<1>4. CASE ShutdownBegins
  <2>1. /\ queue \in [Classes -> Seq(Jobs)] /\ allocated \in [Classes -> Nat]
        /\ allocated' = [c \in Classes |-> allocated[c] - Len(queue[c])]
        /\ idle' = (idle \/ (Drained(allocated') /\ \E c \in Classes : queue[c] # <<>>))
    BY <1>4 DEF ShutdownBegins, SlotInv, TypeOK
  <2>2. \A c \in Classes : allocated'[c] \in Nat
    BY NextKeeps DEF SlotInv, TypeOK
  <2>3. CASE Drained(allocated)
    <3>1. ASSUME NEW c \in Classes  PROVE allocated'[c] = 0
      <4>1. allocated[c] = 0 /\ Len(queue[c]) \in Nat
        BY <2>1, <2>3 DEF Drained
      <4>2. allocated'[c] = allocated[c] - Len(queue[c]) /\ allocated'[c] \in Nat
        BY <2>1, <2>2
      <4> QED
        BY <4>1, <4>2
    <3> QED
      BY <2>1, <2>3, <3>1 DEF IdleWhenDrained, Drained
  <2>4. CASE ~Drained(allocated)
    <3>1. ~idle
      BY <2>4 DEF IdleWhenDrained
    <3>2. ASSUME \A c \in Classes : queue[c] = <<>>  PROVE ~Drained(allocated')
      <4>1. \A c \in Classes : allocated'[c] = allocated[c]
        BY <2>1, <3>2
      <4> QED
        BY <2>4, <4>1 DEF Drained
    <3> QED
      BY <2>1, <3>1, <3>2 DEF IdleWhenDrained, Drained
  <2> QED
    BY <2>3, <2>4
<1> QED
  BY <1>1, <1>2, <1>3, <1>4, StepsKeepTheBooks

\* However a job leaves, its class gets back exactly one permit; the limits
\* hold and the idle event tells the truth.
THEOREM PermitsAreAccounted == Spec => []AllocationMatchesJobs
<1>1. Init => WithinLimits /\ IdleWhenDrained
  BY LimitType DEF Init, WithinLimits, IdleWhenDrained, Drained
<1>2. SlotInv /\ WithinLimits /\ IdleWhenDrained /\ [Next]_vars
        => (WithinLimits /\ IdleWhenDrained)'
  BY LimitsKept, IdleKept
<1>3. ASSUME SlotInv, WithinLimits, IdleWhenDrained  PROVE AllocationMatchesJobs
  <2>1. \A c \in Classes : Owed(c) = {} <=> allocated[c] = 0
    BY <1>3, OwedCount, FS_EmptySet
  <2> QED
    BY <1>3, <2>1, OwedCount DEF AllocationMatchesJobs, WithinLimits, IdleWhenDrained, Drained
<1>4. SlotInv /\ WithinLimits /\ IdleWhenDrained => AllocationMatchesJobs
  BY <1>3
<1> QED
  BY <1>1, <1>2, <1>4, SlotInvHolds, PTL DEF Spec
=============================================================================
