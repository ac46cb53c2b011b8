-------------------------- MODULE ReadPipelineProofs --------------------------
(***************************************************************************)
(* Theorems about ReadPipeline: the cooldown covers what Schwab asked for, *)
(* no call is made meanwhile, every read is answered in time with what     *)
(* became of its calls, and the reads use the slot as it allows, for any   *)
(* number of reads and any times.                                          *)
(***************************************************************************)
EXTENDS ReadPipeline, TLAPS

\* A read without the bounds that hold only of the prompt loop.
LooseRecord ==
  [ stage     : {"idle"} \cup InCall \cup Answers,
    attempt   : {0, 1},
    elapsed   : Nat,
    timer     : Int,
    operation : {"none", "reading"} \cup Results,
    pause     : Nat,
    calls     : Nat,
    first     : {"none"} \cup Results ]

PipelineTypes ==
  /\ read \in [Reads -> LooseRecord]
  /\ fate \in [Reads -> Slot!Fates]
  /\ cooldown \in Nat
  /\ asked \in Nat

\* A result that no handler has seen yet asks for no more than the cooldown may be.
PausesAreCovered ==
  \A r \in Reads : read[r].stage = "called" /\ read[r].operation = "rate_limited"
    => read[r].pause <= Longer(asked, MinCooldown)

\* The operation of a read, and its call to the scheduler.
OperationFollowsFate ==
  \A r \in Reads :
    /\ read[r].operation = "reading" => fate[r] = "serving"
    /\ read[r].operation \in Results => fate[r] = "served"
    /\ read[r].stage = "backoff" => read[r].operation \in Results

SlotHolds == Slot!SlotIsExclusive /\ Slot!SlotIsUsed

PipelineInv ==
  /\ PipelineTypes
  /\ CooldownCoversTheAsk
  /\ PausesAreCovered
  /\ OperationFollowsFate
  /\ SlotHolds

\* The longer of two times is no shorter than either.
LEMMA LongerIsNat ==
  ASSUME NEW m \in Nat, NEW n \in Nat
  PROVE  Longer(m, n) \in Nat /\ m <= Longer(m, n) /\ n <= Longer(m, n)
BY DEF Longer

\* A read that has not arrived is a record.
LEMMA NewReadIsARecord == NewRead \in LooseRecord
BY DEF NewRead, LooseRecord

\* What a handler leaves behind is a record, and starts no operation.
LEMMA AnsweredIsARecord ==
  ASSUME NEW rec \in LooseRecord, NEW answer \in Answers
  PROVE  /\ Answered(rec, answer) \in LooseRecord
         /\ Answered(rec, answer).stage = answer
         /\ Answered(rec, answer).operation \in {"none", "reading"}
         /\ Answered(rec, answer).operation = "reading" => rec.operation = "reading"
<1> DEFINE left == IF rec.operation = "reading" THEN "reading" ELSE "none"
<1>1. left \in {"none", "reading"} /\ (left = "reading" => rec.operation = "reading")
  OBVIOUS
<1>2. Answered(rec, answer) = [NewRead EXCEPT !.stage = answer, !.operation = left]
  BY DEF Answered
<1> HIDE DEF left
<1>3. Answered(rec, answer) \in LooseRecord
  <2>1. [NewRead EXCEPT !.stage = answer] \in LooseRecord
    BY NewReadIsARecord DEF LooseRecord
  <2>2. left \in {"none", "reading"} \cup Results
    BY <1>1
  <2> QED
    BY <1>2, <2>1, <2>2 DEF LooseRecord
<1>4. Answered(rec, answer).stage = answer /\ Answered(rec, answer).operation = left
  BY <1>2 DEF NewRead
<1> QED
  BY <1>1, <1>3, <1>4

\* The slot is handed to a call that waited, if to any.
LEMMA HandedOn ==
  ASSUME NEW f \in [Reads -> Slot!Fates], NEW g \in Handed(f)
  PROVE  /\ g \in [Reads -> Slot!Fates]
         /\ \A q \in Reads : g[q] # f[q] => f[q] = "waiting" /\ g[q] = "serving" /\ InSlot(f) = {}
         /\ \A q, s \in Reads : g[q] # f[q] /\ g[s] # f[s] => q = s
         /\ (\A q \in Reads : g[q] = f[q]) => InSlot(f) # {} \/ Waiting(f) = {}
         /\ \A b \in Reads : b \notin Protected /\ g[b] # f[b] => Waiting(f) \cap Protected = {}
<1>1. CASE InSlot(f) # {} \/ Waiting(f) = {}
  BY <1>1 DEF Handed
<1>2. CASE InSlot(f) = {} /\ Waiting(f) # {}
  <2>1. PICK r \in Waiting(f) :
          /\ g = [f EXCEPT ![r] = "serving"]
          /\ Waiting(f) \cap Protected # {} => r \in Protected
    BY <1>2 DEF Handed
  <2>2. r \in Reads /\ f[r] = "waiting"
    BY DEF Waiting
  <2>3. g \in [Reads -> Slot!Fates]
    BY <2>1 DEF Slot!Fates
  <2>4. g[r] = "serving" /\ \A q \in Reads \ {r} : g[q] = f[q]
    BY <2>1, <2>2
  <2> QED
    BY <1>2, <2>1, <2>2, <2>3, <2>4
<1> QED
  BY <1>1, <1>2

\* The slot is handed to a waiting operation, and changes no other.
LEMMA OnlyWaitingAreHanded ==
  ASSUME NEW f \in [Reads -> Slot!Fates], NEW g \in Handed(f)
  PROVE  g \in [Reads -> Slot!Fates] /\ \A q \in Reads : g[q] # f[q] => f[q] = "waiting"
BY HandedOn
-----------------------------------------------------------------------------
(* The steps that hand the slot on are steps of the slot.                  *)

\* A call is made: it waits, or is served at once.
LEMMA CallIsASlotStep ==
  ASSUME PipelineTypes, SlotHolds, NEW r \in Reads, fate[r] \notin {"waiting", "serving"},
         fate' \in Handed([fate EXCEPT ![r] = "waiting"])
  PROVE  Slot!Next
<1> DEFINE f == [fate EXCEPT ![r] = "waiting"]
<1> USE DEF PipelineTypes
<1>1. /\ f \in [Reads -> Slot!Fates] /\ f[r] = "waiting"
      /\ \A q \in Reads \ {r} : f[q] = fate[q]
  BY DEF Slot!Fates
<1> HIDE DEF f
<1>2. fate' \in Handed(f)
  BY DEF f
<1>3. /\ fate' \in [Reads -> Slot!Fates]
      /\ \A q \in Reads : fate'[q] # f[q] => f[q] = "waiting" /\ fate'[q] = "serving" /\ InSlot(f) = {}
      /\ (\A q \in Reads : fate'[q] = f[q]) => InSlot(f) # {} \/ Waiting(f) = {}
  BY <1>1, <1>2, HandedOn
<1>4. InSlot(f) = {} => \A q \in Reads \ {r} : f[q] # "waiting"
  BY <1>1 DEF SlotHolds, Slot!SlotIsUsed, Slot!With, Slot!Calls, Reads, InSlot
<1>5. \A q \in Reads \ {r} : fate'[q] = fate[q]
  BY <1>1, <1>3, <1>4
<1>6. fate'[r] \in {"waiting", "serving"} /\ (fate'[r] = "serving" => InSlot(f) = {})
  BY <1>1, <1>3
<1>7. fate'[r] = "waiting" => InSlot(f) # {}
  BY <1>1, <1>3, <1>5 DEF Waiting
<1>8. \A q \in Reads : fate'[q] \in Slot!MaySucceed(fate[q])
  BY <1>5, <1>6 DEF Slot!MaySucceed, Slot!Fates
<1>9. Slot!SlotIsExclusive'
  BY <1>1, <1>5, <1>6 DEF SlotHolds, Slot!SlotIsExclusive, Slot!With, Slot!Calls, Reads, InSlot
<1>10. Slot!SlotIsUsed'
  <2>1. CASE fate'[r] = "serving"
    BY <2>1 DEF Slot!SlotIsUsed, Slot!With, Slot!Calls, Reads
  <2>2. CASE fate'[r] = "waiting"
    <3>1. PICK q \in Reads : f[q] = "serving"
      BY <1>7, <2>2 DEF InSlot
    <3>2. q # r /\ fate'[q] = "serving"
      BY <1>1, <1>5, <3>1
    <3> QED
      BY <3>2 DEF Slot!SlotIsUsed, Slot!With, Slot!Calls, Reads
  <2> QED
    BY <1>6, <2>1, <2>2
<1>11. Slot!ServesProtectedFirst
  <2> SUFFICES ASSUME NEW b \in Background, fate[b] # "serving", fate'[b] = "serving",
                      NEW p \in Protected
               PROVE  fate'[p] # "waiting"
    BY DEF Slot!ServesProtectedFirst
  <2>1. b = r /\ InSlot(f) = {}
    BY <1>5, <1>6 DEF Reads
  <2>2. p # r
    BY <2>1, ClassesAreDisjoint
  <2> QED
    BY <1>1, <1>4, <1>5, <2>1, <2>2 DEF Reads
<1> QED
  BY <1>3, <1>8, <1>9, <1>10, <1>11 DEF Slot!Next, Slot!Calls, Reads

\* An operation ends: the slot goes to a call that waits.
LEMMA EndIsASlotStep ==
  ASSUME PipelineTypes, SlotHolds, NEW r \in Reads, fate[r] = "serving",
         fate' \in Handed([fate EXCEPT ![r] = "served"])
  PROVE  Slot!Next
<1> DEFINE f == [fate EXCEPT ![r] = "served"]
<1> USE DEF PipelineTypes
<1>1. /\ f \in [Reads -> Slot!Fates] /\ f[r] = "served"
      /\ \A q \in Reads \ {r} : f[q] = fate[q]
  BY DEF Slot!Fates
<1> HIDE DEF f
<1>2. InSlot(f) = {}
  BY <1>1 DEF InSlot, SlotHolds, Slot!SlotIsExclusive, Slot!With, Slot!Calls, Reads
<1>3. fate' \in Handed(f)
  BY DEF f
<1>4. /\ fate' \in [Reads -> Slot!Fates]
      /\ \A q \in Reads : fate'[q] # f[q] => f[q] = "waiting" /\ fate'[q] = "serving"
      /\ \A q, s \in Reads : fate'[q] # f[q] /\ fate'[s] # f[s] => q = s
      /\ (\A q \in Reads : fate'[q] = f[q]) => Waiting(f) = {}
      /\ \A b \in Reads : b \notin Protected /\ fate'[b] # f[b] => Waiting(f) \cap Protected = {}
  BY <1>1, <1>2, <1>3, HandedOn
<1>5. \A q \in Reads : fate'[q] \in Slot!MaySucceed(fate[q])
  BY <1>1, <1>4 DEF Slot!MaySucceed, Slot!Fates
<1>6. Slot!SlotIsExclusive'
  BY <1>1, <1>2, <1>4 DEF Slot!SlotIsExclusive, Slot!With, Slot!Calls, Reads, InSlot
<1>7. Slot!SlotIsUsed'
  <2>1. CASE \A q \in Reads : fate'[q] = f[q]
    BY <1>4, <2>1 DEF Waiting, Slot!SlotIsUsed, Slot!With, Slot!Calls, Reads
  <2>2. CASE \E q \in Reads : fate'[q] # f[q]
    BY <1>4, <2>2 DEF Slot!SlotIsUsed, Slot!With, Slot!Calls, Reads
  <2> QED
    BY <2>1, <2>2
<1>8. Slot!ServesProtectedFirst
  <2> SUFFICES ASSUME NEW b \in Background, fate[b] # "serving", fate'[b] = "serving",
                      NEW p \in Protected
               PROVE  fate'[p] # "waiting"
    BY DEF Slot!ServesProtectedFirst
  <2>1. b \in Reads /\ b \notin Protected /\ p \in Reads
    BY ClassesAreDisjoint DEF Reads
  <2>2. fate'[b] # f[b]
    BY <1>1, <2>1
  <2>3. f[p] # "waiting"
    BY <1>4, <2>1, <2>2 DEF Waiting
  <2> QED
    BY <1>4, <2>1, <2>3
<1> QED
  BY <1>4, <1>5, <1>6, <1>7, <1>8 DEF Slot!Next, Slot!Calls, Reads

\* A call that waits is withdrawn.
LEMMA WithdrawalIsASlotStep ==
  ASSUME PipelineTypes, SlotHolds, NEW r \in Reads, fate[r] = "waiting",
         fate' = [fate EXCEPT ![r] = "withdrawn"]
  PROVE  Slot!Next
<1>1. /\ fate' \in [Reads -> Slot!Fates] /\ fate'[r] = "withdrawn"
      /\ \A q \in Reads \ {r} : fate'[q] = fate[q]
  BY DEF PipelineTypes, Slot!Fates
<1>2. \A q \in Reads : fate'[q] \in Slot!MaySucceed(fate[q])
  BY <1>1 DEF PipelineTypes, Slot!MaySucceed, Slot!Fates
<1>3. Slot!SlotIsExclusive' /\ Slot!SlotIsUsed' /\ Slot!ServesProtectedFirst
  BY <1>1 DEF SlotHolds, Slot!SlotIsExclusive, Slot!SlotIsUsed, Slot!ServesProtectedFirst,
              Slot!With, Slot!Calls, Reads
<1> QED
  BY <1>1, <1>2, <1>3 DEF Slot!Next, Slot!Calls, Reads
-----------------------------------------------------------------------------
(* The invariant.                                                          *)

\* What a step owes that changes one read, not the cooldown, and perhaps fate.
LEMMA ReadChanges ==
  ASSUME PipelineInv, NEW r \in Reads, NEW rec \in LooseRecord,
         read' = [read EXCEPT ![r] = rec], UNCHANGED <<cooldown, asked>>,
         UNCHANGED fate \/ Slot!Next,
         rec.operation = "reading" => fate'[r] = "serving",
         rec.operation \in Results => fate'[r] = "served",
         rec.stage = "backoff" => rec.operation \in Results,
         rec.stage = "called" /\ rec.operation = "rate_limited"
           => rec.pause <= Longer(asked, MinCooldown),
         \A q \in Reads \ {r} : fate[q] \in {"serving", "served"} => fate'[q] = fate[q]
  PROVE  PipelineInv'
<1> USE DEF PipelineInv
<1>1. read'[r] = rec /\ \A q \in Reads \ {r} : read'[q] = read[q]
  BY DEF PipelineTypes
<1>2. PipelineTypes'
  BY DEF PipelineTypes, Slot!Next, Slot!Calls, Reads
<1>3. CooldownCoversTheAsk'
  BY DEF CooldownCoversTheAsk, PipelineTypes, Longer
<1>4. PausesAreCovered'
  BY <1>1 DEF PausesAreCovered, Longer
<1>5. OperationFollowsFate'
  BY <1>1 DEF OperationFollowsFate
<1>6. SlotHolds'
  BY DEF SlotHolds, Slot!Next, Slot!SlotIsExclusive, Slot!SlotIsUsed, Slot!With, Slot!Calls
<1> QED
  BY <1>2, <1>3, <1>4, <1>5, <1>6

\* At the start nothing is asked, and nothing runs.
LEMMA PipelineInit == Init => PipelineInv
<1> SUFFICES ASSUME Init PROVE PipelineInv
  OBVIOUS
<1> USE DEF Init, Slot!Init
<1>1. PipelineTypes
  BY NewReadIsARecord DEF PipelineTypes, Slot!Fates, Slot!Calls, Reads
<1>2. CooldownCoversTheAsk
  BY TimesArePositive DEF CooldownCoversTheAsk, Longer
<1>3. PausesAreCovered /\ OperationFollowsFate
  BY DEF PausesAreCovered, OperationFollowsFate, NewRead, Results
<1>4. SlotHolds
  BY DEF SlotHolds, Slot!SlotIsExclusive, Slot!SlotIsUsed, Slot!With, Slot!Calls, Reads
<1> QED
  BY <1>1, <1>2, <1>3, <1>4 DEF PipelineInv

\* The top of the loop, for a handler whose last call is over.
LEMMA CallSteps ==
  ASSUME PipelineInv, NEW r \in Reads, NEW rec \in LooseRecord, rec.operation = "none",
         fate[r] \notin {"waiting", "serving"}, Call(r, rec), UNCHANGED <<cooldown, asked>>
  PROVE  /\ PipelineInv'
         /\ UNCHANGED fate \/ Slot!Next
         /\ read'[r].operation # "reading" /\ \A q \in Reads \ {r} : read'[q] = read[q]
<1>1. ASSUME NEW answer \in {"rate_limited", "capacity"}, UNCHANGED fate,
             read' = [read EXCEPT ![r] = Answered(rec, answer)]
      PROVE  PipelineInv' /\ read'[r].operation # "reading"
  <2>1. answer \in Answers /\ answer \notin {"called", "backoff"}
    BY DEF Answers, Results
  <2>2. /\ Answered(rec, answer) \in LooseRecord /\ Answered(rec, answer).stage = answer
        /\ Answered(rec, answer).operation = "none"
    BY <2>1, AnsweredIsARecord
  <2>3. PipelineInv'
    BY <1>1, <2>1, <2>2, ReadChanges DEF Results
  <2> QED
    BY <1>1, <2>2, <2>3 DEF PipelineInv, PipelineTypes
<1>2. ASSUME fate' \in Handed([fate EXCEPT ![r] = "waiting"]),
             read' = [read EXCEPT ![r] = [rec EXCEPT !.stage = "called", !.timer = QueueLeft(r, rec)]]
      PROVE  PipelineInv' /\ Slot!Next /\ read'[r].operation # "reading"
  <2> DEFINE new == [rec EXCEPT !.stage = "called", !.timer = QueueLeft(r, rec)]
  <2>1. QueueLeft(r, rec) \in Int
    BY TimesArePositive DEF QueueLeft, Left, Shorter, ClassOf, Classes, LooseRecord
  <2>2. new \in LooseRecord /\ new.stage = "called" /\ new.operation = "none"
    BY <2>1 DEF LooseRecord, InCall
  <2>3. Slot!Next
    BY <1>2, CallIsASlotStep DEF PipelineInv
  <2>4. \A q \in Reads \ {r} : fate[q] \in {"serving", "served"} => fate'[q] = fate[q]
    <3> DEFINE f == [fate EXCEPT ![r] = "waiting"]
    <3>1. f \in [Reads -> Slot!Fates] /\ \A q \in Reads \ {r} : f[q] = fate[q]
      BY DEF PipelineInv, PipelineTypes, Slot!Fates
    <3>2. fate' \in Handed(f)
      BY <1>2
    <3> HIDE DEF f
    <3>3. \A q \in Reads : fate'[q] # f[q] => f[q] = "waiting"
      BY <3>1, <3>2, OnlyWaitingAreHanded
    <3> QED
      BY <3>1, <3>3
  <2> HIDE DEF new
  <2>5. read' = [read EXCEPT ![r] = new]
    BY <1>2 DEF new
  <2>6. PipelineInv'
    BY <2>2, <2>3, <2>4, <2>5, ReadChanges DEF Results
  <2> QED
    BY <2>2, <2>3, <2>5, <2>6 DEF PipelineInv, PipelineTypes
<1>3. \A q \in Reads \ {r} : read'[q] = read[q]
  BY DEF Call, PipelineInv, PipelineTypes
<1> QED
  BY <1>1, <1>2, <1>3 DEF Call

\* The end of an operation, whether its handler still waits for it or not.
LEMMA EndSteps ==
  ASSUME PipelineInv, NEW r \in Reads, NEW how \in Results, NEW pause \in Nat,
         fate[r] = "serving", read' = [read EXCEPT ![r] = Over(@, how, pause)],
         fate' \in Handed([fate EXCEPT ![r] = "served"])
  PROVE  /\ Slot!Next
         /\ read' \in [Reads -> LooseRecord]
         /\ OperationFollowsFate' /\ SlotHolds'
         /\ fate' \in [Reads -> Slot!Fates]
         /\ read'[r].operation # "reading"
         /\ read'[r].stage = "called" /\ read'[r].operation = "rate_limited"
              => read'[r].pause = pause /\ how = "rate_limited"
         /\ \A q \in Reads \ {r} : read'[q] = read[q]
<1> USE DEF PipelineInv, PipelineTypes
<1> DEFINE f   == [fate EXCEPT ![r] = "served"]
           rec == Over(read[r], how, pause)
<1>1. Slot!Next
  BY EndIsASlotStep
<1>2. /\ rec \in LooseRecord
      /\ rec.operation \in {"none", how}
      /\ rec.stage = read[r].stage
      /\ rec.stage = "called" => rec.pause = pause /\ rec.operation = how
      /\ rec.stage # "called" => rec.operation = "none"
  <2>1. read[r] \in LooseRecord
    OBVIOUS
  <2> QED
    BY <2>1 DEF Over, LooseRecord
<1> HIDE DEF rec
<1>3. read'[r] = rec /\ \A q \in Reads \ {r} : read'[q] = read[q]
  BY DEF rec
<1>4. read' \in [Reads -> LooseRecord]
  BY <1>2 DEF rec
<1>5. f \in [Reads -> Slot!Fates] /\ f[r] = "served" /\ \A q \in Reads \ {r} : f[q] = fate[q]
  BY DEF Slot!Fates
<1>6. fate' \in Handed(f)
  OBVIOUS
<1> HIDE DEF f
<1>7. fate' \in [Reads -> Slot!Fates] /\ \A q \in Reads : fate'[q] # f[q] => f[q] = "waiting"
  BY <1>5, <1>6, OnlyWaitingAreHanded
<1>8. read[r].stage # "backoff"
  BY DEF OperationFollowsFate
<1>9. OperationFollowsFate'
  <2>1. how # "reading" /\ "none" \notin Results
    BY DEF Results
  <2>2. fate'[r] = "served"
    BY <1>5, <1>7
  <2>3. \A q \in Reads \ {r} : fate[q] \in {"serving", "served"} => fate'[q] = fate[q]
    BY <1>5, <1>7
  <2> QED
    BY <1>2, <1>3, <1>8, <2>1, <2>2, <2>3 DEF OperationFollowsFate
<1>10. SlotHolds'
  BY <1>1 DEF SlotHolds, Slot!Next
<1>11. how # "reading"
  BY DEF Results
<1> QED
  BY <1>1, <1>2, <1>3, <1>4, <1>7, <1>9, <1>10, <1>11

\* Time passes once every result has been seen.
LEMMA TickSteps ==
  ASSUME PipelineInv, Tick
  PROVE  PipelineInv'
<1>1. \A r \in Reads :
        /\ read'[r] \in LooseRecord
        /\ read'[r].stage = read[r].stage /\ read'[r].operation = read[r].operation
  <2> SUFFICES ASSUME NEW r \in Reads
               PROVE  /\ read'[r] \in LooseRecord
                      /\ read'[r].stage = read[r].stage
                      /\ read'[r].operation = read[r].operation
    OBVIOUS
  <2>1. read[r] \in LooseRecord
    BY DEF PipelineInv, PipelineTypes
  <2> DEFINE e == read[r].elapsed + 1
             t == read[r].timer - 1
  <2>2. e \in Nat /\ t \in Int
    BY <2>1 DEF LooseRecord
  <2>3. \/ read'[r] = read[r]
        \/ read'[r] = [read[r] EXCEPT !.elapsed = e, !.timer = t]
    BY DEF Tick
  <2> HIDE DEF e, t
  <2> QED
    BY <2>1, <2>2, <2>3 DEF LooseRecord
<1>2. PipelineTypes'
  <2>1. read' = [r \in Reads |-> read'[r]]
    BY DEF Tick
  <2>2. read' \in [Reads -> LooseRecord]
    BY <1>1, <2>1
  <2>3. fate' = fate /\ asked' = CountDown(asked) /\ cooldown' = CountDown(cooldown)
    BY DEF Tick
  <2> QED
    BY <2>2, <2>3 DEF PipelineInv, PipelineTypes, CountDown
<1>3. CooldownCoversTheAsk'
  <2>1. /\ asked <= cooldown /\ cooldown <= Longer(asked, MinCooldown)
        /\ asked \in Nat /\ cooldown \in Nat /\ MinCooldown \in Nat
    BY TimesArePositive DEF PipelineInv, PipelineTypes, CooldownCoversTheAsk
  <2>2. asked' = CountDown(asked) /\ cooldown' = CountDown(cooldown)
    BY DEF Tick
  <2> QED
    BY <2>1, <2>2 DEF CooldownCoversTheAsk, CountDown, Longer
<1>4. PausesAreCovered'
  BY <1>1 DEF PausesAreCovered, Tick, NothingIsDue, Results
<1>5. OperationFollowsFate' /\ SlotHolds'
  BY <1>1 DEF PipelineInv, Tick, OperationFollowsFate, SlotHolds, Slot!SlotIsExclusive, Slot!SlotIsUsed, Slot!With
<1> QED
  BY <1>2, <1>3, <1>4, <1>5 DEF PipelineInv

\* Handlers that are answered outside of the slot, or begin in it.
LEMMA HandlerSteps ==
  ASSUME PipelineInv, NEW r \in Reads,
         NotReady(r) \/ OperationBegins(r) \/ QueueTimer(r) \/ ExecutionTimer(r) \/ Disconnect(r)
  PROVE  PipelineInv' /\ (UNCHANGED fate \/ Slot!Next)
<1> DEFINE is == read[r]
<1>1. is \in LooseRecord /\ fate[r] \in Slot!Fates
  BY DEF PipelineInv, PipelineTypes
<1>2. ASSUME NEW rec \in LooseRecord, NEW answer \in Answers \ InCall,
             read' = [read EXCEPT ![r] = Answered(rec, answer)], UNCHANGED <<cooldown, asked>>,
             UNCHANGED fate \/ (fate[r] = "waiting" /\ fate' = [fate EXCEPT ![r] = "withdrawn"]),
             rec.operation = "reading" => is.operation = "reading"
      PROVE  PipelineInv' /\ (UNCHANGED fate \/ Slot!Next)
  <2> DEFINE new == Answered(rec, answer)
  <2>1. /\ new \in LooseRecord /\ new.stage = answer
        /\ new.operation \in {"none", "reading"}
        /\ new.operation = "reading" => is.operation = "reading"
    BY <1>2, AnsweredIsARecord
  <2> HIDE DEF new
  <2>2. read' = [read EXCEPT ![r] = new]
    BY <1>2 DEF new
  <2>3. UNCHANGED fate \/ Slot!Next
    BY <1>2, WithdrawalIsASlotStep DEF PipelineInv
  <2>4. is.operation = "reading" => fate[r] = "serving"
    BY DEF PipelineInv, OperationFollowsFate
  <2>5. \A q \in Reads \ {r} : fate'[q] = fate[q]
    BY <1>2 DEF PipelineInv, PipelineTypes
  <2>6. new.operation = "reading" => fate'[r] = "serving"
    BY <1>2, <2>1, <2>4
  <2>7. new.operation \notin Results /\ new.stage \notin {"called", "backoff"}
    BY <1>2, <2>1 DEF Results, InCall
  <2>8. UNCHANGED <<cooldown, asked>>
    BY <1>2
  <2> HIDE DEF is
  <2> QED
    BY <2>1, <2>2, <2>3, <2>5, <2>6, <2>7, <2>8, ReadChanges
<1>3. {"not_ready", "queue_timeout", "upstream_timeout", "gone"} \subseteq Answers \ InCall
  BY DEF Answers, Results, InCall
<1>4. CASE NotReady(r)
  <2>1. NewRead.operation # "reading"
    BY DEF NewRead
  <2> QED
    BY <1>2, <1>3, <1>4, <2>1, NewReadIsARecord DEF NotReady
<1>5. CASE QueueTimer(r)
  BY <1>1, <1>2, <1>3, <1>5 DEF QueueTimer
<1>6. CASE ExecutionTimer(r)
  BY <1>1, <1>2, <1>3, <1>6 DEF ExecutionTimer
<1>7. CASE Disconnect(r)
  <2>1. UNCHANGED fate \/ (fate[r] = "waiting" /\ fate' = [fate EXCEPT ![r] = "withdrawn"])
    BY <1>7 DEF Disconnect, PipelineInv, PipelineTypes
  <2> QED
    BY <1>1, <1>2, <1>3, <1>7, <2>1 DEF Disconnect
<1>8. CASE OperationBegins(r)
  <2>1. Budget(is) \in Int /\ is.calls + 1 \in Nat
    BY <1>1, TimesArePositive DEF Budget, Left, LooseRecord
  <2>2. is.stage # "backoff"
    BY <1>8 DEF OperationBegins, PipelineInv, OperationFollowsFate, Results
  <2>3. fate[r] = "serving" /\ UNCHANGED <<fate, cooldown, asked>>
    BY <1>8 DEF OperationBegins
  <2>4. ASSUME NEW new \in LooseRecord, read' = [read EXCEPT ![r] = new],
               new.operation = "reading", new.stage = is.stage
        PROVE  PipelineInv'
    BY <2>2, <2>3, <2>4, ReadChanges DEF Results
  <2>5. CASE is.stage = "called"
    <3> DEFINE calls == is.calls + 1
               timer == Budget(is)
               new   == [is EXCEPT !.operation = "reading", !.calls = calls, !.timer = timer]
    <3>1. read' = [read EXCEPT ![r] = new]
      BY <1>8, <2>5 DEF OperationBegins
    <3> HIDE DEF calls, timer
    <3>2. new \in LooseRecord /\ new.operation = "reading" /\ new.stage = is.stage
      BY <1>1, <2>1 DEF LooseRecord, calls, timer
    <3> HIDE DEF new
    <3> QED
      BY <2>3, <2>4, <3>1, <3>2
  <2>6. CASE is.stage # "called"
    <3> DEFINE new == [is EXCEPT !.operation = "reading"]
    <3>1. read' = [read EXCEPT ![r] = new]
      BY <1>8, <2>6 DEF OperationBegins
    <3>2. new \in LooseRecord /\ new.operation = "reading" /\ new.stage = is.stage
      BY <1>1 DEF LooseRecord
    <3> HIDE DEF new
    <3> QED
      BY <2>3, <2>4, <3>1, <3>2
  <2> QED
    BY <2>3, <2>5, <2>6
<1> QED
  BY <1>4, <1>5, <1>6, <1>7, <1>8

\* The operation is refused in the slot: it asks for what is left.
LEMMA RefusalSteps ==
  ASSUME PipelineInv, NEW r \in Reads, OperationRefused(r)
  PROVE  PipelineInv' /\ Slot!Next
<1>1. "rate_limited" \in Results /\ cooldown \in Nat
  BY DEF Results, PipelineInv, PipelineTypes
<1>2. /\ fate[r] = "serving" /\ UNCHANGED <<cooldown, asked>>
      /\ read' = [read EXCEPT ![r] = Over(@, "rate_limited", cooldown)]
      /\ fate' \in Handed([fate EXCEPT ![r] = "served"])
  BY DEF OperationRefused
<1>3. /\ Slot!Next /\ read' \in [Reads -> LooseRecord]
      /\ OperationFollowsFate' /\ SlotHolds' /\ fate' \in [Reads -> Slot!Fates]
      /\ read'[r].stage = "called" /\ read'[r].operation = "rate_limited"
           => read'[r].pause = cooldown
      /\ \A q \in Reads \ {r} : read'[q] = read[q]
  BY <1>1, <1>2, EndSteps
<1>4. PausesAreCovered'
  BY <1>2, <1>3 DEF PausesAreCovered, PipelineInv, CooldownCoversTheAsk
<1>5. PipelineTypes' /\ CooldownCoversTheAsk'
  BY <1>2, <1>3 DEF PipelineInv, PipelineTypes, CooldownCoversTheAsk
<1> QED
  BY <1>3, <1>4, <1>5 DEF PipelineInv

\* The operation ends: a 429 moves the cooldown and what was asked together.
LEMMA OperationEndSteps ==
  ASSUME PipelineInv, NEW r \in Reads, NEW how \in Results, NEW pause \in RetryAfters,
         OperationEnds(r, how, pause)
  PROVE  PipelineInv' /\ Slot!Next
<1>1. /\ pause \in Nat /\ MinCooldown \in Nat /\ cooldown \in Nat /\ asked \in Nat
      /\ asked <= cooldown /\ cooldown <= Longer(asked, MinCooldown)
  BY TimesArePositive DEF PipelineInv, PipelineTypes, CooldownCoversTheAsk
<1>2. /\ fate[r] = "serving"
      /\ read' = [read EXCEPT ![r] = Over(@, how, pause)]
      /\ fate' \in Handed([fate EXCEPT ![r] = "served"])
  BY DEF OperationEnds, PipelineInv, OperationFollowsFate
<1>3. /\ Slot!Next /\ read' \in [Reads -> LooseRecord]
      /\ OperationFollowsFate' /\ SlotHolds' /\ fate' \in [Reads -> Slot!Fates]
      /\ read'[r].stage = "called" /\ read'[r].operation = "rate_limited"
           => read'[r].pause = pause /\ how = "rate_limited"
      /\ \A q \in Reads \ {r} : read'[q] = read[q]
  BY <1>1, <1>2, EndSteps
<1>4. /\ cooldown' \in Nat /\ asked' \in Nat
      /\ asked' <= cooldown' /\ cooldown' <= Longer(asked', MinCooldown)
      /\ asked <= asked'
      /\ how = "rate_limited" => pause <= asked'
  BY <1>1 DEF OperationEnds, CooldownAfter, Extended, Longer
<1>5. PausesAreCovered'
  <2> SUFFICES ASSUME NEW q \in Reads, read'[q].stage = "called",
                      read'[q].operation = "rate_limited"
               PROVE  read'[q].pause <= Longer(asked', MinCooldown)
    BY DEF PausesAreCovered
  <2>1. CASE q = r
    BY <1>1, <1>3, <1>4, <2>1 DEF Longer
  <2>2. CASE q # r
    <3>1. read[q].pause \in Nat /\ read[q].pause <= Longer(asked, MinCooldown)
          /\ read'[q] = read[q]
      BY <1>3, <2>2 DEF PausesAreCovered, PipelineInv, PipelineTypes, LooseRecord
    <3> QED
      BY <1>1, <1>4, <3>1 DEF Longer
  <2> QED
    BY <2>1, <2>2
<1>6. PipelineTypes' /\ CooldownCoversTheAsk'
  BY <1>3, <1>4 DEF PipelineTypes, CooldownCoversTheAsk
<1> QED
  BY <1>3, <1>5, <1>6 DEF PipelineInv

\* The handler sees the result.
LEMMA ResumeSteps ==
  ASSUME PipelineInv, NEW r \in Reads, CallerResumes(r)
  PROVE  PipelineInv' /\ UNCHANGED fate
<1> DEFINE is  == read[r]
           new == IF MayRetry(is) THEN [is EXCEPT !.stage = "backoff", !.timer = Backoff]
                  ELSE Answered(is, is.operation)
<1>1. is \in LooseRecord /\ is.stage = "called" /\ is.operation \in Results
  BY DEF CallerResumes, PipelineInv, PipelineTypes
<1>2. /\ new \in LooseRecord
      /\ new.operation # "reading"
      /\ new.operation \in Results => new.operation = is.operation
      /\ new.stage = "backoff" => new.operation \in Results
      /\ new.stage # "called"
  <2>1. CASE MayRetry(is)
    <3>1. Backoff \in Int /\ "backoff" \in InCall
      BY TimesArePositive DEF InCall
    <3>2. new = [is EXCEPT !.stage = "backoff", !.timer = Backoff]
      BY <2>1
    <3>3. is \in LooseRecord /\ is.operation \in Results
      BY <1>1
    <3> HIDE DEF new, is
    <3>4. new \in LooseRecord
      BY <3>1, <3>2, <3>3 DEF LooseRecord
    <3>5. new.operation = is.operation /\ new.stage = "backoff"
      BY <3>2, <3>3 DEF LooseRecord
    <3> QED
      BY <3>3, <3>4, <3>5 DEF Results
  <2>2. CASE ~MayRetry(is)
    <3>1. is.operation \in Answers /\ is.operation \notin {"called", "backoff", "reading", "none"}
      BY <1>1 DEF Answers, Results
    <3> QED
      BY <1>1, <2>2, <3>1, AnsweredIsARecord DEF Results
  <2> QED
    BY <2>1, <2>2
<1>3. UNCHANGED <<fate, asked>> /\ read' = [read EXCEPT ![r] = new]
  BY DEF CallerResumes
<1> HIDE DEF new
<1>4. read'[r] = new /\ \A q \in Reads \ {r} : read'[q] = read[q]
  BY <1>3 DEF PipelineInv, PipelineTypes
<1>5. is.operation = "rate_limited" => is.pause \in Nat /\ is.pause <= Longer(asked, MinCooldown)
  BY <1>1 DEF PipelineInv, PausesAreCovered, LooseRecord
<1>6. cooldown' \in Nat /\ asked <= cooldown' /\ cooldown' <= Longer(asked, MinCooldown)
  <2>1. /\ MinCooldown \in Nat /\ cooldown \in Nat /\ asked \in Nat
        /\ asked <= cooldown /\ cooldown <= Longer(asked, MinCooldown)
    BY TimesArePositive DEF PipelineInv, PipelineTypes, CooldownCoversTheAsk
  <2> QED
    BY <1>5, <2>1 DEF CallerResumes, Extended, Longer
<1>7. PipelineTypes' /\ CooldownCoversTheAsk'
  BY <1>2, <1>3, <1>6 DEF PipelineInv, PipelineTypes, CooldownCoversTheAsk
<1>8. PausesAreCovered'
  BY <1>2, <1>3, <1>4 DEF PipelineInv, PausesAreCovered
<1>9. OperationFollowsFate' /\ SlotHolds'
  BY <1>1, <1>2, <1>3, <1>4 DEF PipelineInv, OperationFollowsFate, SlotHolds,
     Slot!SlotIsExclusive, Slot!SlotIsUsed, Slot!With
<1> QED
  BY <1>3, <1>7, <1>8, <1>9 DEF PipelineInv

\* A read arrives, or its pause is over.
LEMMA ArrivalSteps ==
  ASSUME PipelineInv, NEW r \in Reads, Arrive(r) \/ BackoffEnds(r)
  PROVE  /\ PipelineInv' /\ (UNCHANGED fate \/ Slot!Next)
         /\ read'[r].operation # "reading" /\ \A q \in Reads \ {r} : read'[q] = read[q]
<1>1. CASE Arrive(r)
  <2>1. NewRead.operation = "none" /\ fate[r] \notin {"waiting", "serving"}
    BY <1>1 DEF NewRead, Arrive, Idle
  <2> QED
    BY <1>1, <2>1, NewReadIsARecord, CallSteps DEF Arrive
<1>2. CASE BackoffEnds(r)
  <2> DEFINE rec == [read[r] EXCEPT !.attempt = 1, !.operation = "none"]
  <2>1. read[r] \in LooseRecord
    BY DEF PipelineInv, PipelineTypes
  <2>2. rec \in LooseRecord /\ rec.operation = "none"
    BY <2>1 DEF LooseRecord
  <2>3. fate[r] \notin {"waiting", "serving"}
    BY <1>2 DEF BackoffEnds, PipelineInv, OperationFollowsFate
  <2>4. Call(r, rec) /\ UNCHANGED <<cooldown, asked>>
    BY <1>2 DEF BackoffEnds
  <2> HIDE DEF rec
  <2> QED
    BY <2>2, <2>3, <2>4, CallSteps
<1> QED
  BY <1>1, <1>2
-----------------------------------------------------------------------------
\* Every step keeps the cooldown, the pauses and the slot.
LEMMA PipelineSteps ==
  ASSUME PipelineInv, Next
  PROVE  PipelineInv' /\ (UNCHANGED fate \/ Slot!Next)
<1>1. ASSUME NEW r \in Reads, NotReady(r) \/ OperationBegins(r) \/ QueueTimer(r)
                                \/ ExecutionTimer(r) \/ Disconnect(r)
      PROVE  PipelineInv' /\ (UNCHANGED fate \/ Slot!Next)
  BY <1>1, HandlerSteps
<1>2. ASSUME NEW r \in Reads, Arrive(r) \/ BackoffEnds(r)
      PROVE  PipelineInv' /\ (UNCHANGED fate \/ Slot!Next)
  BY <1>2, ArrivalSteps
<1>3. ASSUME NEW r \in Reads, OperationRefused(r)
      PROVE  PipelineInv' /\ (UNCHANGED fate \/ Slot!Next)
  BY <1>3, RefusalSteps
<1>4. ASSUME NEW r \in Reads, NEW how \in Results, NEW pause \in RetryAfters,
             OperationEnds(r, how, pause)
      PROVE  PipelineInv' /\ (UNCHANGED fate \/ Slot!Next)
  BY <1>4, OperationEndSteps
<1>5. ASSUME NEW r \in Reads, CallerResumes(r)
      PROVE  PipelineInv' /\ (UNCHANGED fate \/ Slot!Next)
  BY <1>5, ResumeSteps
<1>6. ASSUME Tick
      PROVE  PipelineInv' /\ (UNCHANGED fate \/ Slot!Next)
  BY <1>6, TickSteps DEF Tick
<1> QED
  BY <1>1, <1>2, <1>3, <1>4, <1>5, <1>6 DEF Next

\* A step that changes nothing keeps the invariant.
LEMMA PipelineStutters ==
  ASSUME PipelineInv, UNCHANGED vars
  PROVE  PipelineInv'
<1>1. PipelineTypes' /\ CooldownCoversTheAsk' /\ PausesAreCovered' /\ OperationFollowsFate'
  BY DEF PipelineInv, vars, PipelineTypes, CooldownCoversTheAsk, PausesAreCovered,
         OperationFollowsFate
<1>2. SlotHolds'
  BY DEF PipelineInv, vars, SlotHolds, Slot!SlotIsExclusive, Slot!SlotIsUsed, Slot!With
<1> QED
  BY <1>1, <1>2 DEF PipelineInv

\* The invariant of the cooldown holds always.
LEMMA PipelineIsInductive == Spec => []PipelineInv
<1>1. PipelineInv /\ [Next]_vars => PipelineInv'
  BY PipelineSteps, PipelineStutters
<1> QED
  BY PipelineInit, <1>1, PTL DEF Spec

\* "a shared fail-fast read cooldown of the validated interval": the cooldown
\* covers every pause Schwab asked for, and no more than one minimum beyond.
THEOREM CooldownHolds == Spec => []CooldownCoversTheAsk
<1>1. PipelineInv => CooldownCoversTheAsk
  BY DEF PipelineInv
<1> QED
  BY <1>1, PipelineIsInductive, PTL

\* "Queued reads check the same gate before fetching": no operation calls Schwab
\* while a pause it asked for runs.
THEOREM PausesAreKept == Spec => NoCallWhileAsked
<1> DEFINE Quiet == \A r \in Reads :
             read'[r].operation = "reading" /\ read[r].operation # "reading" => asked = 0
<1>1. ASSUME PipelineInv, Next
      PROVE  Quiet
  <2> SUFFICES ASSUME NEW q \in Reads, read'[q].operation = "reading",
                      read[q].operation # "reading"
               PROVE  asked = 0
    OBVIOUS
  <2> USE <1>1
  <2>1. ASSUME NEW r \in Reads, OperationBegins(r)
        PROVE  asked = 0
    BY <2>1 DEF OperationBegins, Hot, PipelineInv, PipelineTypes, CooldownCoversTheAsk
  <2>2. ASSUME NEW r \in Reads, NotReady(r) \/ QueueTimer(r) \/ ExecutionTimer(r) \/ Disconnect(r)
        PROVE  FALSE
    <3>1. PICK rec \in LooseRecord, answer \in Answers :
            /\ read' = [read EXCEPT ![r] = Answered(rec, answer)]
            /\ rec.operation = "reading" => read[r].operation = "reading"
      <4>1. read[r] \in LooseRecord
        BY DEF PipelineInv, PipelineTypes
      <4>2. {"not_ready", "queue_timeout", "upstream_timeout", "gone"} \subseteq Answers
        BY DEF Answers
      <4>3. NewRead.operation # "reading"
        BY DEF NewRead
      <4>4. CASE NotReady(r)
        BY <4>2, <4>3, <4>4, NewReadIsARecord DEF NotReady
      <4>5. CASE QueueTimer(r)
        BY <4>1, <4>2, <4>5 DEF QueueTimer
      <4>6. CASE ExecutionTimer(r)
        BY <4>1, <4>2, <4>6 DEF ExecutionTimer
      <4>7. CASE Disconnect(r)
        BY <4>1, <4>2, <4>7 DEF Disconnect
      <4> QED
        BY <2>2, <4>4, <4>5, <4>6, <4>7
    <3>2. Answered(rec, answer).operation = "reading" => read[r].operation = "reading"
      BY <3>1, AnsweredIsARecord
    <3> QED
      BY <3>1, <3>2 DEF PipelineInv, PipelineTypes
  <2>3. ASSUME NEW r \in Reads, Arrive(r) \/ BackoffEnds(r)
        PROVE  FALSE
    BY <2>3, ArrivalSteps
  <2>4. ASSUME NEW r \in Reads, NEW how \in Results, NEW pause \in Nat,
               read' = [read EXCEPT ![r] = Over(@, how, pause)]
        PROVE  FALSE
    BY <2>4 DEF Over, Results, PipelineInv, PipelineTypes, LooseRecord
  <2>5. ASSUME NEW r \in Reads, OperationRefused(r)
        PROVE  FALSE
    BY <2>4, <2>5 DEF OperationRefused, Results, PipelineInv, PipelineTypes
  <2>6. ASSUME NEW r \in Reads, NEW how \in Results, NEW pause \in RetryAfters,
               OperationEnds(r, how, pause)
        PROVE  FALSE
    BY <2>4, <2>6, TimesArePositive DEF OperationEnds
  <2>7. ASSUME NEW r \in Reads, CallerResumes(r)
        PROVE  FALSE
    <3>1. read[r] \in LooseRecord /\ read[r].operation \in Results
      BY <2>7 DEF CallerResumes, PipelineInv, PipelineTypes
    <3>2. read[r].operation \in Answers
      BY <3>1 DEF Answers
    <3>3. Answered(read[r], read[r].operation).operation # "reading"
      BY <3>1, <3>2, AnsweredIsARecord DEF Results
    <3> QED
      BY <2>7, <3>1, <3>3 DEF CallerResumes, PipelineInv, PipelineTypes, LooseRecord, Results
  <2>8. ASSUME Tick
        PROVE  FALSE
    BY <2>8 DEF Tick, PipelineInv, PipelineTypes, LooseRecord
  <2> QED
    BY <2>1, <2>2, <2>3, <2>5, <2>6, <2>7, <2>8 DEF Next
<1>2. PipelineInv /\ [Next]_vars => [Quiet]_vars
  BY <1>1
<1> QED
  BY <1>2, PipelineIsInductive, PTL DEF Spec, NoCallWhileAsked

\* The pipeline implements what the scheduler is specified to be: every step that
\* moves a call is one the slot allows, retries and withdrawals included.
THEOREM PipelineUsesSlot == Spec => UsesSlot
<1>1. Init => Slot!Init
  BY DEF Init
<1>2. PipelineInv /\ [Next]_vars => [Slot!Next]_fate
  BY PipelineSteps DEF vars
<1> QED
  BY <1>1, <1>2, PipelineIsInductive, PTL DEF Spec, UsesSlot, Slot!Spec
-----------------------------------------------------------------------------
(* What a read still has of its time, and the calls it has made.           *)

\* The timer that runs ends within the time the read has: its queue timeout until
\* its operation begins, its budget on top of that until it is answered, and once
\* it is retried the budget alone.
InTime(r, rec) ==
  /\ rec.timer \in Nat
  /\ rec.stage \in InCall =>
       rec.elapsed + rec.timer <=
         IF rec.attempt = 1 \/ rec.stage = "backoff" THEN UpstreamTimeout
         ELSE IF rec.operation = "none" THEN QueueTimeout[ClassOf(r)]
         ELSE QueueTimeout[ClassOf(r)] + UpstreamTimeout

RetriedOnce(rec) == rec.attempt = 1 => rec.first = "connect_timeout"

\* The calls a read has made at each place of its handler.
CallsMatch(rec) ==
  /\ rec.stage \notin InCall => rec.calls = 0
  /\ rec.stage = "backoff" => rec.attempt = 0 /\ rec.calls = 1 /\ rec.first = "connect_timeout"
  /\ rec.stage = "called" =>
       /\ rec.operation = "none" => rec.calls = rec.attempt /\ RetriedOnce(rec)
       /\ rec.operation = "reading" => rec.calls = rec.attempt + 1 /\ RetriedOnce(rec)
       /\ rec.operation \in Results => rec.calls \in {rec.attempt, rec.attempt + 1}
       /\ rec.operation = "connect_timeout" /\ rec.attempt = 0 =>
            rec.calls = 1 /\ rec.first = "connect_timeout"

Sound(r, rec) == InTime(r, rec) /\ CallsMatch(rec)

ReadInv ==
  /\ \A r \in Reads : Sound(r, read[r])
  /\ cooldown <= Longest
  /\ asked <= Longest

\* What AnswerMatchesCalls asks of a read whose record becomes rec.
Accounted(r, rec) ==
  read[r].stage \in InCall =>
    /\ read[r].calls = 1 /\ rec.calls = 2 => read[r].first = "connect_timeout"
    /\ rec.stage \in {"capacity", "queue_timeout"} =>
         read[r].calls = 0 \/ (read[r].calls = 1 /\ read[r].first = "connect_timeout")
    /\ rec.stage \in {"value", "failed", "connect_timeout"} => read[r].operation = rec.stage
    /\ rec.stage = "upstream_timeout" => read[r].operation = "reading"
    /\ rec.stage = "backoff" => fate[r] = "served"

\* The times of a read are numbers.
LEMMA TimesOfARead ==
  ASSUME NEW r \in Reads
  PROVE  /\ QueueTimeout[ClassOf(r)] \in Nat /\ UpstreamTimeout \in Nat
         /\ RetryFloor \in Nat /\ Backoff \in Nat /\ MinCooldown \in Nat
         /\ Backoff < RetryFloor
BY TimesArePositive DEF ClassOf, Classes

\* A read that has been answered has no time to keep and no calls to account for.
LEMMA AnsweredIsSound ==
  ASSUME NEW r \in Reads, NEW rec \in LooseRecord, NEW answer \in Answers
  PROVE  /\ Sound(r, Answered(rec, answer))
         /\ Answered(rec, answer).stage = answer /\ Answered(rec, answer).calls = 0
<1> DEFINE left == IF rec.operation = "reading" THEN "reading" ELSE "none"
           new  == [NewRead EXCEPT !.stage = answer, !.operation = left]
<1>1. Answered(rec, answer) = new
  BY DEF Answered
<1>2. new.stage = answer /\ new.timer = 0 /\ new.calls = 0
  BY DEF NewRead
<1>3. answer \notin InCall
  BY DEF Answers, Results, InCall
<1> HIDE DEF new
<1>4. Sound(r, new)
  BY <1>2, <1>3 DEF Sound, InTime, CallsMatch, InCall
<1> QED
  BY <1>1, <1>2, <1>4

\* A read that the step leaves alone stays sound and accounted for.
LEMMA OneReadMoves ==
  ASSUME PipelineInv, ReadInv, NEW r \in Reads, NEW rec,
         read' = [read EXCEPT ![r] = rec], Sound(r, rec), Accounted(r, rec)
  PROVE  \A q \in Reads : Sound(q, read'[q]) /\ Accounted(q, read'[q])
<1> SUFFICES ASSUME NEW q \in Reads
             PROVE  Sound(q, read'[q]) /\ Accounted(q, read'[q])
  OBVIOUS
<1>1. CASE q = r
  BY <1>1 DEF PipelineInv, PipelineTypes
<1>2. CASE q # r
  <2>1. read'[q] = read[q]
    BY <1>2 DEF PipelineInv, PipelineTypes
  <2>2. read[q].stage = "backoff" => fate[q] = "served"
    BY DEF PipelineInv, OperationFollowsFate
  <2>3. read[q].stage \in InCall => read[q].stage \in {"called", "backoff"}
    BY DEF InCall
  <2>4. Accounted(q, read[q])
    BY <2>2, <2>3 DEF Accounted
  <2> QED
    BY <2>1, <2>4 DEF ReadInv
<1> QED
  BY <1>1, <1>2

\* The handler answers, or its client goes.
LEMMA AnswersAccount ==
  ASSUME PipelineInv, ReadInv, NEW r \in Reads,
         QueueTimer(r) \/ ExecutionTimer(r) \/ Disconnect(r) \/ NotReady(r)
  PROVE  \A q \in Reads : Sound(q, read'[q]) /\ Accounted(q, read'[q])
<1> DEFINE is == read[r]
<1>1. is \in LooseRecord /\ Sound(r, is)
  BY DEF PipelineInv, PipelineTypes, ReadInv
<1>2. {"not_ready", "queue_timeout", "upstream_timeout", "gone"} \subseteq Answers
  BY DEF Answers
<1>3. ASSUME NEW rec \in LooseRecord, NEW answer \in Answers,
             read' = [read EXCEPT ![r] = Answered(rec, answer)],
             is.stage \in InCall =>
               /\ answer \in {"queue_timeout", "upstream_timeout", "gone"}
               /\ answer = "queue_timeout" =>
                    is.calls = 0 \/ (is.calls = 1 /\ is.first = "connect_timeout")
               /\ answer = "upstream_timeout" => is.operation = "reading"
      PROVE  \A q \in Reads : Sound(q, read'[q]) /\ Accounted(q, read'[q])
  <2>1. /\ Sound(r, Answered(rec, answer))
        /\ Answered(rec, answer).stage = answer /\ Answered(rec, answer).calls = 0
    BY AnsweredIsSound
  <2>2. Accounted(r, Answered(rec, answer))
    BY <1>3, <2>1 DEF Accounted
  <2> HIDE DEF is
  <2> QED
    BY <1>3, <2>1, <2>2, OneReadMoves
<1>4. CASE NotReady(r)
  <2>1. is.stage \notin InCall
    BY <1>4 DEF NotReady, Idle
  <2> QED
    BY <1>2, <1>3, <1>4, <2>1, NewReadIsARecord DEF NotReady
<1>5. CASE QueueTimer(r)
  <2>1. is.stage = "called" /\ is.operation = "none"
    BY <1>1, <1>5 DEF QueueTimer, PipelineInv, OperationFollowsFate, LooseRecord
  <2>2. is.calls = 0 \/ (is.calls = 1 /\ is.first = "connect_timeout")
    BY <1>1, <2>1 DEF Sound, CallsMatch, RetriedOnce, LooseRecord
  <2> QED
    BY <1>1, <1>2, <1>3, <1>5, <2>2 DEF QueueTimer
<1>6. CASE ExecutionTimer(r)
  BY <1>1, <1>2, <1>3, <1>6 DEF ExecutionTimer
<1>7. CASE Disconnect(r)
  BY <1>1, <1>2, <1>3, <1>7 DEF Disconnect
<1> QED
  BY <1>4, <1>5, <1>6, <1>7

\* A call is made, for the first time or after the pause.
LEMMA ArrivalsAccount ==
  ASSUME PipelineInv, ReadInv, NEW r \in Reads, Arrive(r) \/ BackoffEnds(r)
  PROVE  \A q \in Reads : Sound(q, read'[q]) /\ Accounted(q, read'[q])
<1> DEFINE is == read[r]
<1>1. is \in LooseRecord /\ Sound(r, is)
  BY DEF PipelineInv, PipelineTypes, ReadInv
<1>2. PICK rec \in LooseRecord :
        /\ Call(r, rec)
        /\ rec.operation = "none" /\ rec.calls = rec.attempt /\ rec.elapsed \in Nat
        /\ \/ rec.attempt = 0 /\ rec.elapsed = 0 /\ is.stage \notin InCall
           \/ /\ rec.attempt = 1 /\ rec.elapsed <= UpstreamTimeout
              /\ rec.first = "connect_timeout"
              /\ is.stage = "backoff" /\ is.calls = 1 /\ is.first = "connect_timeout"
  <2>1. CASE Arrive(r)
    <3>1. NewRead.operation = "none" /\ NewRead.calls = 0 /\ NewRead.attempt = 0 /\ NewRead.elapsed = 0
      BY DEF NewRead
    <3>2. is.stage \notin InCall /\ Call(r, NewRead)
      BY <2>1 DEF Arrive, Idle
    <3> QED
      BY <3>1, <3>2, NewReadIsARecord
  <2>2. CASE BackoffEnds(r)
    <3> DEFINE new == [is EXCEPT !.attempt = 1, !.operation = "none"]
    <3>1. is.stage = "backoff" /\ is.timer = 0 /\ Call(r, new)
      BY <2>2 DEF BackoffEnds
    <3>2. /\ is.calls = 1 /\ is.first = "connect_timeout"
          /\ is.elapsed \in Nat /\ is.elapsed <= UpstreamTimeout
      BY <1>1, <3>1, TimesOfARead DEF Sound, InTime, CallsMatch, InCall, LooseRecord
    <3>3. new \in LooseRecord
      BY <1>1 DEF LooseRecord
    <3>4. /\ new.operation = "none" /\ new.attempt = 1 /\ new.calls = is.calls
          /\ new.elapsed = is.elapsed /\ new.first = is.first
      BY <1>1 DEF LooseRecord
    <3> HIDE DEF is, new
    <3> QED
      BY <3>1, <3>2, <3>3, <3>4
  <2> QED
    BY <2>1, <2>2
<1> HIDE DEF is
<1>3. ASSUME NEW answer \in {"rate_limited", "capacity"},
             read' = [read EXCEPT ![r] = Answered(rec, answer)]
      PROVE  \A q \in Reads : Sound(q, read'[q]) /\ Accounted(q, read'[q])
  <2>1. answer \in Answers
    BY DEF Answers, Results
  <2>2. /\ Sound(r, Answered(rec, answer))
        /\ Answered(rec, answer).stage = answer /\ Answered(rec, answer).calls = 0
    BY <2>1, AnsweredIsSound
  <2>3. Accounted(r, Answered(rec, answer))
    BY <1>2, <2>2 DEF Accounted, is
  <2> QED
    BY <1>3, <2>2, <2>3, OneReadMoves
<1>4. ASSUME read' = [read EXCEPT ![r] = [rec EXCEPT !.stage = "called", !.timer = QueueLeft(r, rec)]]
      PROVE  \A q \in Reads : Sound(q, read'[q]) /\ Accounted(q, read'[q])
  <2> DEFINE left == QueueLeft(r, rec)
             new  == [rec EXCEPT !.stage = "called", !.timer = left]
  <2>1. /\ left \in Nat
        /\ rec.elapsed + left <= IF rec.attempt = 1 THEN UpstreamTimeout
                                 ELSE QueueTimeout[ClassOf(r)]
    BY <1>2, TimesOfARead DEF QueueLeft, Left, Shorter
  <2> HIDE DEF left
  <2>2. /\ new.stage = "called" /\ new.timer = left /\ new.elapsed = rec.elapsed
        /\ new.operation = "none" /\ new.calls = rec.calls /\ new.attempt = rec.attempt
        /\ new.first = rec.first
    BY <1>2 DEF LooseRecord
  <2> HIDE DEF new
  <2>3. Sound(r, new)
    BY <1>2, <2>1, <2>2 DEF Sound, InTime, CallsMatch, RetriedOnce, InCall, Results, LooseRecord
  <2>4. Accounted(r, new)
    BY <1>2, <2>2 DEF Accounted, is
  <2>5. read' = [read EXCEPT ![r] = new]
    BY <1>4 DEF new, left
  <2> QED
    BY <2>3, <2>4, <2>5, OneReadMoves
<1> QED
  BY <1>2, <1>3, <1>4 DEF Call

\* An operation calls Schwab with the budget its read has left.
LEMMA BeginningsAccount ==
  ASSUME PipelineInv, ReadInv, NEW r \in Reads, OperationBegins(r)
  PROVE  \A q \in Reads : Sound(q, read'[q]) /\ Accounted(q, read'[q])
<1> DEFINE is == read[r]
<1>1. is \in LooseRecord /\ Sound(r, is)
  BY DEF PipelineInv, PipelineTypes, ReadInv
<1>2. is.operation = "none" /\ is.stage # "backoff"
  BY DEF OperationBegins, PipelineInv, OperationFollowsFate, Results
<1>3. CASE is.stage = "called"
  <2> DEFINE budget == Budget(is)
             calls  == is.calls + 1
             new    == [is EXCEPT !.operation = "reading", !.calls = calls, !.timer = budget]
  <2>1. is.calls = is.attempt /\ RetriedOnce(is) /\ is.elapsed \in Nat
    BY <1>1, <1>2, <1>3 DEF Sound, CallsMatch, LooseRecord
  <2>2. is.elapsed <= IF is.attempt = 1 THEN UpstreamTimeout ELSE QueueTimeout[ClassOf(r)]
    BY <1>1, <1>2, <1>3, TimesOfARead DEF Sound, InTime, InCall, LooseRecord
  <2>3. /\ budget \in Nat /\ calls \in Nat
        /\ is.elapsed + budget <= IF is.attempt = 1 THEN UpstreamTimeout
                                  ELSE QueueTimeout[ClassOf(r)] + UpstreamTimeout
    BY <1>1, <2>1, <2>2, TimesOfARead DEF Budget, Left, LooseRecord
  <2>4. calls = is.attempt + 1 /\ (calls = 2 => is.first = "connect_timeout")
    BY <1>1, <2>1 DEF RetriedOnce, LooseRecord
  <2> HIDE DEF budget, calls
  <2>5. /\ new.stage = "called" /\ new.timer = budget /\ new.elapsed = is.elapsed
        /\ new.operation = "reading" /\ new.calls = calls /\ new.attempt = is.attempt
        /\ new.first = is.first
    BY <1>1, <1>3 DEF LooseRecord
  <2>6. read' = [read EXCEPT ![r] = new]
    BY <1>3 DEF OperationBegins, budget, calls
  <2> HIDE DEF new, is
  <2>7. Sound(r, new)
    BY <2>1, <2>3, <2>4, <2>5 DEF Sound, InTime, CallsMatch, RetriedOnce, InCall, Results
  <2>8. Accounted(r, new)
    BY <2>4, <2>5 DEF Accounted, is
  <2> QED
    BY <2>6, <2>7, <2>8, OneReadMoves
<1>4. CASE is.stage # "called"
  <2> DEFINE new == [is EXCEPT !.operation = "reading"]
  <2>1. is.stage \notin InCall
    BY <1>2, <1>4 DEF InCall
  <2>2. new.stage = is.stage /\ new.timer = is.timer /\ new.calls = is.calls
    BY <1>1 DEF LooseRecord
  <2>3. read' = [read EXCEPT ![r] = new]
    BY <1>4 DEF OperationBegins
  <2> HIDE DEF new
  <2>4. Sound(r, new)
    BY <1>1, <2>1, <2>2 DEF Sound, InTime, CallsMatch, InCall
  <2>5. Accounted(r, new)
    BY <2>1 DEF Accounted
  <2> HIDE DEF is
  <2> QED
    BY <2>3, <2>4, <2>5, OneReadMoves
<1> QED
  BY <1>3, <1>4

\* An operation is over, before it called Schwab or after.
LEMMA EndingsAccount ==
  ASSUME PipelineInv, ReadInv, NEW r \in Reads, NEW how \in Results, NEW pause \in Nat,
         fate[r] = "serving",
         read[r].operation = "reading" \/ how = "rate_limited",
         read' = [read EXCEPT ![r] = Over(@, how, pause)]
  PROVE  \A q \in Reads : Sound(q, read'[q]) /\ Accounted(q, read'[q])
<1> DEFINE is  == read[r]
           new == Over(is, how, pause)
<1>1. is \in LooseRecord /\ Sound(r, is)
  BY DEF PipelineInv, PipelineTypes, ReadInv
<1>2. is.stage # "backoff" /\ is.operation \in {"none", "reading"}
  BY <1>1 DEF PipelineInv, OperationFollowsFate, LooseRecord
<1>3. CASE is.stage = "called"
  <2> DEFINE first == IF is.calls = 1 THEN how ELSE is.first
             over  == [is EXCEPT !.operation = how, !.pause = pause, !.first = first]
  <2>1. new = over
    BY <1>3 DEF Over
  <2> HIDE DEF first
  <2>2. /\ over.stage = "called" /\ over.operation = how /\ over.first = first
        /\ over.timer = is.timer /\ over.elapsed = is.elapsed
        /\ over.calls = is.calls /\ over.attempt = is.attempt
    BY <1>1, <1>3 DEF LooseRecord
  <2> HIDE DEF over, new
  <2>3. /\ is.calls \in {is.attempt, is.attempt + 1}
        /\ how = "connect_timeout" /\ is.attempt = 0 => is.calls = 1
    BY <1>1, <1>2, <1>3 DEF Sound, CallsMatch
  <2>4. how \notin {"none", "reading"}
    BY DEF Results
  <2>5. InTime(r, over)
    BY <1>1, <1>2, <1>3, <2>2, <2>4, TimesOfARead DEF Sound, InTime, InCall, LooseRecord
  <2>6. CallsMatch(over)
    BY <2>2, <2>3, <2>4 DEF CallsMatch, InCall, first
  <2>7. Accounted(r, over)
    BY <2>2 DEF Accounted
  <2>8. read' = [read EXCEPT ![r] = over]
    BY <2>1 DEF new
  <2> QED
    BY <2>5, <2>6, <2>7, <2>8, OneReadMoves DEF Sound
<1>4. CASE is.stage # "called"
  <2> DEFINE over == [is EXCEPT !.operation = "none"]
  <2>1. is.stage \notin InCall /\ read' = [read EXCEPT ![r] = over]
    BY <1>2, <1>4 DEF InCall, Over
  <2>2. over.stage = is.stage /\ over.timer = is.timer /\ over.calls = is.calls
    BY <1>1 DEF LooseRecord
  <2> HIDE DEF over
  <2>3. Sound(r, over)
    BY <1>1, <2>1, <2>2 DEF Sound, InTime, CallsMatch, InCall
  <2>4. Accounted(r, over)
    BY <2>1 DEF Accounted
  <2> HIDE DEF is
  <2> QED
    BY <2>1, <2>3, <2>4, OneReadMoves
<1> QED
  BY <1>3, <1>4

\* The handler sees the result: it pauses within its deadline, or answers it.
LEMMA ResumptionsAccount ==
  ASSUME PipelineInv, ReadInv, NEW r \in Reads, CallerResumes(r)
  PROVE  \A q \in Reads : Sound(q, read'[q]) /\ Accounted(q, read'[q])
<1> DEFINE is == read[r]
<1>1. is \in LooseRecord /\ Sound(r, is)
  BY DEF PipelineInv, PipelineTypes, ReadInv
<1>2. is.stage = "called" /\ is.operation \in Results /\ fate[r] = "served"
  BY DEF CallerResumes, PipelineInv, OperationFollowsFate
<1>3. CASE MayRetry(is)
  <2> DEFINE new == [is EXCEPT !.stage = "backoff", !.timer = Backoff]
  <2>1. /\ is.operation = "connect_timeout" /\ is.attempt = 0
        /\ is.calls = 1 /\ is.first = "connect_timeout"
    BY <1>1, <1>2, <1>3 DEF MayRetry, Sound, CallsMatch
  <2>2. Backoff \in Nat /\ is.elapsed + Backoff <= UpstreamTimeout
    BY <1>1, <1>3, TimesOfARead DEF MayRetry, Left, LooseRecord
  <2>3. /\ new.stage = "backoff" /\ new.timer = Backoff /\ new.elapsed = is.elapsed
        /\ new.operation = is.operation /\ new.calls = is.calls
        /\ new.attempt = is.attempt /\ new.first = is.first
    BY <1>1 DEF LooseRecord
  <2>4. read' = [read EXCEPT ![r] = new]
    BY <1>3 DEF CallerResumes
  <2> HIDE DEF new, is
  <2>5. Sound(r, new)
    BY <2>1, <2>2, <2>3 DEF Sound, InTime, CallsMatch, InCall
  <2>6. Accounted(r, new)
    BY <1>2, <2>1, <2>3 DEF Accounted, is
  <2> QED
    BY <2>4, <2>5, <2>6, OneReadMoves
<1>4. CASE ~MayRetry(is)
  <2> DEFINE new == Answered(is, is.operation)
  <2>1. is.operation \in Answers /\ is.operation \notin {"capacity", "queue_timeout", "upstream_timeout", "backoff"}
    BY <1>2 DEF Answers, Results
  <2>2. Sound(r, new) /\ new.stage = is.operation /\ new.calls = 0
    BY <1>1, <2>1, AnsweredIsSound
  <2>3. read' = [read EXCEPT ![r] = new]
    BY <1>4 DEF CallerResumes
  <2> HIDE DEF new
  <2>4. Accounted(r, new)
    BY <2>1, <2>2 DEF Accounted
  <2> HIDE DEF is
  <2> QED
    BY <2>2, <2>3, <2>4, OneReadMoves
<1> QED
  BY <1>3, <1>4

\* Time passes only while every timer that runs has some left.
LEMMA TicksAccount ==
  ASSUME PipelineInv, ReadInv, Tick
  PROVE  \A q \in Reads : Sound(q, read'[q]) /\ Accounted(q, read'[q])
<1> SUFFICES ASSUME NEW q \in Reads
             PROVE  Sound(q, read'[q]) /\ Accounted(q, read'[q])
  OBVIOUS
<1> DEFINE is == read[q]
<1>1. is \in LooseRecord /\ Sound(q, is)
  BY DEF PipelineInv, PipelineTypes, ReadInv
<1>2. is.stage = "backoff" => fate[q] = "served"
  BY DEF PipelineInv, OperationFollowsFate
<1>3. CASE is.stage \in InCall
  <2> DEFINE elapsed == is.elapsed + 1
             timer   == is.timer - 1
             new     == [is EXCEPT !.elapsed = elapsed, !.timer = timer]
  <2>1. is.timer \in Nat /\ is.timer > 0 /\ is.elapsed \in Nat
    BY <1>1, <1>2, <1>3 DEF Tick, NothingIsDue, InCall, Sound, InTime, LooseRecord
  <2>2. timer \in Nat /\ elapsed \in Nat /\ elapsed + timer = is.elapsed + is.timer
    BY <2>1
  <2>3. read'[q] = new
    BY <1>3 DEF Tick
  <2> HIDE DEF elapsed, timer
  <2>4. /\ new.stage = is.stage /\ new.timer = timer /\ new.elapsed = elapsed
        /\ new.operation = is.operation /\ new.calls = is.calls
        /\ new.attempt = is.attempt /\ new.first = is.first
    BY <1>1 DEF LooseRecord
  <2> HIDE DEF new
  <2>5. InTime(q, new)
    BY <1>1, <1>3, <2>2, <2>4 DEF Sound, InTime
  <2>6. CallsMatch(new)
    BY <1>1, <2>4 DEF Sound, CallsMatch, RetriedOnce
  <2>7. Accounted(q, new)
    BY <1>2, <1>3, <2>4 DEF Accounted, InCall
  <2> QED
    BY <2>3, <2>5, <2>6, <2>7 DEF Sound
<1>4. CASE is.stage \notin InCall
  BY <1>1, <1>4 DEF Tick, Accounted
<1> QED
  BY <1>3, <1>4

\* Every step keeps every read sound, and accounts for what it answers.
LEMMA ReadsAccount ==
  ASSUME PipelineInv, ReadInv, Next
  PROVE  \A q \in Reads : Sound(q, read'[q]) /\ Accounted(q, read'[q])
<1> DEFINE Goal == \A q \in Reads : Sound(q, read'[q]) /\ Accounted(q, read'[q])
<1> HIDE DEF Goal
<1>1. ASSUME NEW r \in Reads, QueueTimer(r) \/ ExecutionTimer(r) \/ Disconnect(r) \/ NotReady(r)
      PROVE  Goal
  BY <1>1, AnswersAccount DEF Goal
<1>2. ASSUME NEW r \in Reads, Arrive(r) \/ BackoffEnds(r)
      PROVE  Goal
  BY <1>2, ArrivalsAccount DEF Goal
<1>3. ASSUME NEW r \in Reads, OperationBegins(r)
      PROVE  Goal
  BY <1>3, BeginningsAccount DEF Goal
<1>4. ASSUME NEW r \in Reads, OperationRefused(r)
      PROVE  Goal
  <2>1. "rate_limited" \in Results /\ cooldown \in Nat
    BY DEF Results, PipelineInv, PipelineTypes
  <2> QED
    BY <1>4, <2>1, EndingsAccount DEF Goal, OperationRefused
<1>5. ASSUME NEW r \in Reads, NEW how \in Results, NEW pause \in RetryAfters,
             OperationEnds(r, how, pause)
      PROVE  Goal
  <2>1. pause \in Nat /\ fate[r] = "serving"
    BY <1>5, TimesArePositive DEF OperationEnds, PipelineInv, OperationFollowsFate
  <2> QED
    BY <1>5, <2>1, EndingsAccount DEF Goal, OperationEnds
<1>6. ASSUME NEW r \in Reads, CallerResumes(r)
      PROVE  Goal
  BY <1>6, ResumptionsAccount DEF Goal
<1>7. CASE Tick
  BY <1>7, TicksAccount DEF Goal
<1> QED
  BY <1>1, <1>2, <1>3, <1>4, <1>5, <1>6, <1>7 DEF Next, Goal

\* No pause that was asked for, and so no cooldown, is longer than the longest
\* that is believed.
LEMMA PausesAreBounded ==
  ASSUME PipelineInv, ReadInv, Next, PipelineInv'
  PROVE  cooldown' <= Longest /\ asked' <= Longest
<1>1. /\ MinCooldown \in Nat /\ RetryLimit \in Nat /\ Longest \in Nat
      /\ MinCooldown <= Longest /\ RetryLimit <= Longest
  BY TimesArePositive DEF Longest, Longer
<1>2. asked \in Nat /\ asked <= Longest
  BY DEF PipelineInv, PipelineTypes, ReadInv
<1>3. asked' <= Longest
  <2>1. ASSUME NEW r \in Reads, NEW how \in Results, NEW pause \in RetryAfters,
               OperationEnds(r, how, pause)
        PROVE  asked' <= Longest
    <3>1. pause \in Nat /\ pause <= RetryLimit
      BY <1>1, TimesArePositive
    <3>2. asked' = IF how = "rate_limited" THEN Longer(asked, Longer(MinCooldown, pause)) ELSE asked
      BY <2>1 DEF OperationEnds
    <3> QED
      BY <1>1, <1>2, <3>1, <3>2 DEF Longer
  <2>2. CASE Tick
    <3>1. asked' = CountDown(asked)
      BY <2>2 DEF Tick
    <3> QED
      BY <1>1, <1>2, <3>1 DEF CountDown
  <2>3. CASE UNCHANGED asked
    BY <1>2, <2>3
  <2>4. ASSUME NEW r \in Reads,
               \/ NotReady(r) \/ Arrive(r) \/ BackoffEnds(r) \/ OperationRefused(r)
               \/ OperationBegins(r) \/ CallerResumes(r) \/ QueueTimer(r)
               \/ ExecutionTimer(r) \/ Disconnect(r)
        PROVE  UNCHANGED asked
    BY <2>4 DEF NotReady, Arrive, BackoffEnds, OperationRefused, OperationBegins,
       CallerResumes, QueueTimer, ExecutionTimer, Disconnect
  <2> QED
    BY <2>1, <2>2, <2>3, <2>4 DEF Next
<1>4. cooldown' \in Nat /\ asked' \in Nat /\ cooldown' <= Longer(asked', MinCooldown)
  BY DEF PipelineInv, PipelineTypes, CooldownCoversTheAsk, Longer
<1> QED
  BY <1>1, <1>3, <1>4 DEF Longer

\* At the start no read has made a call.
LEMMA ReadInvInit == Init => ReadInv
<1> SUFFICES ASSUME Init PROVE ReadInv
  OBVIOUS
<1>1. ASSUME NEW r \in Reads PROVE Sound(r, read[r])
  BY DEF Init, NewRead, Sound, InTime, CallsMatch, InCall
<1>2. Longest \in Nat /\ cooldown = 0 /\ asked = 0
  BY TimesArePositive DEF Init, Longest, Longer
<1> QED
  BY <1>1, <1>2 DEF ReadInv

\* Every read keeps to its time and to its calls, whatever the others do.
LEMMA ReadInvIsInductive == Spec => [](PipelineInv /\ ReadInv)
<1>1. Init => PipelineInv /\ ReadInv
  BY PipelineInit, ReadInvInit
<1>2. PipelineInv /\ ReadInv /\ [Next]_vars => (PipelineInv /\ ReadInv)'
  <2>1. ASSUME PipelineInv, ReadInv, Next
        PROVE  ReadInv'
    BY <2>1, PipelineSteps, ReadsAccount, PausesAreBounded DEF ReadInv, Sound, InTime,
       CallsMatch, RetriedOnce
  <2>2. ASSUME ReadInv, UNCHANGED vars
        PROVE  ReadInv'
    BY <2>2 DEF vars, ReadInv, Sound, InTime, CallsMatch, RetriedOnce
  <2> QED
    BY <2>1, <2>2, PipelineSteps, PipelineStutters
<1> QED
  BY <1>1, <1>2, PTL DEF Spec
-----------------------------------------------------------------------------
\* Every variable of the pipeline keeps its type: no timer runs over, no read makes
\* a third call, and the cooldown ends within the longest pause that is believed.
THEOREM PipelineTypesHold == Spec => []TypeOK
<1>1. PipelineInv /\ ReadInv => TypeOK
  <2> SUFFICES ASSUME PipelineInv, ReadInv PROVE TypeOK
    OBVIOUS
  <2>1. ASSUME NEW r \in Reads PROVE read[r] \in ReadRecord
    <3>1. read[r] \in LooseRecord /\ Sound(r, read[r])
      BY DEF PipelineInv, PipelineTypes, ReadInv
    <3>2. read[r].timer \in Nat
      BY <3>1 DEF Sound, InTime
    <3>3. read[r].calls \in 0 .. 2
      BY <3>1 DEF Sound, CallsMatch, InCall, LooseRecord
    <3> QED
      BY <3>1, <3>2, <3>3 DEF LooseRecord, ReadRecord
  <2>2. Longest \in Nat
    BY TimesArePositive DEF Longest, Longer
  <2> QED
    BY <2>1, <2>2 DEF PipelineInv, PipelineTypes, ReadInv, TypeOK
<1> QED
  BY <1>1, ReadInvIsInductive, PTL

\* "The replacement queue and execution both share that absolute deadline": a read
\* is answered within its queue timeout and its budget, and once it is retried
\* within the budget alone.
THEOREM ReadsAreAnsweredInTime == Spec => []AnsweredInTime
<1>1. PipelineInv /\ ReadInv => AnsweredInTime
  <2> SUFFICES ASSUME PipelineInv, ReadInv, NEW r \in Reads, read[r].stage \in InCall
               PROVE  /\ read[r].elapsed <= QueueTimeout[ClassOf(r)] + UpstreamTimeout
                      /\ read[r].stage = "backoff" \/ read[r].attempt = 1 =>
                           read[r].elapsed <= UpstreamTimeout
    BY DEF AnsweredInTime
  <2>1. read[r] \in LooseRecord /\ Sound(r, read[r])
    BY DEF PipelineInv, PipelineTypes, ReadInv
  <2> QED
    BY <2>1, TimesOfARead DEF Sound, InTime, LooseRecord
<1> QED
  BY <1>1, ReadInvIsInductive, PTL

\* "may retry ConnectTimeout once": Schwab is called again only after the first
\* call has timed out connecting, and what a caller is told is what became of its
\* calls.
THEOREM AnswersMatchCalls == Spec => AnswerMatchesCalls
<1> DEFINE Told ==
      \A r \in Reads : read[r].stage \in InCall =>
        LET is == read[r]
            to == read'[r].stage
        IN  /\ is.calls = 1 /\ read'[r].calls = 2 => is.first = "connect_timeout"
            /\ to \in {"capacity", "queue_timeout"} =>
                 is.calls = 0 \/ (is.calls = 1 /\ is.first = "connect_timeout")
            /\ to \in {"value", "failed", "connect_timeout"} => is.operation = to
            /\ to = "upstream_timeout" => is.operation = "reading"
            /\ to = "backoff" => fate[r] = "served"
<1>1. ASSUME PipelineInv, ReadInv, Next PROVE Told
  BY <1>1, ReadsAccount DEF Accounted
<1>2. (PipelineInv /\ ReadInv) /\ [Next]_vars => [Told]_vars
  BY <1>1
<1> HIDE DEF Told
<1>3. Spec => [][Told]_vars
  BY <1>2, ReadInvIsInductive, PTL DEF Spec
<1> QED
  BY <1>3 DEF AnswerMatchesCalls, Told
=============================================================================
