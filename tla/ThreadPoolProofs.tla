-------------------------- MODULE ThreadPoolProofs --------------------------
(***************************************************************************)
(* Proofs about ThreadPool for every number of workers, callers and jobs.  *)
(***************************************************************************)
EXTENDS ThreadPool, SequenceTheorems, TLAPS

\* Pushing worker w on the free list (allocate_thread_pool(), thread_runner()):
\* the list gains w and nothing else, and a list without w stays without
\* repetition.
LEMMA PushFacts ==
  ASSUME NEW w \in Workers, free_list \in Seq(Workers),
         free_list' = <<w>> \o free_list
  PROVE  /\ free_list' \in Seq(Workers)
         /\ \A x \in Workers : Listed(x)' <=> x = w \/ Listed(x)
         /\ NoRepeat /\ ~Listed(w) => NoRepeat'
PROOF
  <1>1. <<w>> \in Seq(Workers) /\ Len(<<w>>) = 1 /\ <<w>>[1] = w
    OBVIOUS
  <1>2. /\ free_list' \in Seq(Workers) /\ Len(free_list') = 1 + Len(free_list)
        /\ Len(free_list) \in Nat
    BY <1>1, ConcatProperties, LenProperties
  <1>3. /\ free_list'[1] = w
        /\ \A i \in 2 .. Len(free_list') : free_list'[i] = free_list[i - 1]
    BY <1>1, <1>2, ConcatProperties
  <1>4. \A x \in Workers : Listed(x)' <=> x = w \/ Listed(x)
    <2> SUFFICES ASSUME NEW x \in Workers
                 PROVE  Listed(x)' <=> x = w \/ Listed(x)
      OBVIOUS
    <2>1. Listed(x)' => x = w \/ Listed(x)
      <3> SUFFICES ASSUME NEW i \in 1 .. Len(free_list'), free_list'[i] = x
                   PROVE  x = w \/ Listed(x)
        BY DEF Listed
      <3>1. CASE i = 1
        BY <1>3, <3>1
      <3>2. CASE i # 1
        <4>1. i - 1 \in 1 .. Len(free_list) /\ free_list[i - 1] = x
          BY <1>2, <1>3, <3>2
        <4> QED
          BY <4>1 DEF Listed
      <3> QED
        BY <3>1, <3>2
    <2>2. x = w => Listed(x)'
      BY <1>2, <1>3 DEF Listed
    <2>3. Listed(x) => Listed(x)'
      <3> SUFFICES ASSUME NEW i \in 1 .. Len(free_list), free_list[i] = x
                   PROVE  Listed(x)'
        BY DEF Listed
      <3>1. i + 1 \in 2 .. Len(free_list') /\ (i + 1) - 1 = i
        BY <1>2
      <3>2. free_list'[i + 1] = x
        BY <1>3, <3>1
      <3> QED
        BY <1>2, <3>1, <3>2 DEF Listed
    <2> QED
      BY <2>1, <2>2, <2>3
  <1>5. ASSUME NoRepeat, ~Listed(w)
        PROVE  NoRepeat'
    <2> SUFFICES ASSUME NEW i \in 1 .. Len(free_list'),
                        NEW j \in 1 .. Len(free_list'),
                        free_list'[i] = free_list'[j]
                 PROVE  i = j
      BY DEF NoRepeat
    <2>1. \A k \in 2 .. Len(free_list') : free_list'[k] # w
      <3> SUFFICES ASSUME NEW k \in 2 .. Len(free_list'), free_list'[k] = w
                   PROVE  FALSE
        OBVIOUS
      <3>1. k - 1 \in 1 .. Len(free_list) /\ free_list[k - 1] = w
        BY <1>2, <1>3
      <3> QED
        BY <1>5, <3>1 DEF Listed
    <2>2. CASE i = 1 \/ j = 1
      BY <1>2, <1>3, <2>1, <2>2
    <2>3. CASE i # 1 /\ j # 1
      <3>1. /\ i - 1 \in 1 .. Len(free_list) /\ j - 1 \in 1 .. Len(free_list)
            /\ free_list[i - 1] = free_list[j - 1]
        BY <1>2, <1>3, <2>3
      <3>2. i - 1 = j - 1
        BY <1>5, <3>1 DEF NoRepeat
      <3> QED
        BY <3>2
    <2> QED
      BY <2>2, <2>3
  <1> QED
    BY <1>2, <1>4, <1>5

\* Popping the first free worker (send_to_pool()): it was on the list, and is
\* not any more if the list had no repetition.
LEMMA PopFacts ==
  ASSUME free_list \in Seq(Workers), free_list # << >>,
         free_list' = Tail(free_list)
  PROVE  /\ free_list' \in Seq(Workers)
         /\ Head(free_list) \in Workers /\ Listed(Head(free_list))
         /\ \A x \in Workers : Listed(x)' => Listed(x)
         /\ NoRepeat => NoRepeat' /\ (\A x \in Workers : x = Head(free_list) => ~Listed(x)')
PROOF
  <1>1. /\ Len(free_list) \in Nat /\ Len(free_list) >= 1
        /\ Head(free_list) = free_list[1] /\ Head(free_list) \in Workers
    BY HeadTailProperties, LenProperties, EmptySeq
  <1>2. /\ free_list' \in Seq(Workers) /\ Len(free_list') = Len(free_list) - 1
        /\ \A i \in 1 .. Len(free_list') : free_list'[i] = free_list[i + 1]
    BY <1>1, HeadTailProperties
  <1>3. Listed(Head(free_list))
    BY <1>1 DEF Listed
  <1>4. \A x \in Workers : Listed(x)' => Listed(x)
    <2> SUFFICES ASSUME NEW x \in Workers, NEW i \in 1 .. Len(free_list'),
                        free_list'[i] = x
                 PROVE  Listed(x)
      BY DEF Listed
    <2>1. i + 1 \in 1 .. Len(free_list) /\ free_list[i + 1] = x
      BY <1>1, <1>2
    <2> QED
      BY <2>1 DEF Listed
  <1>5. NoRepeat => NoRepeat'
    <2> SUFFICES ASSUME NoRepeat, NEW i \in 1 .. Len(free_list'),
                        NEW j \in 1 .. Len(free_list'),
                        free_list'[i] = free_list'[j]
                 PROVE  i = j
      BY DEF NoRepeat
    <2>1. /\ i + 1 \in 1 .. Len(free_list) /\ j + 1 \in 1 .. Len(free_list)
          /\ free_list[i + 1] = free_list[j + 1]
      BY <1>1, <1>2
    <2>2. i + 1 = j + 1
      BY <2>1 DEF NoRepeat
    <2> QED
      BY <2>2
  <1>6. NoRepeat => (\A x \in Workers : x = Head(free_list) => ~Listed(x)')
    <2> SUFFICES ASSUME NoRepeat, NEW i \in 1 .. Len(free_list'),
                        free_list'[i] = free_list[1]
                 PROVE  FALSE
      BY <1>1 DEF Listed
    <2>1. i + 1 \in 1 .. Len(free_list) /\ free_list[i + 1] = free_list[1]
      BY <1>1, <1>2
    <2>2. i + 1 = 1
      BY <1>1, <2>1 DEF NoRepeat
    <2> QED
      BY <2>2
  <1> QED
    BY <1>1, <1>2, <1>3, <1>4, <1>5, <1>6

\* Every step of the pool keeps its types.
LEMMA TypeStep ==
  ASSUME PoolInv, [Next]_vars
  PROVE  TypeOK'
PROOF
  <1> USE DEF PoolInv, TypeOK, Threads, WorkerPCs, CallerPCs, CreatorPCs
  <1>1. ASSUME NEW w \in Workers, Create(w)
        PROVE  TypeOK'
    BY <1>1 DEF Create
  <1>2. CASE CreateFails
    BY <1>2 DEF CreateFails
  <1>3. CASE CreatorLock
    BY <1>3 DEF CreatorLock
  <1>4. CASE CreatorCheck
    BY <1>4 DEF CreatorCheck
  <1>5. CASE CreatorPush
    <2>1. fresh \in Workers
      BY <1>5 DEF CreatorPush, Bootstrap, Creating
    <2>2. free_list' \in Seq(Workers)
      BY <1>5, <2>1, PushFacts DEF CreatorPush
    <2> QED
      BY <1>5, <2>2 DEF CreatorPush
  <1>6. CASE Spurious
    <2>1. wpc' \in [Workers -> WorkerPCs]
      BY <1>6 DEF Spurious
    <2>2. cpc' \in [Callers -> CallerPCs]
      BY <1>6 DEF Spurious
    <2>3. mpc' \in CreatorPCs
      BY <1>6 DEF Spurious
    <2>4. spurious' \in Nat
      BY <1>6 DEF Spurious
    <2> QED
      BY <1>6, <2>1, <2>2, <2>3, <2>4 DEF Spurious
  <1>7. ASSUME NEW w \in Workers, WorkerLock(w)
        PROVE  TypeOK'
    BY <1>7 DEF WorkerLock
  <1>8. ASSUME NEW w \in Workers, WorkerInit(w)
        PROVE  TypeOK'
    BY <1>8 DEF WorkerInit
  <1>9. ASSUME NEW w \in Workers, WorkerTest(w)
        PROVE  TypeOK'
    <2>1. CASE go[w] = 0
      BY <1>9, <2>1 DEF WorkerTest
    <2>2. CASE go[w] # 0
      <3>1. job[w] \in Jobs
        BY <1>9, <2>2 DEF WorkerTest, GoFollows
      <3>2. ran' = [ran EXCEPT ![job[w]] = ran[job[w]] + 1]
        BY <1>9, <2>2 DEF WorkerTest
      <3>3. ran[job[w]] + 1 \in Nat
        BY <3>1
      <3>4. ran' \in [Jobs -> Nat]
        BY <3>2, <3>3
      <3> QED
        BY <1>9, <2>2, <3>4 DEF WorkerTest
    <2> QED
      BY <2>1, <2>2
  <1>10. ASSUME NEW w \in Workers, WorkerRun(w)
        PROVE  TypeOK'
    BY <1>10 DEF WorkerRun
  <1>11. ASSUME NEW w \in Workers, WorkerLockPool(w)
        PROVE  TypeOK'
    BY <1>11 DEF WorkerLockPool
  <1>12. ASSUME NEW w \in Workers, WorkerPush(w)
        PROVE  TypeOK'
    <2>1. free_list' \in Seq(Workers)
      BY <1>12, PushFacts DEF WorkerPush
    <2> QED
      BY <1>12, <2>1 DEF WorkerPush, SignalPool
  <1>13. ASSUME NEW c \in Callers, CallerLock(c)
        PROVE  TypeOK'
    BY <1>13 DEF CallerLock
  <1>14. ASSUME NEW c \in Callers, CallerRelock(c)
        PROVE  TypeOK'
    BY <1>14 DEF CallerRelock
  <1>15. ASSUME NEW c \in Callers, CallerCheck(c)
        PROVE  TypeOK'
    <2>1. CASE free_list = << >>
      BY <1>15, <2>1 DEF CallerCheck
    <2>2. CASE free_list # << >>
      <3>1. free_list' \in Seq(Workers) /\ Head(free_list) \in Workers
        BY <1>15, <2>2, PopFacts DEF CallerCheck
      <3>2. target' \in [Callers -> Workers \cup {None}]
        BY <1>15, <2>2, <3>1 DEF CallerCheck
      <3>3. cpc' \in [Callers -> CallerPCs] /\ plock' \in Threads \cup {None}
        BY <1>15, <2>2 DEF CallerCheck
      <3>4. UNCHANGED <<wlock, go, job, wpc, mpc, fresh, carried, submitted,
                        ran, spurious>>
        BY <1>15 DEF CallerCheck
      <3> QED
        BY <3>1, <3>2, <3>3, <3>4
    <2> QED
      BY <2>1, <2>2
  <1>16. ASSUME NEW c \in Callers, CallerLockWorker(c)
        PROVE  TypeOK'
    BY <1>16 DEF CallerLockWorker
  <1>17. ASSUME NEW c \in Callers, CallerGive(c)
        PROVE  TypeOK'
    BY <1>17 DEF CallerGive
  <1>18. CASE UNCHANGED vars
    BY <1>18 DEF vars
  <1> QED
    BY <1>1, <1>2, <1>3, <1>4, <1>5, <1>6, <1>7, <1>8, <1>9,
       <1>10, <1>11, <1>12, <1>13, <1>14, <1>15, <1>16, <1>17, <1>18
       DEF Next, CreatorStep, WorkerStep, CallerStep

\* go keeps following the program counters of the workers.
LEMMA GoStep ==
  ASSUME PoolInv, [Next]_vars
  PROVE  GoFollows'
PROOF
  <1> USE DEF PoolInv, TypeOK, GoFollows
  <1>1. ASSUME NEW w \in Workers, Create(w)
        PROVE  GoFollows'
    BY <1>1 DEF Create
  <1>2. CASE CreateFails
    BY <1>2 DEF CreateFails
  <1>3. CASE CreatorLock
    BY <1>3 DEF CreatorLock
  <1>4. CASE CreatorCheck
    BY <1>4 DEF CreatorCheck
  <1>5. CASE CreatorPush
    BY <1>5 DEF CreatorPush
  <1>6. CASE Spurious
    BY <1>6 DEF Spurious
  <1>7. ASSUME NEW w \in Workers, WorkerLock(w)
        PROVE  GoFollows'
    BY <1>7 DEF WorkerLock
  <1>8. ASSUME NEW w \in Workers, WorkerInit(w)
        PROVE  GoFollows'
    BY <1>8 DEF WorkerInit
  <1>9. ASSUME NEW w \in Workers, WorkerTest(w)
        PROVE  GoFollows'
    BY <1>9 DEF WorkerTest
  <1>10. ASSUME NEW w \in Workers, WorkerRun(w)
        PROVE  GoFollows'
    BY <1>10 DEF WorkerRun
  <1>11. ASSUME NEW w \in Workers, WorkerLockPool(w)
        PROVE  GoFollows'
    BY <1>11 DEF WorkerLockPool
  <1>12. ASSUME NEW w \in Workers, WorkerPush(w)
        PROVE  GoFollows'
    BY <1>12 DEF WorkerPush
  <1>13. ASSUME NEW c \in Callers, CallerLock(c)
        PROVE  GoFollows'
    BY <1>13 DEF CallerLock
  <1>14. ASSUME NEW c \in Callers, CallerRelock(c)
        PROVE  GoFollows'
    BY <1>14 DEF CallerRelock
  <1>15. ASSUME NEW c \in Callers, CallerCheck(c)
        PROVE  GoFollows'
    BY <1>15 DEF CallerCheck
  <1>16. ASSUME NEW c \in Callers, CallerLockWorker(c)
        PROVE  GoFollows'
    BY <1>16 DEF CallerLockWorker
  <1>17. ASSUME NEW c \in Callers, CallerGive(c)
        PROVE  GoFollows'
    <2>1. target[c] \in Workers /\ Idle(target[c]) /\ carried[c] \in Jobs
      BY <1>17 DEF CallerGive, Exclusive, Held, OnePlace
    <2> QED
      BY <1>17, <2>1 DEF CallerGive, Idle
  <1>18. CASE UNCHANGED vars
    BY <1>18 DEF vars
  <1> QED
    BY <1>1, <1>2, <1>3, <1>4, <1>5, <1>6, <1>7, <1>8, <1>9,
       <1>10, <1>11, <1>12, <1>13, <1>14, <1>15, <1>16, <1>17, <1>18
       DEF Next, CreatorStep, WorkerStep, CallerStep

\* No step breaks the exclusive ownership of workers.
LEMMA ExclusiveStep ==
  ASSUME PoolInv, [Next]_vars
  PROVE  Exclusive'
PROOF
  <1> USE DEF PoolInv
  <1>1. ASSUME NEW w \in Workers, Create(w)
        PROVE  Exclusive'
    <2>1. UNCHANGED <<free_list, target>>
      BY <1>1 DEF Create
    <2>2. \A x \in Workers : Idle(x) => Idle(x)'
      BY <1>1 DEF Create, Idle, TypeOK, GoFollows
    <2>3. \A d \in Callers : Held(d)' <=> Held(d)
      BY <1>1 DEF Create, Held, TypeOK
    <2> QED
      BY <2>1, <2>2, <2>3 DEF Exclusive, NoRepeat, Listed
  <1>2. CASE CreateFails
    <2>1. UNCHANGED <<free_list, target>>
      BY <1>2 DEF CreateFails
    <2>2. \A x \in Workers : Idle(x) => Idle(x)'
      BY <1>2 DEF CreateFails, Idle, TypeOK, GoFollows
    <2>3. \A d \in Callers : Held(d)' <=> Held(d)
      BY <1>2 DEF CreateFails, Held, TypeOK
    <2> QED
      BY <2>1, <2>2, <2>3 DEF Exclusive, NoRepeat, Listed
  <1>3. CASE CreatorLock
    <2>1. UNCHANGED <<free_list, target>>
      BY <1>3 DEF CreatorLock
    <2>2. \A x \in Workers : Idle(x) => Idle(x)'
      BY <1>3 DEF CreatorLock, Idle, TypeOK, GoFollows
    <2>3. \A d \in Callers : Held(d)' <=> Held(d)
      BY <1>3 DEF CreatorLock, Held, TypeOK
    <2> QED
      BY <2>1, <2>2, <2>3 DEF Exclusive, NoRepeat, Listed
  <1>4. CASE CreatorCheck
    <2>1. UNCHANGED <<free_list, target>>
      BY <1>4 DEF CreatorCheck
    <2>2. \A x \in Workers : Idle(x) => Idle(x)'
      BY <1>4 DEF CreatorCheck, Idle, TypeOK, GoFollows
    <2>3. \A d \in Callers : Held(d)' <=> Held(d)
      BY <1>4 DEF CreatorCheck, Held, TypeOK
    <2> QED
      BY <2>1, <2>2, <2>3 DEF Exclusive, NoRepeat, Listed
  <1>5. CASE CreatorPush
    <2>1. /\ fresh \in Workers /\ ~Listed(fresh) /\ Idle(fresh)
          /\ \A c \in Callers : ~Held(c)
      BY <1>5 DEF CreatorPush, Bootstrap, Creating, Held
    <2>2. /\ NoRepeat'
          /\ \A x \in Workers : Listed(x)' <=> x = fresh \/ Listed(x)
      BY <1>5, <2>1, PushFacts DEF CreatorPush, TypeOK, Exclusive
    <2>3. UNCHANGED <<go, wpc, cpc, target>>
      BY <1>5 DEF CreatorPush
    <2> QED
      BY <2>1, <2>2, <2>3 DEF Exclusive, Idle, Held
  <1>6. CASE Spurious
    <2>1. UNCHANGED <<free_list, go, target>>
      BY <1>6 DEF Spurious
    <2>2. \A x \in Workers : Idle(x) => Idle(x)'
      BY <1>6 DEF Spurious, Idle, TypeOK
    <2>3. \A d \in Callers : Held(d)' <=> Held(d)
      BY <1>6 DEF Spurious, Held, TypeOK
    <2> QED
      BY <2>1, <2>2, <2>3 DEF Exclusive, NoRepeat, Listed
  <1>7. ASSUME NEW w \in Workers, WorkerLock(w)
        PROVE  Exclusive'
    <2>1. UNCHANGED <<free_list, target>>
      BY <1>7 DEF WorkerLock
    <2>2. \A x \in Workers : Idle(x) => Idle(x)'
      BY <1>7 DEF WorkerLock, Idle, TypeOK, GoFollows
    <2>3. \A d \in Callers : Held(d)' <=> Held(d)
      BY <1>7 DEF WorkerLock, Held, TypeOK
    <2> QED
      BY <2>1, <2>2, <2>3 DEF Exclusive, NoRepeat, Listed
  <1>8. ASSUME NEW w \in Workers, WorkerInit(w)
        PROVE  Exclusive'
    <2>1. UNCHANGED <<free_list, target>>
      BY <1>8 DEF WorkerInit
    <2>2. \A x \in Workers : Idle(x) => Idle(x)'
      BY <1>8 DEF WorkerInit, Idle, TypeOK, GoFollows
    <2>3. \A d \in Callers : Held(d)' <=> Held(d)
      BY <1>8 DEF WorkerInit, Held, TypeOK
    <2> QED
      BY <2>1, <2>2, <2>3 DEF Exclusive, NoRepeat, Listed
  <1>9. ASSUME NEW w \in Workers, WorkerTest(w)
        PROVE  Exclusive'
    <2>1. UNCHANGED <<free_list, go, cpc, target>>
      BY <1>9 DEF WorkerTest
    <2>2. \A x \in Workers : Idle(x) => Idle(x)'
      BY <1>9 DEF WorkerTest, Idle, TypeOK
    <2> QED
      BY <2>1, <2>2 DEF Exclusive, NoRepeat, Listed, Held
  <1>10. ASSUME NEW w \in Workers, WorkerRun(w)
        PROVE  Exclusive'
    <2>1. UNCHANGED <<free_list, target>>
      BY <1>10 DEF WorkerRun
    <2>2. \A x \in Workers : Idle(x) => Idle(x)'
      BY <1>10 DEF WorkerRun, Idle, TypeOK, GoFollows
    <2>3. \A d \in Callers : Held(d)' <=> Held(d)
      BY <1>10 DEF WorkerRun, Held, TypeOK
    <2> QED
      BY <2>1, <2>2, <2>3 DEF Exclusive, NoRepeat, Listed
  <1>11. ASSUME NEW w \in Workers, WorkerLockPool(w)
        PROVE  Exclusive'
    <2>1. UNCHANGED <<free_list, target>>
      BY <1>11 DEF WorkerLockPool
    <2>2. \A x \in Workers : Idle(x) => Idle(x)'
      BY <1>11 DEF WorkerLockPool, Idle, TypeOK, GoFollows
    <2>3. \A d \in Callers : Held(d)' <=> Held(d)
      BY <1>11 DEF WorkerLockPool, Held, TypeOK
    <2> QED
      BY <2>1, <2>2, <2>3 DEF Exclusive, NoRepeat, Listed
  <1>12. ASSUME NEW w \in Workers, WorkerPush(w)
        PROVE  Exclusive'
    <2>1. ~Idle(w) /\ go[w] = 0
      BY <1>12 DEF WorkerPush, Idle, GoFollows
    <2>2. ~Listed(w) /\ \A c \in Callers : Held(c) => target[c] # w
      BY <2>1 DEF Exclusive
    <2>3. /\ NoRepeat'
          /\ \A x \in Workers : Listed(x)' <=> x = w \/ Listed(x)
      BY <1>12, <2>2, PushFacts DEF WorkerPush, TypeOK, Exclusive
    <2>4. /\ target' = target /\ go' = go
          /\ \A c \in Callers : Held(c)' <=> Held(c)
      BY <1>12 DEF WorkerPush, SignalPool, Held, TypeOK
    <2>5. \A x \in Workers : Idle(x)' <=> x = w \/ Idle(x)
      BY <1>12, <2>1 DEF WorkerPush, Idle, TypeOK
    <2> QED
      BY <2>2, <2>3, <2>4, <2>5 DEF Exclusive
  <1>13. ASSUME NEW c \in Callers, CallerLock(c)
        PROVE  Exclusive'
    <2>1. UNCHANGED <<free_list, go, wpc, target>>
      BY <1>13 DEF CallerLock
    <2>2. \A d \in Callers : Held(d)' <=> Held(d)
      BY <1>13 DEF CallerLock, Held, TypeOK
    <2> QED
      BY <2>1, <2>2 DEF Exclusive, NoRepeat, Listed, Idle
  <1>14. ASSUME NEW c \in Callers, CallerRelock(c)
        PROVE  Exclusive'
    <2>1. UNCHANGED <<free_list, target>>
      BY <1>14 DEF CallerRelock
    <2>2. \A x \in Workers : Idle(x) => Idle(x)'
      BY <1>14 DEF CallerRelock, Idle, TypeOK, GoFollows
    <2>3. \A d \in Callers : Held(d)' <=> Held(d)
      BY <1>14 DEF CallerRelock, Held, TypeOK
    <2> QED
      BY <2>1, <2>2, <2>3 DEF Exclusive, NoRepeat, Listed
  <1>15. ASSUME NEW c \in Callers, CallerCheck(c)
        PROVE  Exclusive'
    <2>1. CASE free_list = << >>
      <3>1. UNCHANGED <<free_list, go, wpc, target>>
        BY <1>15, <2>1 DEF CallerCheck
      <3>2. \A d \in Callers : Held(d)' <=> Held(d)
        BY <1>15, <2>1 DEF CallerCheck, Held, TypeOK
      <3> QED
        BY <3>1, <3>2 DEF Exclusive, NoRepeat, Listed, Idle
    <2>2. CASE free_list # << >>
      <3> DEFINE h == Head(free_list)
      <3>1. /\ h \in Workers /\ Listed(h) /\ NoRepeat'
            /\ \A x \in Workers : Listed(x)' => Listed(x)
            /\ \A x \in Workers : x = h => ~Listed(x)'
        <4>1. free_list' = Tail(free_list)
          BY <1>15, <2>2 DEF CallerCheck
        <4> QED
          BY <2>2, <4>1, PopFacts DEF TypeOK, Exclusive
      <3>2. UNCHANGED <<go, wpc>> /\ target' = [target EXCEPT ![c] = h]
        BY <1>15, <2>2 DEF CallerCheck
      <3>3. ~Held(c) /\ \A d \in Callers : Held(d)' <=> d = c \/ Held(d)
        BY <1>15, <2>2 DEF CallerCheck, Held, TypeOK
      <3>4. Idle(h) /\ \A d \in Callers : Held(d) => target[d] # h
        BY <3>1 DEF Exclusive
      <3> HIDE DEF h
      <3> QED
        BY <3>1, <3>2, <3>3, <3>4 DEF Exclusive, Idle, TypeOK
    <2> QED
      BY <2>1, <2>2
  <1>16. ASSUME NEW c \in Callers, CallerLockWorker(c)
        PROVE  Exclusive'
    <2>1. UNCHANGED <<free_list, target>>
      BY <1>16 DEF CallerLockWorker
    <2>2. \A x \in Workers : Idle(x) => Idle(x)'
      BY <1>16 DEF CallerLockWorker, Idle, TypeOK, GoFollows
    <2>3. \A d \in Callers : Held(d)' <=> Held(d)
      BY <1>16 DEF CallerLockWorker, Held, TypeOK
    <2> QED
      BY <2>1, <2>2, <2>3 DEF Exclusive, NoRepeat, Listed
  <1>17. ASSUME NEW c \in Callers, CallerGive(c)
        PROVE  Exclusive'
    <2> DEFINE t == target[c]
    <2>1. Held(c) /\ t \in Workers /\ Idle(t)
      BY <1>17 DEF CallerGive, Exclusive, Held
    <2>2. ~Listed(t) /\ \A d \in Callers : Held(d) /\ target[d] = t => d = c
      BY <2>1 DEF Exclusive
    <2>3. /\ free_list' = free_list /\ target' = [target EXCEPT ![c] = None]
          /\ \A d \in Callers : Held(d)' <=> d # c /\ Held(d)
      BY <1>17 DEF CallerGive, Held, TypeOK
    <2>4. \A x \in Workers : x # t => Idle(x)' = Idle(x)
      BY <1>17, <2>1 DEF CallerGive, Idle, TypeOK
    <2> HIDE DEF t
    <2>5. NoRepeat' /\ \A x \in Workers : Listed(x)' <=> Listed(x)
      BY <2>3 DEF Exclusive, NoRepeat, Listed
    <2>6. \A d \in Callers : Held(d)' => target'[d] = target[d] /\ target[d] # t
      BY <2>2, <2>3 DEF TypeOK
    <2>7. \A x \in Workers : Listed(x) => x # t
      BY <2>2
    <2> QED
      BY <2>3, <2>4, <2>5, <2>6, <2>7 DEF Exclusive
  <1>18. CASE UNCHANGED vars
    BY <1>18 DEF vars, Exclusive, NoRepeat, Listed, Idle, Held
  <1> QED
    BY <1>1, <1>2, <1>3, <1>4, <1>5, <1>6, <1>7, <1>8, <1>9,
       <1>10, <1>11, <1>12, <1>13, <1>14, <1>15, <1>16, <1>17, <1>18
       DEF Next, CreatorStep, WorkerStep, CallerStep

\* The worker under construction stays the creator's own.
LEMMA BootstrapStep ==
  ASSUME PoolInv, [Next]_vars
  PROVE  Bootstrap'
PROOF
  <1> USE DEF PoolInv
  <1>1. ASSUME NEW w \in Workers, Create(w)
        PROVE  Bootstrap'
    <2>1. ~Listed(w)
      BY <1>1 DEF Create, Exclusive, Idle
    <2> QED
      BY <1>1, <2>1 DEF Create, Bootstrap, Creating, Listed, TypeOK
  <1>2. CASE CreateFails
    BY <1>2 DEF CreateFails, Bootstrap, Creating
  <1>3. CASE CreatorLock
    BY <1>3 DEF CreatorLock, Bootstrap, Creating, Listed, Idle
  <1>4. CASE CreatorCheck
    <2>1. go[fresh] = 0 => Idle(fresh)
      BY <1>4 DEF CreatorCheck, Bootstrap, Creating, GoFollows, TypeOK
    <2> QED
      BY <1>4, <2>1 DEF CreatorCheck, Bootstrap, Creating, Listed, Idle
  <1>5. CASE CreatorPush
    BY <1>5 DEF CreatorPush, Bootstrap, Creating
  <1>6. CASE Spurious
    <2>1. UNCHANGED <<free_list, go, fresh>>
      BY <1>6 DEF Spurious
    <2>2. \A x \in Workers : Idle(x) => Idle(x)'
      BY <1>6 DEF Spurious, Idle, TypeOK
    <2>3. \A x \in Workers : wpc[x] \in {"start", "init"} => wpc'[x] = wpc[x]
      BY <1>6 DEF Spurious, TypeOK
    <2>4. \A c \in Callers : cpc[c] = "idle" => cpc'[c] = "idle"
      BY <1>6 DEF Spurious, TypeOK
    <2>5. mpc' = mpc \/ (mpc = "wait" /\ mpc' = "woken")
      BY <1>6 DEF Spurious
    <2> QED
      BY <2>1, <2>2, <2>3, <2>4, <2>5 DEF Bootstrap, Creating, Listed
  <1>7. ASSUME NEW w \in Workers, WorkerLock(w)
        PROVE  Bootstrap'
    <2>1. UNCHANGED <<free_list, cpc, fresh>>
      BY <1>7 DEF WorkerLock
    <2>2. \A x \in Workers : Idle(x) => Idle(x)'
      BY <1>7 DEF WorkerLock, Idle, TypeOK, GoFollows
    <2>3. \A x \in Workers : wpc[x] \in {"start", "init"} =>
            Idle(x)' \/ wpc'[x] \in {"start", "init"}
      BY <1>7 DEF WorkerLock, Idle, TypeOK
    <2>4. mpc' = mpc \/ (mpc = "wait" /\ mpc' = "woken")
      BY <1>7 DEF WorkerLock
    <2> QED
      BY <2>1, <2>2, <2>3, <2>4 DEF Bootstrap, Creating, Listed
  <1>8. ASSUME NEW w \in Workers, WorkerInit(w)
        PROVE  Bootstrap'
    <2>1. UNCHANGED <<free_list, cpc, fresh>>
      BY <1>8 DEF WorkerInit
    <2>2. \A x \in Workers : Idle(x) => Idle(x)'
      BY <1>8 DEF WorkerInit, Idle, TypeOK, GoFollows
    <2>3. \A x \in Workers : wpc[x] \in {"start", "init"} =>
            Idle(x)' \/ wpc'[x] \in {"start", "init"}
      BY <1>8 DEF WorkerInit, Idle, TypeOK
    <2>4. mpc' = mpc \/ (mpc = "wait" /\ mpc' = "woken")
      BY <1>8 DEF WorkerInit
    <2> QED
      BY <2>1, <2>2, <2>3, <2>4 DEF Bootstrap, Creating, Listed
  <1>9. ASSUME NEW w \in Workers, WorkerTest(w)
        PROVE  Bootstrap'
    <2>1. UNCHANGED <<free_list, cpc, fresh>>
      BY <1>9 DEF WorkerTest
    <2>2. \A x \in Workers : Idle(x) => Idle(x)'
      BY <1>9 DEF WorkerTest, Idle, TypeOK, GoFollows
    <2>3. \A x \in Workers : wpc[x] \in {"start", "init"} =>
            Idle(x)' \/ wpc'[x] \in {"start", "init"}
      BY <1>9 DEF WorkerTest, Idle, TypeOK
    <2>4. mpc' = mpc \/ (mpc = "wait" /\ mpc' = "woken")
      BY <1>9 DEF WorkerTest
    <2> QED
      BY <2>1, <2>2, <2>3, <2>4 DEF Bootstrap, Creating, Listed
  <1>10. ASSUME NEW w \in Workers, WorkerRun(w)
        PROVE  Bootstrap'
    <2>1. UNCHANGED <<free_list, cpc, fresh>>
      BY <1>10 DEF WorkerRun
    <2>2. \A x \in Workers : Idle(x) => Idle(x)'
      BY <1>10 DEF WorkerRun, Idle, TypeOK, GoFollows
    <2>3. \A x \in Workers : wpc[x] \in {"start", "init"} =>
            Idle(x)' \/ wpc'[x] \in {"start", "init"}
      BY <1>10 DEF WorkerRun, Idle, TypeOK
    <2>4. mpc' = mpc \/ (mpc = "wait" /\ mpc' = "woken")
      BY <1>10 DEF WorkerRun
    <2> QED
      BY <2>1, <2>2, <2>3, <2>4 DEF Bootstrap, Creating, Listed
  <1>11. ASSUME NEW w \in Workers, WorkerLockPool(w)
        PROVE  Bootstrap'
    <2>1. UNCHANGED <<free_list, cpc, fresh>>
      BY <1>11 DEF WorkerLockPool
    <2>2. \A x \in Workers : Idle(x) => Idle(x)'
      BY <1>11 DEF WorkerLockPool, Idle, TypeOK, GoFollows
    <2>3. \A x \in Workers : wpc[x] \in {"start", "init"} =>
            Idle(x)' \/ wpc'[x] \in {"start", "init"}
      BY <1>11 DEF WorkerLockPool, Idle, TypeOK
    <2>4. mpc' = mpc \/ (mpc = "wait" /\ mpc' = "woken")
      BY <1>11 DEF WorkerLockPool
    <2> QED
      BY <2>1, <2>2, <2>3, <2>4 DEF Bootstrap, Creating, Listed
  <1>12. ASSUME NEW w \in Workers, WorkerPush(w)
        PROVE  Bootstrap'
    <2>1. ~Idle(w) /\ wpc[w] \notin {"start", "init"}
      BY <1>12 DEF WorkerPush, Idle
    <2>2. \A x \in Workers : Listed(x)' <=> x = w \/ Listed(x)
      BY <1>12, PushFacts DEF WorkerPush, TypeOK
    <2>3. \A c \in Callers : cpc[c] = "idle" => cpc'[c] = "idle"
      BY <1>12 DEF WorkerPush, SignalPool, TypeOK
    <2>4. \A x \in Workers : x # w => wpc'[x] = wpc[x]
      BY <1>12 DEF WorkerPush, TypeOK
    <2>5. UNCHANGED <<mpc, fresh, go>>
      BY <1>12 DEF WorkerPush
    <2> QED
      BY <2>1, <2>2, <2>3, <2>4, <2>5 DEF Bootstrap, Creating, Idle
  <1>13. ASSUME NEW c \in Callers, CallerLock(c)
        PROVE  Bootstrap'
    <2>1. mpc = "done" /\ mpc' = "done"
      BY <1>13 DEF CallerLock, Bootstrap
    <2> QED
      BY <2>1 DEF Bootstrap, Creating
  <1>14. ASSUME NEW c \in Callers, CallerRelock(c)
        PROVE  Bootstrap'
    <2>1. mpc = "done" /\ mpc' = "done"
      BY <1>14 DEF CallerRelock, Bootstrap
    <2> QED
      BY <2>1 DEF Bootstrap, Creating
  <1>15. ASSUME NEW c \in Callers, CallerCheck(c)
        PROVE  Bootstrap'
    <2>1. mpc = "done" /\ mpc' = "done"
      BY <1>15 DEF CallerCheck, Bootstrap
    <2> QED
      BY <2>1 DEF Bootstrap, Creating
  <1>16. ASSUME NEW c \in Callers, CallerLockWorker(c)
        PROVE  Bootstrap'
    <2>1. mpc = "done" /\ mpc' = "done"
      BY <1>16 DEF CallerLockWorker, Bootstrap
    <2> QED
      BY <2>1 DEF Bootstrap, Creating
  <1>17. ASSUME NEW c \in Callers, CallerGive(c)
        PROVE  Bootstrap'
    <2>1. mpc = "done" /\ mpc' = "done"
      BY <1>17 DEF CallerGive, Bootstrap
    <2> QED
      BY <2>1 DEF Bootstrap, Creating
  <1>18. CASE UNCHANGED vars
    BY <1>18 DEF vars, Bootstrap, Creating, Idle, Listed
  <1> QED
    BY <1>1, <1>2, <1>3, <1>4, <1>5, <1>6, <1>7, <1>8, <1>9,
       <1>10, <1>11, <1>12, <1>13, <1>14, <1>15, <1>16, <1>17, <1>18
       DEF Next, CreatorStep, WorkerStep, CallerStep

\* A job on its way stays in one place.
LEMMA OnePlaceStep ==
  ASSUME PoolInv, [Next]_vars
  PROVE  OnePlace'
PROOF
  <1> USE DEF PoolInv
  <1>1. ASSUME NEW w \in Workers, Create(w)
        PROVE  OnePlace'
    BY <1>1 DEF Create, OnePlace, Told, TypeOK, GoFollows
  <1>2. CASE CreateFails
    BY <1>2 DEF CreateFails, OnePlace, Told, TypeOK
  <1>3. CASE CreatorLock
    BY <1>3 DEF CreatorLock, OnePlace, Told, TypeOK
  <1>4. CASE CreatorCheck
    BY <1>4 DEF CreatorCheck, OnePlace, Told, TypeOK
  <1>5. CASE CreatorPush
    BY <1>5 DEF CreatorPush, OnePlace, Told, TypeOK
  <1>6. CASE Spurious
    <2>1. UNCHANGED <<go, job, carried, submitted>>
      BY <1>6 DEF Spurious
    <2>2. \A c \in Callers : cpc'[c] = "idle" <=> cpc[c] = "idle"
      BY <1>6 DEF Spurious, TypeOK
    <2>3. \A x \in Workers : Told(x)' => Told(x)
      BY <1>6 DEF Spurious, Told, TypeOK
    <2> QED
      BY <2>1, <2>2, <2>3 DEF OnePlace
  <1>7. ASSUME NEW w \in Workers, WorkerLock(w)
        PROVE  OnePlace'
    <2>1. UNCHANGED <<job, carried, submitted, cpc>>
      BY <1>7 DEF WorkerLock
    <2>2. \A x \in Workers : Told(x)' => Told(x)
      BY <1>7 DEF WorkerLock, Told, TypeOK
    <2> QED
      BY <2>1, <2>2 DEF OnePlace
  <1>8. ASSUME NEW w \in Workers, WorkerInit(w)
        PROVE  OnePlace'
    BY <1>8 DEF WorkerInit, OnePlace, Told, TypeOK
  <1>9. ASSUME NEW w \in Workers, WorkerTest(w)
        PROVE  OnePlace'
    <2>1. UNCHANGED <<job, carried, submitted, cpc>>
      BY <1>9 DEF WorkerTest
    <2>2. \A x \in Workers : Told(x)' => Told(x)
      BY <1>9 DEF WorkerTest, Told, TypeOK
    <2> QED
      BY <2>1, <2>2 DEF OnePlace
  <1>10. ASSUME NEW w \in Workers, WorkerRun(w)
        PROVE  OnePlace'
    BY <1>10 DEF WorkerRun, OnePlace, Told, TypeOK
  <1>11. ASSUME NEW w \in Workers, WorkerLockPool(w)
        PROVE  OnePlace'
    BY <1>11 DEF WorkerLockPool, OnePlace, Told, TypeOK
  <1>12. ASSUME NEW w \in Workers, WorkerPush(w)
        PROVE  OnePlace'
    <2>1. UNCHANGED <<go, job, carried, submitted>>
      BY <1>12 DEF WorkerPush
    <2>2. \A c \in Callers : cpc'[c] = "idle" <=> cpc[c] = "idle"
      BY <1>12 DEF WorkerPush, SignalPool, TypeOK
    <2>3. \A x \in Workers : Told(x)' => Told(x)
      BY <1>12 DEF WorkerPush, Told, TypeOK
    <2> QED
      BY <2>1, <2>2, <2>3 DEF OnePlace
  <1>13. ASSUME NEW c \in Callers, CallerLock(c)
        PROVE  OnePlace'
    <2>1. PICK j \in Jobs \ submitted :
            /\ submitted' = submitted \cup {j}
            /\ carried' = [carried EXCEPT ![c] = j]
      BY <1>13 DEF CallerLock
    <2>2. UNCHANGED <<job, go, wpc>> /\ j # None
      BY <1>13, PoolAssumption DEF CallerLock
    <2>3. cpc[c] = "idle" /\ cpc' = [cpc EXCEPT ![c] = "check"]
      BY <1>13 DEF CallerLock
    <2>4. /\ \A d \in Callers : d # c => carried'[d] = carried[d]
          /\ carried'[c] = j
      BY <2>1 DEF TypeOK
    <2>5. \A d \in Callers : carried[d] # j
      BY <2>1, <2>2 DEF OnePlace
    <2>6. \A x \in Workers : Told(x)' = Told(x) /\ (Told(x) => job[x] # j)
      BY <2>1, <2>2 DEF OnePlace, Told
    <2>7. \A d \in Callers : cpc'[d] = "idle" <=> carried'[d] = None
      BY <2>2, <2>3, <2>4 DEF OnePlace, TypeOK
    <2> QED
      BY <2>1, <2>2, <2>4, <2>5, <2>6, <2>7 DEF OnePlace
  <1>14. ASSUME NEW c \in Callers, CallerRelock(c)
        PROVE  OnePlace'
    BY <1>14 DEF CallerRelock, OnePlace, Told, TypeOK
  <1>15. ASSUME NEW c \in Callers, CallerCheck(c)
        PROVE  OnePlace'
    <2>1. UNCHANGED <<go, job, wpc, carried, submitted>>
      BY <1>15 DEF CallerCheck
    <2>2. \A d \in Callers : cpc'[d] = "idle" <=> cpc[d] = "idle"
      BY <1>15 DEF CallerCheck, TypeOK
    <2> QED
      BY <2>1, <2>2 DEF OnePlace, Told
  <1>16. ASSUME NEW c \in Callers, CallerLockWorker(c)
        PROVE  OnePlace'
    BY <1>16 DEF CallerLockWorker, OnePlace, Told, TypeOK
  <1>17. ASSUME NEW c \in Callers, CallerGive(c)
        PROVE  OnePlace'
    <2> DEFINE t == target[c]
    <2>1. t \in Workers /\ ~Told(t)
      BY <1>17 DEF CallerGive, Exclusive, Held, Idle, Told
    <2>2. carried[c] # None /\ carried[c] \in submitted
      BY <1>17 DEF CallerGive, OnePlace
    <2>3. /\ job' = [job EXCEPT ![t] = carried[c]]
          /\ carried' = [carried EXCEPT ![c] = None]
          /\ cpc' = [cpc EXCEPT ![c] = "idle"] /\ submitted' = submitted
      BY <1>17 DEF CallerGive
    <2>4. \A x \in Workers : Told(x)' => x = t \/ Told(x)
      BY <1>17, <2>1 DEF CallerGive, Told, TypeOK
    <2> HIDE DEF t
    <2>5. /\ job'[t] = carried[c]
          /\ \A x \in Workers : x # t => job'[x] = job[x]
      BY <2>1, <2>3 DEF TypeOK
    <2>6. /\ carried'[c] = None
          /\ \A d \in Callers : d # c => carried'[d] = carried[d]
      BY <2>3 DEF TypeOK
    <2>7. \A d \in Callers : cpc'[d] = "idle" <=> carried'[d] = None
      BY <2>3, <2>6 DEF OnePlace, TypeOK
    <2>8. /\ \A x \in Workers : Told(x)' => job'[x] \in submitted'
          /\ \A d \in Callers : carried'[d] # None => carried'[d] \in submitted'
      BY <2>2, <2>3, <2>4, <2>5, <2>6 DEF OnePlace
    <2>9. \A d \in Callers, x \in Workers : Told(x)' => carried'[d] # job'[x]
      <3> SUFFICES ASSUME NEW d \in Callers, NEW x \in Workers, Told(x)'
                   PROVE  carried'[d] # job'[x]
        OBVIOUS
      <3>1. job'[x] # None
        BY <2>3, <2>8, PoolAssumption DEF TypeOK
      <3>2. CASE d = c
        BY <2>6, <3>1, <3>2
      <3>3. CASE d # c /\ x = t
        BY <2>2, <2>5, <2>6, <3>3 DEF OnePlace
      <3>4. CASE d # c /\ x # t
        BY <2>4, <2>5, <2>6, <3>4 DEF OnePlace
      <3> QED
        BY <3>2, <3>3, <3>4
    <2>10. \A x, y \in Workers :
             Told(x)' /\ Told(y)' /\ job'[x] = job'[y] => x = y
      BY <2>2, <2>4, <2>5 DEF OnePlace
    <2>11. \A d, e \in Callers :
             carried'[d] # None /\ carried'[d] = carried'[e] => d = e
      BY <2>6 DEF OnePlace
    <2> QED
      BY <2>7, <2>8, <2>9, <2>10, <2>11 DEF OnePlace
  <1>18. CASE UNCHANGED vars
    BY <1>18 DEF vars, OnePlace, Told
  <1> QED
    BY <1>1, <1>2, <1>3, <1>4, <1>5, <1>6, <1>7, <1>8, <1>9,
       <1>10, <1>11, <1>12, <1>13, <1>14, <1>15, <1>16, <1>17, <1>18
       DEF Next, CreatorStep, WorkerStep, CallerStep

\* No step starts a job twice or loses one.
LEMMA OnceStep ==
  ASSUME PoolInv, [Next]_vars
  PROVE  OnceEach'
PROOF
  <1> USE DEF PoolInv
  <1>1. ASSUME NEW w \in Workers, Create(w)
        PROVE  OnceEach'
    <2>1. UNCHANGED <<ran, submitted, carried, job>>
      BY <1>1 DEF Create
    <2>2. \A x \in Workers : Told(x)' <=> Told(x)
      BY <1>1 DEF Create, Told, TypeOK, GoFollows
    <2> QED
      BY <2>1, <2>2 DEF OnceEach, Pending
  <1>2. CASE CreateFails
    <2>1. UNCHANGED <<ran, submitted, carried, job>>
      BY <1>2 DEF CreateFails
    <2>2. \A x \in Workers : Told(x)' <=> Told(x)
      BY <1>2 DEF CreateFails, Told, TypeOK, GoFollows
    <2> QED
      BY <2>1, <2>2 DEF OnceEach, Pending
  <1>3. CASE CreatorLock
    <2>1. UNCHANGED <<ran, submitted, carried, job>>
      BY <1>3 DEF CreatorLock
    <2>2. \A x \in Workers : Told(x)' <=> Told(x)
      BY <1>3 DEF CreatorLock, Told, TypeOK, GoFollows
    <2> QED
      BY <2>1, <2>2 DEF OnceEach, Pending
  <1>4. CASE CreatorCheck
    <2>1. UNCHANGED <<ran, submitted, carried, job>>
      BY <1>4 DEF CreatorCheck
    <2>2. \A x \in Workers : Told(x)' <=> Told(x)
      BY <1>4 DEF CreatorCheck, Told, TypeOK, GoFollows
    <2> QED
      BY <2>1, <2>2 DEF OnceEach, Pending
  <1>5. CASE CreatorPush
    <2>1. UNCHANGED <<ran, submitted, carried, job>>
      BY <1>5 DEF CreatorPush
    <2>2. \A x \in Workers : Told(x)' <=> Told(x)
      BY <1>5 DEF CreatorPush, Told, TypeOK, GoFollows
    <2> QED
      BY <2>1, <2>2 DEF OnceEach, Pending
  <1>6. CASE Spurious
    <2>1. UNCHANGED <<ran, submitted, carried, job>>
      BY <1>6 DEF Spurious
    <2>2. \A x \in Workers : Told(x)' <=> Told(x)
      BY <1>6 DEF Spurious, Told, TypeOK, GoFollows
    <2> QED
      BY <2>1, <2>2 DEF OnceEach, Pending
  <1>7. ASSUME NEW w \in Workers, WorkerLock(w)
        PROVE  OnceEach'
    <2>1. UNCHANGED <<ran, submitted, carried, job>>
      BY <1>7 DEF WorkerLock
    <2>2. \A x \in Workers : Told(x)' <=> Told(x)
      BY <1>7 DEF WorkerLock, Told, TypeOK, GoFollows
    <2> QED
      BY <2>1, <2>2 DEF OnceEach, Pending
  <1>8. ASSUME NEW w \in Workers, WorkerInit(w)
        PROVE  OnceEach'
    <2>1. UNCHANGED <<ran, submitted, carried, job>>
      BY <1>8 DEF WorkerInit
    <2>2. \A x \in Workers : Told(x)' <=> Told(x)
      BY <1>8 DEF WorkerInit, Told, TypeOK, GoFollows
    <2> QED
      BY <2>1, <2>2 DEF OnceEach, Pending
  <1>9. ASSUME NEW w \in Workers, WorkerTest(w)
        PROVE  OnceEach'
    <2>1. UNCHANGED <<submitted, carried, job, go>>
      BY <1>9 DEF WorkerTest
    <2>2. CASE go[w] = 0
      <3>1. ran' = ran /\ \A x \in Workers : Told(x)' <=> Told(x)
        BY <1>9, <2>2 DEF WorkerTest, Told, TypeOK
      <3> QED
        BY <2>1, <3>1 DEF OnceEach, Pending
    <2>3. CASE go[w] # 0
      <3>0. PICK j \in Jobs : j = job[w]
        BY <1>9, <2>3 DEF WorkerTest, TypeOK, GoFollows
      <3>1. Told(w) /\ j \in submitted
        <4>1. wpc[w] = "test" /\ go[w] \in {-1, 0, 1}
          BY <1>9 DEF WorkerTest, TypeOK
        <4>2. go[w] = 1
          BY <2>3, <4>1 DEF GoFollows
        <4>3. Told(w)
          BY <4>1, <4>2 DEF Told
        <4> QED
          BY <3>0, <4>3 DEF OnePlace
      <3>2. ran' = [ran EXCEPT ![j] = ran[j] + 1]
        BY <1>9, <2>3, <3>0 DEF WorkerTest
      <3>3. \A x \in Workers : Told(x)' <=> x # w /\ Told(x)
        BY <1>9, <2>3 DEF WorkerTest, Told, TypeOK
      <3>4. ran[j] = 0
        BY <3>0, <3>1 DEF OnceEach, Pending
      <3>5. ~Pending(j)'
        BY <2>1, <3>0, <3>1, <3>3, PoolAssumption DEF Pending, OnePlace
      <3>6. ran'[j] = 1
        BY <3>1, <3>2, <3>4 DEF TypeOK
      <3>7. \A k \in Jobs : k # j => ran'[k] = ran[k] /\ (Pending(k)' <=> Pending(k))
        BY <2>1, <3>0, <3>2, <3>3 DEF Pending, TypeOK
      <3> QED
        BY <2>1, <3>1, <3>5, <3>6, <3>7 DEF OnceEach
    <2> QED
      BY <2>2, <2>3
  <1>10. ASSUME NEW w \in Workers, WorkerRun(w)
        PROVE  OnceEach'
    <2>1. UNCHANGED <<ran, submitted, carried, job>>
      BY <1>10 DEF WorkerRun
    <2>2. \A x \in Workers : Told(x)' <=> Told(x)
      BY <1>10 DEF WorkerRun, Told, TypeOK, GoFollows
    <2> QED
      BY <2>1, <2>2 DEF OnceEach, Pending
  <1>11. ASSUME NEW w \in Workers, WorkerLockPool(w)
        PROVE  OnceEach'
    <2>1. UNCHANGED <<ran, submitted, carried, job>>
      BY <1>11 DEF WorkerLockPool
    <2>2. \A x \in Workers : Told(x)' <=> Told(x)
      BY <1>11 DEF WorkerLockPool, Told, TypeOK, GoFollows
    <2> QED
      BY <2>1, <2>2 DEF OnceEach, Pending
  <1>12. ASSUME NEW w \in Workers, WorkerPush(w)
        PROVE  OnceEach'
    <2>1. UNCHANGED <<ran, submitted, carried, job>>
      BY <1>12 DEF WorkerPush
    <2>2. \A x \in Workers : Told(x)' <=> Told(x)
      BY <1>12 DEF WorkerPush, Told, TypeOK, GoFollows
    <2> QED
      BY <2>1, <2>2 DEF OnceEach, Pending
  <1>13. ASSUME NEW c \in Callers, CallerLock(c)
        PROVE  OnceEach'
    <2>1. PICK j \in Jobs \ submitted :
            /\ submitted' = submitted \cup {j}
            /\ carried' = [carried EXCEPT ![c] = j]
      BY <1>13 DEF CallerLock
    <2>2. UNCHANGED <<job, ran>> /\ \A x \in Workers : Told(x)' <=> Told(x)
      BY <1>13 DEF CallerLock, Told
    <2>3. carried[c] = None
      BY <1>13 DEF CallerLock, OnePlace
    <2>4. Pending(j)' /\ ran[j] = 0
      BY <2>1 DEF Pending, OnceEach, TypeOK
    <2>5. \A k \in Jobs : k # j => (Pending(k)' <=> Pending(k))
      BY <2>1, <2>2, <2>3, PoolAssumption DEF Pending, TypeOK
    <2> QED
      BY <2>1, <2>2, <2>4, <2>5 DEF OnceEach
  <1>14. ASSUME NEW c \in Callers, CallerRelock(c)
        PROVE  OnceEach'
    <2>1. UNCHANGED <<ran, submitted, carried, job>>
      BY <1>14 DEF CallerRelock
    <2>2. \A x \in Workers : Told(x)' <=> Told(x)
      BY <1>14 DEF CallerRelock, Told, TypeOK, GoFollows
    <2> QED
      BY <2>1, <2>2 DEF OnceEach, Pending
  <1>15. ASSUME NEW c \in Callers, CallerCheck(c)
        PROVE  OnceEach'
    <2>1. UNCHANGED <<ran, submitted, carried, job>>
      BY <1>15 DEF CallerCheck
    <2>2. \A x \in Workers : Told(x)' <=> Told(x)
      BY <1>15 DEF CallerCheck, Told, TypeOK, GoFollows
    <2> QED
      BY <2>1, <2>2 DEF OnceEach, Pending
  <1>16. ASSUME NEW c \in Callers, CallerLockWorker(c)
        PROVE  OnceEach'
    <2>1. UNCHANGED <<ran, submitted, carried, job>>
      BY <1>16 DEF CallerLockWorker
    <2>2. \A x \in Workers : Told(x)' <=> Told(x)
      BY <1>16 DEF CallerLockWorker, Told, TypeOK, GoFollows
    <2> QED
      BY <2>1, <2>2 DEF OnceEach, Pending
  <1>17. ASSUME NEW c \in Callers, CallerGive(c)
        PROVE  OnceEach'
    <2> DEFINE t == target[c]
    <2>1. t \in Workers /\ ~Told(t)
      BY <1>17 DEF CallerGive, Exclusive, Held, Idle, Told
    <2>2. /\ job' = [job EXCEPT ![t] = carried[c]]
          /\ carried' = [carried EXCEPT ![c] = None]
          /\ UNCHANGED <<submitted, ran>>
      BY <1>17 DEF CallerGive
    <2>3. \A x \in Workers : Told(x)' <=> x = t \/ Told(x)
      BY <1>17, <2>1 DEF CallerGive, Told, Idle, Exclusive, Held, TypeOK
    <2> HIDE DEF t
    <2>4. /\ job'[t] = carried[c]
          /\ \A x \in Workers : x # t => job'[x] = job[x]
      BY <2>1, <2>2 DEF TypeOK
    <2>5. /\ carried'[c] = None
          /\ \A d \in Callers : d # c => carried'[d] = carried[d]
      BY <2>2 DEF TypeOK
    <2>6. ASSUME NEW k \in Jobs
          PROVE  Pending(k)' <=> Pending(k)
      <3>1. k # None
        BY PoolAssumption
      <3>2. Pending(k)' => Pending(k)
        BY <2>3, <2>4, <2>5, <3>1 DEF Pending
      <3>3. Pending(k) => Pending(k)'
        BY <2>1, <2>3, <2>4, <2>5 DEF Pending
      <3> QED
        BY <3>2, <3>3
    <2> QED
      BY <2>2, <2>6 DEF OnceEach
  <1>18. CASE UNCHANGED vars
    BY <1>18 DEF vars, OnceEach, Pending, Told
  <1> QED
    BY <1>1, <1>2, <1>3, <1>4, <1>5, <1>6, <1>7, <1>8, <1>9,
       <1>10, <1>11, <1>12, <1>13, <1>14, <1>15, <1>16, <1>17, <1>18
       DEF Next, CreatorStep, WorkerStep, CallerStep

\* The inductive invariant of the pool.
THEOREM PoolInvariant == Spec => []PoolInv
PROOF
  <1>1. Init => PoolInv
    <2> SUFFICES ASSUME Init PROVE PoolInv
      OBVIOUS
    <2>0. Len(free_list) = 0 /\ free_list \in Seq(Workers)
      BY EmptySeq DEF Init
    <2>1. TypeOK
      BY <2>0 DEF Init, TypeOK, Threads, WorkerPCs, CallerPCs, CreatorPCs
    <2>2. Exclusive
      BY <2>0 DEF Init, Exclusive, NoRepeat, Listed, Held
    <2>3. GoFollows /\ Bootstrap
      BY DEF Init, GoFollows, Bootstrap, Creating
    <2>4. OnePlace
      BY DEF Init, OnePlace, Told
    <2>5. OnceEach
      BY DEF Init, OnceEach, Pending, Told
    <2> QED
      BY <2>1, <2>2, <2>3, <2>4, <2>5 DEF PoolInv
  <1>2. PoolInv /\ [Next]_vars => PoolInv'
    <2> SUFFICES ASSUME PoolInv, [Next]_vars PROVE PoolInv'
      OBVIOUS
    <2>1. TypeOK' /\ GoFollows'
      BY TypeStep, GoStep
    <2>2. Exclusive' /\ Bootstrap'
      BY ExclusiveStep, BootstrapStep
    <2>3. OnePlace' /\ OnceEach'
      BY OnePlaceStep, OnceStep
    <2> QED
      BY <2>1, <2>2, <2>3 DEF PoolInv
  <1> QED
    BY <1>1, <1>2, PTL DEF Spec

\* send_to_pool() and thread_runner() never share a worker: for any number of
\* threads, a worker on the free list or popped by a caller is idle and has
\* one owner.
THEOREM PoolExclusive == Spec => []Exclusive
PROOF
  <1>1. PoolInv => Exclusive
    BY DEF PoolInv
  <1> QED
    BY <1>1, PoolInvariant, PTL

\* A function handed to send_to_pool() is called once at most and never lost
\* before it is called, for any number of threads and jobs.
THEOREM PoolOnceEach == Spec => []OnceEach
PROOF
  <1>1. PoolInv => OnceEach
    BY DEF PoolInv
  <1> QED
    BY <1>1, PoolInvariant, PTL
=============================================================================
