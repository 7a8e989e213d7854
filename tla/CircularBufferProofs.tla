------------------------ MODULE CircularBufferProofs ------------------------
(***************************************************************************)
(* Proofs about the ring for every capacity, batch size and number of      *)
(* records: it never overwrites an unread slot, its slots are not raced    *)
(* for, it delivers in order, and no wake-up is lost.                      *)
(***************************************************************************)
EXTENDS CircularBuffer, Sequences, TLAPS

(* wait_mutex_ is held exactly in the critical sections.                   *)
Locking ==
  /\ mutex = "producer" <=> ppc \in {"publish", "wait", "sleep"}
  /\ mutex = "consumer" <=> cpc \in {"publish", "wait", "sleep"}
  /\ mutex = "closer" <=> kpc = "set"
  /\ closed <=> kpc \in {"notifyData", "notifySpace", "done"}

(* What each side knows of the cursors when it goes on with a local copy.  *)
Cursors ==
  /\ head <= tail /\ tail <= head + Capacity
  /\ phead <= head
  /\ ppc \in {"write", "publishLock", "publish"} => tail < phead + Capacity
  /\ ppc = "watermark" => tail <= phead + Capacity
  /\ cpc \in {"read", "publishLock", "publish"} => head + ctake <= tail
  /\ cpc = "read" => cread < ctake
  /\ cpc \in {"publishLock", "publish"} => cread = ctake /\ ctake > 0
  /\ cpc \notin {"read", "publishLock", "publish"} => cread = 0
  /\ out = head + cread - 1
  /\ shead <= head
  /\ sample >= 0
  /\ spc = "idle" => shead = 0

(* Every published record, and the one about to be, is in its slot.        *)
Slots ==
  /\ \A i \in head .. tail - 1 : storage[i % Capacity] = i
  /\ ppc \in {"publishLock", "publish"} => storage[tail % Capacity] = tail

(* A thread that decided to sleep still holds the mutex that its condition *)
(* can only change under.                                                  *)
Wakeups ==
  /\ ppc = "sleep" => Full /\ ~closed
  /\ cpc = "sleep" => Empty /\ ~closed
  /\ NoLostWakeup

IInv == TypeOK /\ Locking /\ Cursors /\ Slots /\ Wakeups /\ WatermarkSound

(* Quotient and remainder.                                                 *)
LEMMA DivMod ==
  ASSUME NEW C \in Nat \ {0}, NEW i \in Nat
  PROVE  /\ i % C \in 0 .. C - 1
         /\ i \div C \in Nat
         /\ i = C * (i \div C) + (i % C)
  BY SMT

(* A positive multiple of C is at least C.                                 *)
LEMMA Multiple ==
  ASSUME NEW C \in Nat \ {0}, NEW k \in Int, k > 0
  PROVE  C * k >= C
  BY SMT

(* Two records less than a capacity apart have different slots.            *)
LEMMA SlotsDiffer ==
  ASSUME NEW C \in Nat \ {0}, NEW i \in Nat, NEW j \in Nat, i < j, j < i + C
  PROVE  i % C # j % C
<1> DEFINE p == i \div C
           q == j \div C
<1>1. i = C * p + (i % C) /\ j = C * q + (j % C) /\ p \in Nat /\ q \in Nat
      /\ i % C \in 0 .. C-1 /\ j % C \in 0 .. C-1
  BY DivMod
<1>2. SUFFICES ASSUME i % C = j % C PROVE FALSE
  OBVIOUS
<1> HIDE DEF p, q
<1>3. C * (q - p) = j - i
  BY <1>1, <1>2, SMT
<1>4. q - p > 0
  <2>1. CASE q - p <= 0
    <3>1. C * (q - p) <= 0 BY <1>1, <2>1, SMT
    <3> QED BY <3>1, <1>3, SMT
  <2> QED BY <2>1, <1>1, SMT
<1>5. C * (q - p) >= C BY <1>4, <1>1, Multiple
<1> QED BY <1>3, <1>5, SMT

(* The parts of the invariant, each kept by every step of every thread.    *)
LEMMA TypeStep == IInv /\ [Next]_vars => TypeOK'
<1> SUFFICES ASSUME IInv, [Next]_vars PROVE TypeOK'
  OBVIOUS
<1> USE RingAssumption
        DEF IInv, TypeOK, Index, NoRecord, Thread, ProducerPc,
            ConsumerPc, CloserPc, Cursors,
            vars, shared, producer, consumer, closer, sampler
<1>1. ASSUME NEW call \in Calls, Push(call) PROVE TypeOK'
  <2>1. plate' \in BOOLEAN
    BY <1>1, Zenon DEF Push, TypeOK
  <2> QED
    BY <1>1, <2>1 DEF Push
<1>2. CASE PushTestsClosed
  BY <1>2 DEF PushTestsClosed
<1>3. CASE PushTestsRoom
  BY <1>3 DEF PushTestsRoom
<1>4. CASE PushWritesSlot
  BY <1>4 DEF PushWritesSlot
<1>5. CASE PushLocks
  BY <1>5 DEF PushLocks
<1>6. CASE PushPublishes
  BY <1>6 DEF PushPublishes
<1>7. CASE PushRaisesWatermark
  BY <1>7 DEF PushRaisesWatermark
<1>8. CASE PushNotifies
  BY <1>8 DEF PushNotifies, NotifyData
<1>9. CASE PushWaitLocks
  BY <1>9 DEF PushWaitLocks
<1>10. CASE PushWaits
  BY <1>10 DEF PushWaits
<1>11. CASE PushSleeps
  BY <1>11 DEF PushSleeps
<1>12. CASE PushWakes
  <2>1. plate' \in BOOLEAN
    BY <1>12, Zenon DEF PushWakes, TypeOK
  <2> QED
    BY <1>12, <2>1 DEF PushWakes
<1>13. CASE ProducerEnds
  BY <1>13 DEF ProducerEnds
<1>14. ASSUME NEW call \in Calls \cup {"batch"}, Pop(call) PROVE TypeOK'
  <2>1. clate' \in BOOLEAN
    BY <1>14, Zenon DEF Pop, TypeOK
  <2> QED
    BY <1>14, <2>1 DEF Pop
<1>15. ASSUME NEW limit \in 1 .. MaxBatch, PopTestsData(limit) PROVE TypeOK'
  BY <1>15 DEF PopTestsData, Empty
<1>16. CASE PopTestsClosed
  BY <1>16 DEF PopTestsClosed
<1>17. CASE PopReadsSlot
  BY <1>17 DEF PopReadsSlot
<1>18. CASE PopLocks
  BY <1>18 DEF PopLocks
<1>19. CASE PopPublishes
  BY <1>19 DEF PopPublishes
<1>20. CASE PopNotifies
  BY <1>20 DEF PopNotifies, NotifySpace
<1>21. CASE PopWaitLocks
  BY <1>21 DEF PopWaitLocks
<1>22. CASE PopWaits
  BY <1>22 DEF PopWaits
<1>23. CASE PopSleeps
  BY <1>23 DEF PopSleeps
<1>24. CASE PopWakes
  <2>1. clate' \in BOOLEAN
    BY <1>24, Zenon DEF PopWakes, TypeOK
  <2> QED
    BY <1>24, <2>1 DEF PopWakes
<1>25. CASE ConsumerEnds
  BY <1>25 DEF ConsumerEnds
<1>26. CASE Close
  BY <1>26 DEF Close
<1>27. CASE CloseLocks
  BY <1>27 DEF CloseLocks
<1>28. CASE CloseSets
  BY <1>28 DEF CloseSets
<1>29. CASE CloseNotifiesData
  BY <1>29 DEF CloseNotifiesData, NotifyData
<1>30. CASE CloseNotifiesSpace
  BY <1>30 DEF CloseNotifiesSpace, NotifySpace
<1>31. CASE SampleHead
  BY <1>31 DEF SampleHead
<1>32. CASE SampleTail
  BY <1>32 DEF SampleTail
<1>33. CASE Reset
  <2>1. closed' \in BOOLEAN
    BY <1>33, Zenon DEF Reset, TypeOK
  <2> QED
    BY <1>33, <2>1 DEF Reset
<1>34. CASE UNCHANGED vars
  BY <1>34
<1> QED
  BY <1>1, <1>2, <1>3, <1>4, <1>5, <1>6, <1>7, <1>8, <1>9, <1>10, <1>11,
     <1>12, <1>13, <1>14, <1>15, <1>16, <1>17, <1>18, <1>19, <1>20, <1>21,
     <1>22, <1>23, <1>24, <1>25, <1>26, <1>27, <1>28, <1>29, <1>30, <1>31,
     <1>32, <1>33, <1>34
     DEF Next, ProducerStep, ConsumerStep, CloserStep, Sample

LEMMA LockingStep == IInv /\ [Next]_vars => Locking'
<1> SUFFICES ASSUME IInv, [Next]_vars PROVE Locking'
  OBVIOUS
<1> USE RingAssumption
        DEF IInv, TypeOK, Thread, ProducerPc, ConsumerPc, CloserPc, Locking,
            vars, shared, producer, consumer, closer, sampler
<1>1. ASSUME NEW call \in Calls, Push(call) PROVE Locking'
  BY <1>1 DEF Push
<1>2. CASE PushTestsClosed
  BY <1>2 DEF PushTestsClosed
<1>3. CASE PushTestsRoom
  BY <1>3 DEF PushTestsRoom
<1>4. CASE PushWritesSlot
  BY <1>4 DEF PushWritesSlot
<1>5. CASE PushLocks
  BY <1>5 DEF PushLocks
<1>6. CASE PushPublishes
  BY <1>6 DEF PushPublishes
<1>7. CASE PushRaisesWatermark
  BY <1>7 DEF PushRaisesWatermark
<1>8. CASE PushNotifies
  BY <1>8 DEF PushNotifies, NotifyData
<1>9. CASE PushWaitLocks
  BY <1>9 DEF PushWaitLocks
<1>10. CASE PushWaits
  BY <1>10 DEF PushWaits
<1>11. CASE PushSleeps
  BY <1>11 DEF PushSleeps
<1>12. CASE PushWakes
  BY <1>12 DEF PushWakes
<1>13. CASE ProducerEnds
  BY <1>13 DEF ProducerEnds
<1>14. ASSUME NEW call \in Calls \cup {"batch"}, Pop(call) PROVE Locking'
  BY <1>14 DEF Pop
<1>15. ASSUME NEW limit \in 1 .. MaxBatch, PopTestsData(limit) PROVE Locking'
  BY <1>15 DEF PopTestsData, Empty
<1>16. CASE PopTestsClosed
  BY <1>16 DEF PopTestsClosed
<1>17. CASE PopReadsSlot
  BY <1>17 DEF PopReadsSlot
<1>18. CASE PopLocks
  BY <1>18 DEF PopLocks
<1>19. CASE PopPublishes
  BY <1>19 DEF PopPublishes
<1>20. CASE PopNotifies
  BY <1>20 DEF PopNotifies, NotifySpace
<1>21. CASE PopWaitLocks
  BY <1>21 DEF PopWaitLocks
<1>22. CASE PopWaits
  BY <1>22 DEF PopWaits
<1>23. CASE PopSleeps
  BY <1>23 DEF PopSleeps
<1>24. CASE PopWakes
  BY <1>24 DEF PopWakes
<1>25. CASE ConsumerEnds
  BY <1>25 DEF ConsumerEnds
<1>26. CASE Close
  BY <1>26 DEF Close
<1>27. CASE CloseLocks
  BY <1>27 DEF CloseLocks
<1>28. CASE CloseSets
  BY <1>28 DEF CloseSets
<1>29. CASE CloseNotifiesData
  BY <1>29 DEF CloseNotifiesData, NotifyData
<1>30. CASE CloseNotifiesSpace
  BY <1>30 DEF CloseNotifiesSpace, NotifySpace
<1>31. CASE SampleHead
  BY <1>31 DEF SampleHead
<1>32. CASE SampleTail
  BY <1>32 DEF SampleTail
<1>33. CASE Reset
  BY <1>33 DEF Reset
<1>34. CASE UNCHANGED vars
  BY <1>34
<1> QED
  BY <1>1, <1>2, <1>3, <1>4, <1>5, <1>6, <1>7, <1>8, <1>9, <1>10, <1>11,
     <1>12, <1>13, <1>14, <1>15, <1>16, <1>17, <1>18, <1>19, <1>20, <1>21,
     <1>22, <1>23, <1>24, <1>25, <1>26, <1>27, <1>28, <1>29, <1>30, <1>31,
     <1>32, <1>33, <1>34
     DEF Next, ProducerStep, ConsumerStep, CloserStep, Sample

LEMMA CursorsStep == IInv /\ [Next]_vars => Cursors'
<1> SUFFICES ASSUME IInv, [Next]_vars PROVE Cursors'
  OBVIOUS
<1> USE RingAssumption
        DEF IInv, TypeOK, NoRecord, Cursors, Locking, Slots, Index, Full, Empty,
            vars, shared, producer, consumer, closer, sampler
<1>1. ASSUME NEW call \in Calls, Push(call) PROVE Cursors'
  BY <1>1 DEF Push
<1>2. CASE PushTestsClosed
  BY <1>2 DEF PushTestsClosed
<1>3. CASE PushTestsRoom
  BY <1>3 DEF PushTestsRoom
<1>4. CASE PushWritesSlot
  BY <1>4 DEF PushWritesSlot
<1>5. CASE PushLocks
  BY <1>5 DEF PushLocks
<1>6. CASE PushPublishes
  BY <1>6 DEF PushPublishes
<1>7. CASE PushRaisesWatermark
  BY <1>7 DEF PushRaisesWatermark
<1>8. CASE PushNotifies
  BY <1>8 DEF PushNotifies, NotifyData
<1>9. CASE PushWaitLocks
  BY <1>9 DEF PushWaitLocks
<1>10. CASE PushWaits
  BY <1>10 DEF PushWaits
<1>11. CASE PushSleeps
  BY <1>11 DEF PushSleeps
<1>12. CASE PushWakes
  BY <1>12 DEF PushWakes
<1>13. CASE ProducerEnds
  BY <1>13 DEF ProducerEnds
<1>14. ASSUME NEW call \in Calls \cup {"batch"}, Pop(call) PROVE Cursors'
  BY <1>14 DEF Pop
<1>15. ASSUME NEW limit \in 1 .. MaxBatch, PopTestsData(limit) PROVE Cursors'
  BY <1>15 DEF PopTestsData, Empty
<1>16. CASE PopTestsClosed
  BY <1>16 DEF PopTestsClosed
<1>17. CASE PopReadsSlot
  BY <1>17 DEF PopReadsSlot
<1>18. CASE PopLocks
  BY <1>18 DEF PopLocks
<1>19. CASE PopPublishes
  BY <1>19 DEF PopPublishes
<1>20. CASE PopNotifies
  BY <1>20 DEF PopNotifies, NotifySpace
<1>21. CASE PopWaitLocks
  BY <1>21 DEF PopWaitLocks
<1>22. CASE PopWaits
  BY <1>22 DEF PopWaits
<1>23. CASE PopSleeps
  BY <1>23 DEF PopSleeps
<1>24. CASE PopWakes
  BY <1>24 DEF PopWakes
<1>25. CASE ConsumerEnds
  BY <1>25 DEF ConsumerEnds
<1>26. CASE Close
  BY <1>26 DEF Close
<1>27. CASE CloseLocks
  BY <1>27 DEF CloseLocks
<1>28. CASE CloseSets
  BY <1>28 DEF CloseSets
<1>29. CASE CloseNotifiesData
  BY <1>29 DEF CloseNotifiesData, NotifyData
<1>30. CASE CloseNotifiesSpace
  BY <1>30 DEF CloseNotifiesSpace, NotifySpace
<1>31. CASE SampleHead
  BY <1>31 DEF SampleHead
<1>32. CASE SampleTail
  BY <1>32 DEF SampleTail
<1>33. CASE Reset
  BY <1>33 DEF Reset
<1>34. CASE UNCHANGED vars
  BY <1>34
<1> QED
  BY <1>1, <1>2, <1>3, <1>4, <1>5, <1>6, <1>7, <1>8, <1>9, <1>10, <1>11,
     <1>12, <1>13, <1>14, <1>15, <1>16, <1>17, <1>18, <1>19, <1>20, <1>21,
     <1>22, <1>23, <1>24, <1>25, <1>26, <1>27, <1>28, <1>29, <1>30, <1>31,
     <1>32, <1>33, <1>34
     DEF Next, ProducerStep, ConsumerStep, CloserStep, Sample

LEMMA WakeupsStep == IInv /\ [Next]_vars => Wakeups'
<1> SUFFICES ASSUME IInv, [Next]_vars PROVE Wakeups'
  OBVIOUS
<1> USE RingAssumption
        DEF IInv, TypeOK, Locking, Cursors, Wakeups, NoLostWakeup, Full, Empty, Thread, ProducerPc,
            ConsumerPc, CloserPc,
            vars, shared, producer, consumer, closer, sampler
<1>1. ASSUME NEW call \in Calls, Push(call) PROVE Wakeups'
  BY <1>1 DEF Push
<1>2. CASE PushTestsClosed
  BY <1>2 DEF PushTestsClosed
<1>3. CASE PushTestsRoom
  BY <1>3 DEF PushTestsRoom
<1>4. CASE PushWritesSlot
  BY <1>4 DEF PushWritesSlot
<1>5. CASE PushLocks
  BY <1>5 DEF PushLocks
<1>6. CASE PushPublishes
  BY <1>6 DEF PushPublishes
<1>7. CASE PushRaisesWatermark
  BY <1>7 DEF PushRaisesWatermark
<1>8. CASE PushNotifies
  BY <1>8 DEF PushNotifies, NotifyData
<1>9. CASE PushWaitLocks
  BY <1>9 DEF PushWaitLocks
<1>10. CASE PushWaits
  BY <1>10 DEF PushWaits
<1>11. CASE PushSleeps
  BY <1>11 DEF PushSleeps
<1>12. CASE PushWakes
  BY <1>12 DEF PushWakes
<1>13. CASE ProducerEnds
  BY <1>13 DEF ProducerEnds
<1>14. ASSUME NEW call \in Calls \cup {"batch"}, Pop(call) PROVE Wakeups'
  BY <1>14 DEF Pop
<1>15. ASSUME NEW limit \in 1 .. MaxBatch, PopTestsData(limit) PROVE Wakeups'
  BY <1>15 DEF PopTestsData, Empty
<1>16. CASE PopTestsClosed
  BY <1>16 DEF PopTestsClosed
<1>17. CASE PopReadsSlot
  BY <1>17 DEF PopReadsSlot
<1>18. CASE PopLocks
  BY <1>18 DEF PopLocks
<1>19. CASE PopPublishes
  BY <1>19 DEF PopPublishes
<1>20. CASE PopNotifies
  BY <1>20 DEF PopNotifies, NotifySpace
<1>21. CASE PopWaitLocks
  BY <1>21 DEF PopWaitLocks
<1>22. CASE PopWaits
  BY <1>22 DEF PopWaits
<1>23. CASE PopSleeps
  BY <1>23 DEF PopSleeps
<1>24. CASE PopWakes
  BY <1>24 DEF PopWakes
<1>25. CASE ConsumerEnds
  BY <1>25 DEF ConsumerEnds
<1>26. CASE Close
  BY <1>26 DEF Close
<1>27. CASE CloseLocks
  BY <1>27 DEF CloseLocks
<1>28. CASE CloseSets
  BY <1>28 DEF CloseSets
<1>29. CASE CloseNotifiesData
  BY <1>29 DEF CloseNotifiesData, NotifyData
<1>30. CASE CloseNotifiesSpace
  BY <1>30 DEF CloseNotifiesSpace, NotifySpace
<1>31. CASE SampleHead
  BY <1>31 DEF SampleHead
<1>32. CASE SampleTail
  BY <1>32 DEF SampleTail
<1>33. CASE Reset
  BY <1>33 DEF Reset
<1>34. CASE UNCHANGED vars
  BY <1>34
<1> QED
  BY <1>1, <1>2, <1>3, <1>4, <1>5, <1>6, <1>7, <1>8, <1>9, <1>10, <1>11,
     <1>12, <1>13, <1>14, <1>15, <1>16, <1>17, <1>18, <1>19, <1>20, <1>21,
     <1>22, <1>23, <1>24, <1>25, <1>26, <1>27, <1>28, <1>29, <1>30, <1>31,
     <1>32, <1>33, <1>34
     DEF Next, ProducerStep, ConsumerStep, CloserStep, Sample

LEMMA WatermarkStep == IInv /\ [Next]_vars => WatermarkSound'
<1> SUFFICES ASSUME IInv, [Next]_vars PROVE WatermarkSound'
  OBVIOUS
<1> USE RingAssumption
        DEF IInv, TypeOK, Cursors, WatermarkSound,
            vars, shared, producer, consumer, closer, sampler
<1>1. ASSUME NEW call \in Calls, Push(call) PROVE WatermarkSound'
  BY <1>1 DEF Push
<1>2. CASE PushTestsClosed
  BY <1>2 DEF PushTestsClosed
<1>3. CASE PushTestsRoom
  BY <1>3 DEF PushTestsRoom
<1>4. CASE PushWritesSlot
  BY <1>4 DEF PushWritesSlot
<1>5. CASE PushLocks
  BY <1>5 DEF PushLocks
<1>6. CASE PushPublishes
  BY <1>6 DEF PushPublishes
<1>7. CASE PushRaisesWatermark
  BY <1>7 DEF PushRaisesWatermark
<1>8. CASE PushNotifies
  BY <1>8 DEF PushNotifies, NotifyData
<1>9. CASE PushWaitLocks
  BY <1>9 DEF PushWaitLocks
<1>10. CASE PushWaits
  BY <1>10 DEF PushWaits
<1>11. CASE PushSleeps
  BY <1>11 DEF PushSleeps
<1>12. CASE PushWakes
  BY <1>12 DEF PushWakes
<1>13. CASE ProducerEnds
  BY <1>13 DEF ProducerEnds
<1>14. ASSUME NEW call \in Calls \cup {"batch"}, Pop(call) PROVE WatermarkSound'
  BY <1>14 DEF Pop
<1>15. ASSUME NEW limit \in 1 .. MaxBatch, PopTestsData(limit) PROVE WatermarkSound'
  BY <1>15 DEF PopTestsData, Empty
<1>16. CASE PopTestsClosed
  BY <1>16 DEF PopTestsClosed
<1>17. CASE PopReadsSlot
  BY <1>17 DEF PopReadsSlot
<1>18. CASE PopLocks
  BY <1>18 DEF PopLocks
<1>19. CASE PopPublishes
  BY <1>19 DEF PopPublishes
<1>20. CASE PopNotifies
  BY <1>20 DEF PopNotifies, NotifySpace
<1>21. CASE PopWaitLocks
  BY <1>21 DEF PopWaitLocks
<1>22. CASE PopWaits
  BY <1>22 DEF PopWaits
<1>23. CASE PopSleeps
  BY <1>23 DEF PopSleeps
<1>24. CASE PopWakes
  BY <1>24 DEF PopWakes
<1>25. CASE ConsumerEnds
  BY <1>25 DEF ConsumerEnds
<1>26. CASE Close
  BY <1>26 DEF Close
<1>27. CASE CloseLocks
  BY <1>27 DEF CloseLocks
<1>28. CASE CloseSets
  BY <1>28 DEF CloseSets
<1>29. CASE CloseNotifiesData
  BY <1>29 DEF CloseNotifiesData, NotifyData
<1>30. CASE CloseNotifiesSpace
  BY <1>30 DEF CloseNotifiesSpace, NotifySpace
<1>31. CASE SampleHead
  BY <1>31 DEF SampleHead
<1>32. CASE SampleTail
  BY <1>32 DEF SampleTail
<1>33. CASE Reset
  BY <1>33 DEF Reset
<1>34. CASE UNCHANGED vars
  BY <1>34
<1> QED
  BY <1>1, <1>2, <1>3, <1>4, <1>5, <1>6, <1>7, <1>8, <1>9, <1>10, <1>11,
     <1>12, <1>13, <1>14, <1>15, <1>16, <1>17, <1>18, <1>19, <1>20, <1>21,
     <1>22, <1>23, <1>24, <1>25, <1>26, <1>27, <1>28, <1>29, <1>30, <1>31,
     <1>32, <1>33, <1>34
     DEF Next, ProducerStep, ConsumerStep, CloserStep, Sample

LEMMA SlotsStep == IInv /\ [Next]_vars => Slots'
<1> SUFFICES ASSUME IInv, [Next]_vars PROVE Slots'
  OBVIOUS
<1> USE RingAssumption
        DEF IInv, TypeOK, Index, Slots, Cursors,
            vars, shared, producer, consumer, closer, sampler
<1>1. CASE PushWritesSlot
  <2>1. tail \in Nat /\ tail % Capacity \in Index
    BY DivMod
  <2>2. storage'[tail % Capacity] = tail
    BY <1>1, <2>1 DEF PushWritesSlot
  <2>3. ASSUME NEW i \in head .. tail - 1 PROVE storage'[i % Capacity] = i
    <3>1. i \in Nat /\ i < tail /\ tail < i + Capacity
      BY <1>1 DEF PushWritesSlot
    <3>2. i % Capacity # tail % Capacity
      BY <2>1, <3>1, SlotsDiffer
    <3>3. i % Capacity \in Index
      BY <3>1, DivMod
    <3> QED
      BY <1>1, <3>2, <3>3 DEF PushWritesSlot
  <2> QED
    BY <1>1, <2>2, <2>3 DEF PushWritesSlot
<1>2. CASE PushPublishes
  <2>1. storage[tail % Capacity] = tail
    BY <1>2 DEF PushPublishes
  <2>2. ASSUME NEW i \in head .. tail PROVE storage[i % Capacity] = i
    <3>1. CASE i = tail
      BY <3>1, <2>1
    <3>2. CASE i \in head .. tail - 1
      BY <3>2
    <3> QED
      BY <3>1, <3>2
  <2> QED
    BY <1>2, <2>2 DEF PushPublishes
<1>3. CASE PopPublishes
  <2>1. head' \in Nat /\ head <= head'
    BY <1>3 DEF PopPublishes
  <2>2. head' .. tail' - 1 \subseteq head .. tail - 1
    BY <1>3, <2>1 DEF PopPublishes
  <2> QED
    BY <1>3, <2>2 DEF PopPublishes
<1>4. CASE Reset
  BY <1>4 DEF Reset
<1>5. ASSUME NEW call \in Calls, Push(call) PROVE Slots'
  BY <1>5 DEF Push
<1>6. CASE PushTestsClosed
  BY <1>6 DEF PushTestsClosed
<1>7. CASE PushTestsRoom
  BY <1>7 DEF PushTestsRoom
<1>8. CASE PushLocks
  BY <1>8 DEF PushLocks
<1>9. CASE PushRaisesWatermark
  BY <1>9 DEF PushRaisesWatermark
<1>10. CASE PushNotifies
  BY <1>10 DEF PushNotifies, NotifyData
<1>11. CASE PushWaitLocks
  BY <1>11 DEF PushWaitLocks
<1>12. CASE PushWaits
  BY <1>12 DEF PushWaits
<1>13. CASE PushSleeps
  BY <1>13 DEF PushSleeps
<1>14. CASE PushWakes
  BY <1>14 DEF PushWakes
<1>15. CASE ProducerEnds
  BY <1>15 DEF ProducerEnds
<1>16. ASSUME NEW call \in Calls \cup {"batch"}, Pop(call) PROVE Slots'
  BY <1>16 DEF Pop
<1>17. ASSUME NEW limit \in 1 .. MaxBatch, PopTestsData(limit) PROVE Slots'
  BY <1>17 DEF PopTestsData
<1>18. CASE PopTestsClosed
  BY <1>18 DEF PopTestsClosed
<1>19. CASE PopReadsSlot
  BY <1>19 DEF PopReadsSlot
<1>20. CASE PopLocks
  BY <1>20 DEF PopLocks
<1>21. CASE PopNotifies
  BY <1>21 DEF PopNotifies, NotifySpace
<1>22. CASE PopWaitLocks
  BY <1>22 DEF PopWaitLocks
<1>23. CASE PopWaits
  BY <1>23 DEF PopWaits
<1>24. CASE PopSleeps
  BY <1>24 DEF PopSleeps
<1>25. CASE PopWakes
  BY <1>25 DEF PopWakes
<1>26. CASE ConsumerEnds
  BY <1>26 DEF ConsumerEnds
<1>27. CASE Close
  BY <1>27 DEF Close
<1>28. CASE CloseLocks
  BY <1>28 DEF CloseLocks
<1>29. CASE CloseSets
  BY <1>29 DEF CloseSets
<1>30. CASE CloseNotifiesData
  BY <1>30 DEF CloseNotifiesData, NotifyData
<1>31. CASE CloseNotifiesSpace
  BY <1>31 DEF CloseNotifiesSpace, NotifySpace
<1>32. CASE SampleHead
  BY <1>32 DEF SampleHead
<1>33. CASE SampleTail
  BY <1>33 DEF SampleTail
<1>34. CASE UNCHANGED vars
  BY <1>34
<1> QED
  BY <1>1, <1>2, <1>3, <1>4, <1>5, <1>6, <1>7, <1>8, <1>9, <1>10, <1>11,
     <1>12, <1>13, <1>14, <1>15, <1>16, <1>17, <1>18, <1>19, <1>20, <1>21,
     <1>22, <1>23, <1>24, <1>25, <1>26, <1>27, <1>28, <1>29, <1>30, <1>31,
     <1>32, <1>33, <1>34
     DEF Next, ProducerStep, ConsumerStep, CloserStep, Sample

(* A new buffer satisfies the invariant.                                   *)
LEMMA InitInv == Init => IInv
<1> SUFFICES ASSUME Init PROVE IInv
  OBVIOUS
<1> USE RingAssumption DEF Init
<1>0. closed \in BOOLEAN /\ plate \in BOOLEAN /\ clate \in BOOLEAN
  BY Zenon
<1>1. TypeOK
  BY <1>0 DEF TypeOK, Index, NoRecord, Thread, ProducerPc, ConsumerPc, CloserPc
<1>2. Locking /\ Wakeups
  BY DEF Locking, Wakeups, NoLostWakeup
<1>3. Cursors /\ Slots /\ WatermarkSound
  BY DEF Cursors, Slots, WatermarkSound, NoRecord
<1> QED
  BY <1>1, <1>2, <1>3 DEF IInv

(* The inductive invariant holds for every capacity, batch size, number of *)
(* records and choice of calls.                                            *)
THEOREM Invariance == Spec => []IInv
<1>1. IInv /\ [Next]_vars => IInv'
  BY TypeStep, LockingStep, CursorsStep, SlotsStep, WakeupsStep, WatermarkStep
     DEF IInv
<1> QED
  BY InitInv, <1>1, PTL DEF Spec

(* Every variable keeps its type.                                          *)
THEOREM Typing == Spec => []TypeOK
<1>1. IInv => TypeOK
  BY DEF IInv
<1> QED
  BY Invariance, <1>1, PTL

(* No capacity and no interleaving lets try_push overwrite a record that   *)
(* was not popped, or the ring hold more than its capacity.                *)
THEOREM WindowStaysIntact == Spec => []WindowIntact
<1>1. IInv => WindowIntact
  BY DEF IInv, Cursors, Slots, WindowIntact
<1> QED
  BY Invariance, <1>1, PTL

(* try_push and the pops never touch one slot at the same time.            *)
THEOREM NoRace == Spec => []NoSlotRace
<1>1. ASSUME IInv, ppc = "write", cpc = "read"
      PROVE  tail % Capacity # (head + cread) % Capacity
  <2>1. /\ tail \in Nat /\ head + cread \in Nat
        /\ head + cread < tail /\ tail < head + cread + Capacity
    BY <1>1, RingAssumption DEF IInv, TypeOK, Cursors
  <2> QED
    BY <2>1, SlotsDiffer, RingAssumption
<1>2. IInv => NoSlotRace
  BY <1>1 DEF NoSlotRace
<1> QED
  BY Invariance, <1>2, PTL

(* The consumer sees the records once each and in the order of the pushes. *)
THEOREM OrderKept == Spec => []ReadsInOrder
<1>1. IInv => ReadsInOrder
  BY DEF IInv, TypeOK, Cursors, ReadsInOrder
<1> QED
  BY Invariance, <1>1, PTL

(* "blocking calls cannot miss a wake-up": whenever a thread sleeps through *)
(* its condition, the notification is still to come.                       *)
THEOREM WakeupsKept == Spec => []NoLostWakeup
<1>1. IInv => NoLostWakeup
  BY DEF IInv, Wakeups
<1> QED
  BY Invariance, <1>1, PTL

(* The high watermark stats() reports is at least the occupancy and never  *)
(* exceeds the capacity.                                                   *)
THEOREM StatisticsSound == Spec => []WatermarkSound
<1>1. IInv => WatermarkSound
  BY DEF IInv
<1> QED
  BY Invariance, <1>1, PTL

(* stats() loads tail after head, so the size it computes from the two is  *)
(* never a wrapped-around number, whatever ran between the loads.          *)
THEOREM SampleStaysWhole == Spec => []SampleNotWrapped
<1>1. IInv => SampleNotWrapped
  BY DEF IInv, Cursors, SampleNotWrapped
<1> QED
  BY Invariance, <1>1, PTL

(* Records first .. next - 1 as a queue: what an intact window holds.       *)
Numbers(first, next) == [i \in 1 .. next - first |-> first + i - 1]

LEMMA QueueIsNumbers ==
  IInv => [i \in 1 .. tail - head |-> storage[(head + i - 1) % Capacity]]
            = Numbers(head, tail)
<1> SUFFICES ASSUME IInv, NEW i \in 1 .. tail - head
             PROVE  storage[(head + i - 1) % Capacity] = head + i - 1
  BY DEF Numbers
<1>1. head + i - 1 \in head .. tail - 1
  BY DEF IInv, TypeOK
<1> QED
  BY <1>1 DEF IInv, Slots

(* Pushing and popping as a queue of numbers sees them.                    *)
LEMMA NumbersSeq ==
  ASSUME NEW f \in Nat, NEW n \in Nat, f <= n
  PROVE  /\ Numbers(f, n) \in Seq(Nat)
         /\ Len(Numbers(f, n)) = n - f
         /\ Append(Numbers(f, n), n) = Numbers(f, n + 1)
         /\ \A k \in 1 .. n - f :
              Numbers(f + k, n) = SubSeq(Numbers(f, n), k + 1, Len(Numbers(f, n)))
<1>1. \A m \in Nat : f <= m => Numbers(f, m) \in Seq(Nat) /\ Len(Numbers(f, m)) = m - f
  BY DEF Numbers
<1>2. Append(Numbers(f, n), n) = Numbers(f, n + 1)
  BY <1>1 DEF Numbers
<1>3. ASSUME NEW k \in 1 .. n - f
      PROVE  Numbers(f + k, n) = SubSeq(Numbers(f, n), k + 1, Len(Numbers(f, n)))
  BY <1>1 DEF Numbers
<1> QED
  BY <1>1, <1>2, <1>3

(* Publishing a cursor, setting closed_ and reset() are the steps of the    *)
(* queue; every other step of a thread leaves the queue as it is.          *)
LEMMA RefinementStep == IInv /\ IInv' /\ [Next]_vars => [Fifo!Next]_(Fifo!vars)
<1> DEFINE queue == [i \in 1 .. tail - head |-> storage[(head + i - 1) % Capacity]]
<1> SUFFICES ASSUME IInv, IInv', [Next]_vars PROVE [Fifo!Next]_(Fifo!vars)
  OBVIOUS
<1>1. queue = Numbers(head, tail)
  BY QueueIsNumbers
<1>2. (IInv => queue = Numbers(head, tail))'
  BY QueueIsNumbers, PTL
<1>3. queue' = Numbers(head', tail')
  BY <1>2
<1>4. /\ queue = Numbers(head, tail) /\ queue' = Numbers(head', tail')
      /\ head \in Nat /\ tail \in Nat /\ head <= tail
  BY <1>1, <1>3 DEF IInv, TypeOK, Cursors
<1>5. UNCHANGED <<head, tail, closed>> => UNCHANGED Fifo!vars
  BY <1>4 DEF Fifo!vars
<1>6. CASE PushPublishes
  <2>1. Len(queue) < Capacity
    BY <1>4, <1>6, NumbersSeq, RingAssumption DEF PushPublishes, IInv, TypeOK, Cursors
  <2>2. Append(Numbers(head, tail), tail) = Numbers(head, tail + 1)
    BY <1>4, NumbersSeq
  <2>3. queue' = Append(queue, tail)
    BY <1>1, <1>3, <1>6, <2>2 DEF PushPublishes
  <2> QED
    BY <1>6, <2>1, <2>3 DEF PushPublishes, Fifo!Push, Fifo!Next
<1>7. CASE PopPublishes
  <2>1. ctake \in 1 .. Len(queue)
    BY <1>4, <1>7, NumbersSeq DEF PopPublishes, IInv, TypeOK, Cursors
  <2>2. queue' = SubSeq(queue, ctake + 1, Len(queue))
    BY <1>4, <1>7, <2>1, NumbersSeq DEF PopPublishes
  <2> QED
    BY <1>7, <2>1, <2>2 DEF PopPublishes, Fifo!Pop, Fifo!Next
<1>8. CASE CloseSets
  <2>1. queue' = queue
    BY <1>4, <1>8 DEF CloseSets
  <2> QED
    BY <1>8, <2>1 DEF CloseSets, Fifo!Close, Fifo!Next
<1>9. CASE Reset
  <2>1. closed
    BY <1>9 DEF Reset, IInv, Locking
  <2>2. queue' = <<>>
    BY <1>9 DEF Reset
  <2> QED
    BY <1>9, <2>1, <2>2 DEF Reset, Fifo!Reset, Fifo!Next
<1>10. PushPublishes \/ PopPublishes \/ CloseSets \/ Reset \/ UNCHANGED <<head, tail, closed>>
  BY DEF Next, ProducerStep, ConsumerStep, CloserStep, Sample, vars, shared, Push,
     PushTestsClosed, PushTestsRoom, PushWritesSlot, PushLocks, PushRaisesWatermark,
     PushNotifies, PushWaitLocks, PushWaits, PushSleeps, PushWakes, ProducerEnds,
     Pop, PopTestsData, PopTestsClosed, PopReadsSlot, PopLocks, PopNotifies,
     PopWaitLocks, PopWaits, PopSleeps, PopWakes, ConsumerEnds,
     Close, CloseLocks, CloseNotifiesData, CloseNotifiesSpace, SampleHead, SampleTail
<1> QED
  BY <1>5, <1>6, <1>7, <1>8, <1>9, <1>10

(* The ring, its threads interleaved at every access, is a bounded queue.  *)
THEOREM RingImplementsFifo == Spec => ImplementsFifo
<1>1. Init => Fifo!Init
  BY DEF Init, Fifo!Init
<1> QED
  BY InitInv, Invariance, RefinementStep, <1>1, PTL DEF Spec, ImplementsFifo, Fifo!Spec

=============================================================================
