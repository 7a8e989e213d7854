--------------------------- MODULE CircularBuffer ---------------------------
(***************************************************************************)
(* The single-producer single-consumer ring of circular_buffer.hpp, one    *)
(* action per access to shared memory: the two cursors, the slots, the     *)
(* closed flag, the wait mutex and the two condition variables.            *)
(*                                                                         *)
(* Threads: the producer (try_push, push_blocking, push_wait_for), the     *)
(* consumer (pop_blocking, pop_wait_for, try_pop, try_pop_batch), one that *)
(* calls close(), and one that samples stats().  A record is its number:   *)
(* the producer's i-th successful push is record i, counted from 0.        *)
(*                                                                         *)
(* Cursors and flag are atomics with acquire and release order and one     *)
(* writer each, so steps interleave; a cursor read before the other side   *)
(* moved it is the local copy a later step still uses.  The cursors are    *)
(* 64-bit counters of records and are not wrapped.                         *)
(***************************************************************************)
EXTENDS Integers

CONSTANTS
  Capacity,      \* capacity_
  MaxBatch,      \* largest max_records of try_pop_batch
  MaxSends,      \* bound: records pushed before the buffer is reset
  MaxDrops,      \* bound: pushes that time out before the buffer is reset
  Calls,         \* the calls made: a subset of {"try", "blocking", "timed"}
  Spurious,      \* condition variables may wake without a notification
  Sampling       \* another thread calls stats()

ASSUME RingAssumption ==
  /\ Capacity \in Nat \ {0}
  /\ MaxBatch \in Nat \ {0}
  /\ MaxSends \in Nat /\ MaxDrops \in Nat
  /\ Calls \subseteq {"try", "blocking", "timed"}
  /\ Spurious \in BOOLEAN /\ Sampling \in BOOLEAN

VARIABLES
  head, tail,    \* consumer_.cursor, producer_.cursor
  storage,       \* storage_
  closed,        \* closed_
  mutex,         \* who holds wait_mutex_
  dropped,       \* dropped_records_
  watermark,     \* high_watermark_
  \* the producer: program counter, call, head as it read it, deadline passed
  ppc, pcall, phead, plate,
  \* the consumer: program counter, call, records to take and taken, the last
  \* record read, deadline passed
  cpc, ccall, ctake, cread, out, clate,
  \* the closing thread
  kpc,
  \* the sampling thread, head as it read it, Stats.current_size
  spc, shead, sample

shared   == <<head, tail, storage, closed, mutex, dropped, watermark>>
producer == <<ppc, pcall, phead, plate>>
consumer == <<cpc, ccall, ctake, cread, out, clate>>
closer   == <<kpc>>
sampler  == <<spc, shead, sample>>
vars == <<shared, producer, consumer, closer, sampler>>

Index    == 0 .. Capacity - 1
NoRecord == -1
Thread   == {"producer", "consumer", "closer"}

Init ==
  /\ head = 0 /\ tail = 0
  /\ storage = [i \in Index |-> NoRecord]
  /\ closed = FALSE /\ mutex = "free"
  /\ dropped = 0 /\ watermark = 0
  /\ ppc = "idle" /\ pcall = "try" /\ phead = 0 /\ plate = FALSE
  /\ cpc = "idle" /\ ccall = "try" /\ ctake = 0 /\ cread = 0
  /\ out = NoRecord /\ clate = FALSE
  /\ kpc = "idle"
  /\ spc = "idle" /\ shead = 0 /\ sample = 0

Full  == tail - head >= Capacity
Empty == head = tail

(* notify_one and notify_all wake the one thread that can be waiting.      *)
NotifyData  == cpc' = IF cpc = "asleep" THEN "relock" ELSE cpc
NotifySpace == ppc' = IF ppc = "asleep" THEN "relock" ELSE ppc

-----------------------------------------------------------------------------
(* Mistakes the code does not make.  Each stands in for the definition its *)
(* comment names, to show that a property would notice it.                 *)

(* PushTestsRoom with one record too many.                                 *)
RoomOffByOne ==
  /\ ppc = "room?"
  /\ phead' = head
  /\ ppc' = IF tail - head <= Capacity THEN "write"
            ELSE IF pcall = "try" THEN "idle" ELSE "lock"
  /\ UNCHANGED <<shared, pcall, plate, consumer, closer, sampler>>

(* PushLocks without the mutex: the cursor is stored between a consumer's  *)
(* test and its sleep.                                                     *)
PublishUnlocked ==
  /\ ppc = "publishLock"
  /\ mutex' = "producer"
  /\ ppc' = "publish"
  /\ UNCHANGED <<head, tail, storage, closed, dropped, watermark,
                 pcall, phead, plate, consumer, closer, sampler>>

(* PushRaisesWatermark with the size before the push.                      *)
WatermarkBeforePush ==
  /\ ppc = "watermark"
  /\ watermark' = IF watermark < tail - phead - 1 THEN tail - phead - 1 ELSE watermark
  /\ ppc' = "notify"
  /\ UNCHANGED <<head, tail, storage, closed, mutex, dropped,
                 pcall, phead, plate, consumer, closer, sampler>>

(* PushNotifies without notify_one.                                        *)
PushForgetsNotify ==
  /\ ppc = "notify"
  /\ ppc' = "idle"
  /\ UNCHANGED <<shared, pcall, phead, plate, consumer, closer, sampler>>

(* PopReadsSlot of a batch without the index.                              *)
BatchReadsOneSlot ==
  /\ cpc = "read"
  /\ out' = storage[head % Capacity]
  /\ cread' = cread + 1
  /\ cpc' = IF cread' = ctake THEN "publishLock" ELSE "read"
  /\ UNCHANGED <<shared, producer, ccall, ctake, clate, closer, sampler>>

(* CloseNotifiesSpace without notifying the producer.                      *)
CloseForgetsProducer ==
  /\ kpc = "notifySpace"
  /\ kpc' = "done"
  /\ UNCHANGED <<shared, producer, consumer, sampler>>

(* Sample with the tail read first.                                        *)
SampleTailFirst ==
  \/ /\ Sampling /\ spc = "idle"
     /\ shead' = tail /\ spc' = "tail"
     /\ UNCHANGED <<shared, producer, consumer, closer, sample>>
  \/ /\ spc = "tail"
     /\ sample' = shead - head /\ shead' = 0 /\ spc' = "idle"
     /\ UNCHANGED <<shared, producer, consumer, closer>>

(* Reset without opening the buffer again.                                 *)
ResetStaysClosed ==
  /\ ppc = "done" /\ cpc \in {"done", "stopped"} /\ kpc = "done" /\ spc = "idle"
  /\ head' = 0 /\ tail' = 0
  /\ dropped' = 0 /\ watermark' = 0
  /\ ppc' = "idle" /\ cpc' = "idle" /\ kpc' = "idle"
  /\ phead' = 0 /\ ctake' = 0
  /\ out' = NoRecord /\ shead' = 0 /\ sample' = 0
  /\ UNCHANGED <<storage, closed, mutex, pcall, plate, ccall, cread, clate, spc>>

-----------------------------------------------------------------------------
(* The producer.  A record that is pushed while the caller still has one   *)
(* call to make is bounded by MaxSends and MaxDrops.                       *)

Push(call) ==
  /\ ppc = "idle"
  /\ tail < MaxSends /\ dropped < MaxDrops
  /\ ppc' = "closed?" /\ pcall' = call
  /\ plate' = FALSE
  /\ UNCHANGED <<shared, phead, consumer, closer, sampler>>

(* try_push: a closed buffer takes nothing.                                *)
PushTestsClosed ==
  /\ ppc = "closed?"
  /\ ppc' = IF closed THEN "done" ELSE "room?"
  /\ UNCHANGED <<shared, pcall, phead, plate, consumer, closer, sampler>>

PushTestsRoom ==
  /\ ppc = "room?"
  /\ phead' = head
  /\ ppc' = IF tail - head < Capacity THEN "write"
            ELSE IF pcall = "try" THEN "idle" ELSE "lock"
  /\ UNCHANGED <<shared, pcall, plate, consumer, closer, sampler>>

PushWritesSlot ==
  /\ ppc = "write"
  /\ storage' = [storage EXCEPT ![tail % Capacity] = tail]
  /\ ppc' = "publishLock"
  /\ UNCHANGED <<head, tail, closed, mutex, dropped, watermark,
                 pcall, phead, plate, consumer, closer, sampler>>

PushLocks ==
  /\ ppc = "publishLock"
  /\ mutex = "free"
  /\ mutex' = "producer"
  /\ ppc' = "publish"
  /\ UNCHANGED <<head, tail, storage, closed, dropped, watermark,
                 pcall, phead, plate, consumer, closer, sampler>>

PushPublishes ==
  /\ ppc = "publish"
  /\ tail' = tail + 1
  /\ mutex' = "free"
  /\ ppc' = "watermark"
  /\ UNCHANGED <<head, storage, closed, dropped, watermark,
                 pcall, phead, plate, consumer, closer, sampler>>

(* update_high_watermark, with the head read before the slot was written.  *)
PushRaisesWatermark ==
  /\ ppc = "watermark"
  /\ watermark' = IF watermark < tail - phead THEN tail - phead ELSE watermark
  /\ ppc' = "notify"
  /\ UNCHANGED <<head, tail, storage, closed, mutex, dropped,
                 pcall, phead, plate, consumer, closer, sampler>>

PushNotifies ==
  /\ ppc = "notify"
  /\ NotifyData
  /\ ppc' = "idle"
  /\ UNCHANGED <<shared, pcall, phead, plate,
                 ccall, ctake, cread, out, clate, closer, sampler>>

(* The wait on space_available_: the predicate is tested with the mutex    *)
(* held, before sleeping and after waking; falling asleep releases it.     *)
PushWaitLocks ==
  /\ ppc \in {"lock", "relock"}
  /\ mutex = "free"
  /\ mutex' = "producer"
  /\ ppc' = "wait"
  /\ UNCHANGED <<head, tail, storage, closed, dropped, watermark,
                 pcall, phead, plate, consumer, closer, sampler>>

PushWaits ==
  /\ ppc = "wait"
  /\ IF ~closed /\ Full /\ ~plate
     THEN ppc' = "sleep" /\ UNCHANGED <<mutex, dropped>>
     ELSE /\ mutex' = "free"
          /\ IF closed \/ ~Full THEN ppc' = "closed?" /\ UNCHANGED dropped
                               ELSE ppc' = "idle" /\ dropped' = dropped + 1
  /\ UNCHANGED <<head, tail, storage, closed, watermark,
                 pcall, phead, plate, consumer, closer, sampler>>

PushSleeps ==
  /\ ppc = "sleep"
  /\ mutex' = "free"
  /\ ppc' = "asleep"
  /\ UNCHANGED <<head, tail, storage, closed, dropped, watermark,
                 pcall, phead, plate, consumer, closer, sampler>>

(* Awake without a notification: the deadline passed, or spuriously.       *)
PushWakes ==
  /\ ppc = "asleep"
  /\ \/ pcall = "timed" /\ plate' = TRUE
     \/ Spurious /\ UNCHANGED plate
  /\ ppc' = "relock"
  /\ UNCHANGED <<shared, pcall, phead, consumer, closer, sampler>>

(* The producer's thread ends: stop was requested.                         *)
ProducerEnds ==
  /\ ppc = "idle"
  /\ ppc' = "done"
  /\ UNCHANGED <<shared, pcall, phead, plate, consumer, closer, sampler>>

ProducerStep ==
  \/ PushTestsClosed \/ PushTestsRoom \/ PushWritesSlot \/ PushLocks
  \/ PushPublishes \/ PushRaisesWatermark \/ PushNotifies
  \/ PushWaitLocks \/ PushWaits \/ PushSleeps

-----------------------------------------------------------------------------
(* The consumer.                                                           *)

Pop(call) ==
  /\ cpc = "idle"
  /\ cpc' = "data?" /\ ccall' = call
  /\ clate' = FALSE
  /\ UNCHANGED <<shared, producer, ctake, cread, out, closer, sampler>>

(* The tail is read once; a batch takes what it then shows.                *)
PopTestsData(limit) ==
  /\ cpc = "data?"
  /\ ccall # "batch" => limit = 1
  /\ ctake' = IF tail - head < limit THEN tail - head ELSE limit
  /\ cread' = 0
  /\ cpc' = IF ~Empty THEN "read" ELSE IF ccall = "batch" THEN "idle" ELSE "closed?"
  /\ UNCHANGED <<shared, producer, ccall, out, clate, closer, sampler>>

(* try_pop_status looks at the flag after it found the buffer empty.       *)
PopTestsClosed ==
  /\ cpc = "closed?"
  /\ cpc' = IF closed THEN "done" ELSE IF ccall = "try" THEN "idle" ELSE "lock"
  /\ UNCHANGED <<shared, producer, ccall, ctake, cread, out, clate, closer, sampler>>

PopReadsSlot ==
  /\ cpc = "read"
  /\ out' = storage[(head + cread) % Capacity]
  /\ cread' = cread + 1
  /\ cpc' = IF cread' = ctake THEN "publishLock" ELSE "read"
  /\ UNCHANGED <<shared, producer, ccall, ctake, clate, closer, sampler>>

PopLocks ==
  /\ cpc = "publishLock"
  /\ mutex = "free"
  /\ mutex' = "consumer"
  /\ cpc' = "publish"
  /\ UNCHANGED <<head, tail, storage, closed, dropped, watermark,
                 producer, ccall, ctake, cread, out, clate, closer, sampler>>

PopPublishes ==
  /\ cpc = "publish"
  /\ head' = head + ctake
  /\ cread' = 0
  /\ mutex' = "free"
  /\ cpc' = "notify"
  /\ UNCHANGED <<tail, storage, closed, dropped, watermark,
                 producer, ccall, ctake, out, clate, closer, sampler>>

PopNotifies ==
  /\ cpc = "notify"
  /\ NotifySpace
  /\ cpc' = "idle"
  /\ UNCHANGED <<shared, pcall, phead, plate,
                 ccall, ctake, cread, out, clate, closer, sampler>>

PopWaitLocks ==
  /\ cpc \in {"lock", "relock"}
  /\ mutex = "free"
  /\ mutex' = "consumer"
  /\ cpc' = "wait"
  /\ UNCHANGED <<head, tail, storage, closed, dropped, watermark,
                 producer, ccall, ctake, cread, out, clate, closer, sampler>>

PopWaits ==
  /\ cpc = "wait"
  /\ IF ~closed /\ Empty /\ ~clate
     THEN cpc' = "sleep" /\ UNCHANGED mutex
     ELSE mutex' = "free" /\ cpc' = IF closed \/ ~Empty THEN "data?" ELSE "idle"
  /\ UNCHANGED <<head, tail, storage, closed, dropped, watermark,
                 producer, ccall, ctake, cread, out, clate, closer, sampler>>

PopSleeps ==
  /\ cpc = "sleep"
  /\ mutex' = "free"
  /\ cpc' = "asleep"
  /\ UNCHANGED <<head, tail, storage, closed, dropped, watermark,
                 producer, ccall, ctake, cread, out, clate, closer, sampler>>

PopWakes ==
  /\ cpc = "asleep"
  /\ \/ ccall = "timed" /\ clate' = TRUE
     \/ Spurious /\ UNCHANGED clate
  /\ cpc' = "relock"
  /\ UNCHANGED <<shared, producer, ccall, ctake, cread, out, closer, sampler>>

(* The consumer's thread ends without draining: its writer failed.         *)
ConsumerEnds ==
  /\ cpc = "idle"
  /\ cpc' = "stopped"
  /\ UNCHANGED <<shared, producer, ccall, ctake, cread, out, clate, closer, sampler>>

ConsumerStep ==
  \/ \E limit \in 1 .. MaxBatch : PopTestsData(limit)
  \/ PopTestsClosed \/ PopReadsSlot \/ PopLocks \/ PopPublishes \/ PopNotifies
  \/ PopWaitLocks \/ PopWaits \/ PopSleeps

-----------------------------------------------------------------------------
(* close(), and stats() from another thread.                               *)

Close ==
  /\ kpc = "idle"
  /\ kpc' = "lock"
  /\ UNCHANGED <<shared, producer, consumer, sampler>>

CloseLocks ==
  /\ kpc = "lock"
  /\ mutex = "free"
  /\ mutex' = "closer"
  /\ kpc' = "set"
  /\ UNCHANGED <<head, tail, storage, closed, dropped, watermark,
                 producer, consumer, sampler>>

CloseSets ==
  /\ kpc = "set"
  /\ closed' = TRUE
  /\ mutex' = "free"
  /\ kpc' = "notifyData"
  /\ UNCHANGED <<head, tail, storage, dropped, watermark,
                 producer, consumer, sampler>>

CloseNotifiesData ==
  /\ kpc = "notifyData"
  /\ NotifyData
  /\ kpc' = "notifySpace"
  /\ UNCHANGED <<shared, producer, ccall, ctake, cread, out, clate,
                 sampler>>

CloseNotifiesSpace ==
  /\ kpc = "notifySpace"
  /\ NotifySpace
  /\ kpc' = "done"
  /\ UNCHANGED <<shared, pcall, phead, plate, consumer, sampler>>

CloserStep == CloseLocks \/ CloseSets \/ CloseNotifiesData \/ CloseNotifiesSpace

(* stats() reads the head first: the tail can only be further on.          *)
SampleHead ==
  /\ Sampling
  /\ spc = "idle"
  /\ shead' = head
  /\ spc' = "tail"
  /\ UNCHANGED <<shared, producer, consumer, closer, sample>>

SampleTail ==
  /\ spc = "tail"
  /\ sample' = tail - shead
  /\ shead' = 0
  /\ spc' = "idle"
  /\ UNCHANGED <<shared, producer, consumer, closer>>

Sample == SampleHead \/ SampleTail

(* start() resets the buffer when no thread of an earlier run is left.     *)
Reset ==
  /\ ppc = "done" /\ cpc \in {"done", "stopped"} /\ kpc = "done" /\ spc = "idle"
  /\ head' = 0 /\ tail' = 0
  /\ closed' = FALSE
  /\ dropped' = 0 /\ watermark' = 0
  /\ ppc' = "idle" /\ cpc' = "idle" /\ kpc' = "idle"
  /\ phead' = 0 /\ ctake' = 0
  /\ out' = NoRecord /\ shead' = 0 /\ sample' = 0
  /\ UNCHANGED <<storage, mutex, pcall, plate, ccall, cread, clate, spc>>

Next ==
  \/ \E call \in Calls : Push(call)
  \/ ProducerStep \/ PushWakes \/ ProducerEnds
  \/ \E call \in Calls \cup {"batch"} : Pop(call)
  \/ ConsumerStep \/ PopWakes \/ ConsumerEnds
  \/ Close \/ CloserStep
  \/ Sample \/ Reset

(* Each thread that is inside a call goes on with it.  Making a call,      *)
(* passing a deadline and waking spuriously are never promised.            *)
Fairness ==
  /\ WF_vars(ProducerStep)
  /\ WF_vars(ConsumerStep)
  /\ WF_vars(CloserStep)

Spec == Init /\ [][Next]_vars
FairSpec == Spec /\ Fairness

-----------------------------------------------------------------------------
(* Properties                                                              *)

ProducerPc == {"idle", "closed?", "room?", "write", "publishLock", "publish",
               "watermark", "notify", "lock", "wait", "sleep", "asleep", "relock", "done"}
ConsumerPc == {"idle", "data?", "closed?", "read", "publishLock", "publish",
               "notify", "lock", "wait", "sleep", "asleep", "relock", "done", "stopped"}
CloserPc   == {"idle", "lock", "set", "notifyData", "notifySpace", "done"}

(* Every variable keeps its type.                                          *)
TypeOK ==
  /\ head \in Nat /\ tail \in Nat
  /\ storage \in [Index -> Nat \cup {NoRecord}]
  /\ closed \in BOOLEAN /\ mutex \in Thread \cup {"free"}
  /\ dropped \in Nat /\ watermark \in Nat
  /\ ppc \in ProducerPc /\ pcall \in Calls \cup {"try"}
  /\ phead \in Nat /\ plate \in BOOLEAN
  /\ cpc \in ConsumerPc /\ ccall \in Calls \cup {"try", "batch"}
  /\ ctake \in Nat /\ cread \in Nat
  /\ out \in Nat \cup {NoRecord} /\ clate \in BOOLEAN
  /\ kpc \in CloserPc
  /\ spc \in {"idle", "tail"} /\ shead \in Nat /\ sample \in Int

(* The ring never holds more than its capacity, and every record between   *)
(* the cursors is still in its slot: none is overwritten before it is read.*)
WindowIntact ==
  /\ head <= tail /\ tail <= head + Capacity
  /\ \A i \in head .. tail - 1 : storage[i % Capacity] = i

(* The producer never writes the slot that the consumer is reading: the    *)
(* plain accesses to storage_ do not race.                                 *)
NoSlotRace ==
  ~ /\ ppc = "write" /\ cpc = "read"
    /\ tail % Capacity = (head + cread) % Capacity

(* The consumer reads each record once, in the order they were pushed, a   *)
(* batch's one after the other, and never one that was not published.      *)
ReadsInOrder ==
  /\ out = head + cread - 1
  /\ out < tail

(* "blocking calls cannot miss a wake-up": a thread asleep although its    *)
(* condition holds has a notification still to come.                       *)
NoLostWakeup ==
  /\ cpc = "asleep" /\ ~Empty =>
       ppc \in {"watermark", "notify"} \/ kpc = "notifyData"
  /\ cpc = "asleep" /\ closed => kpc = "notifyData"
  /\ ppc = "asleep" /\ ~Full =>
       cpc = "notify" \/ kpc \in {"notifyData", "notifySpace"}
  /\ ppc = "asleep" /\ closed => kpc \in {"notifyData", "notifySpace"}

(* The high watermark is computed from a head that may be old: it is never *)
(* below the occupancy reached, and never above the capacity.              *)
WatermarkSound ==
  /\ ppc # "watermark" => tail - head <= watermark
  /\ watermark <= Capacity

(* A sampled size is never the wrapped-around negative difference of two   *)
(* cursors that moved between the two loads.                               *)
SampleNotWrapped == sample >= 0

Fifo == INSTANCE BoundedFifo WITH
  queue <- [i \in 1 .. tail - head |-> storage[(head + i - 1) % Capacity]],
  sent  <- tail

(* The ring and its threads implement the bounded queue.                   *)
ImplementsFifo == Fifo!Spec

(* A blocking call does not sleep through what it waits for, and close()   *)
(* lets every call return, without help of deadlines or spurious wake-ups. *)
WaitersProceed ==
  /\ cpc = "asleep" /\ ~Empty ~> cpc # "asleep"
  /\ ppc = "asleep" /\ ~Full ~> ppc # "asleep"

CallsReturnOnceClosed ==
  /\ closed ~> ppc \in {"idle", "done"}
  /\ closed ~> cpc \in {"idle", "done", "stopped"}

=============================================================================
