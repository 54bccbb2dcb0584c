---------------------------- MODULE ZipperProofs ----------------------------
(***************************************************************************)
(* What the zipper guarantees for every number of devices, every size of   *)
(* its registry and its queue, and every stream of trigger numbers: as     *)
(* long as it has logged nothing, what it saved is whole and saved once.   *)
(***************************************************************************)
EXTENDS Zipper, SequenceTheorems, TLAPS

(* What surrounds the data, which most actions leave alone. *)
core == <<input, store, saved, log>>

LEMMA HashInSlot ==
  ASSUME NEW e \in Nat
  PROVE  event_id_hash(e) \in Slot
  BY ZipperAssumption DEF event_id_hash, Slot

-----------------------------------------------------------------------------
(* Types *)

LEMMA TypeInit == Init => TypeOK
<1> SUFFICES ASSUME Init PROVE TypeOK
  OBVIOUS
<1>1. streams \in [Device -> Seq(Nat)] /\ announced \in Seq(Seq(RunInfo) \ {<< >>})
  BY ZipperAssumption DEF Init
<1>2. event_registry \in [Slot -> EventRecord]
  BY DEF Init, EventRecord
<1>3. run_info \in RunInfo /\ fout \in File
  BY DEF Init, RunInfo, File, OutFile
<1>4. arrived \in [Device -> Nat] /\ last_seen_event \in [Device -> Nat]
  BY DEF Init
<1>5. \A d \in Device : arrived[d] <= Len(streams[d])
  BY <1>1, LenProperties DEF Init
<1>6. /\ event_ready_queue \in Seq(Nat) /\ Len(event_ready_queue) <= QUEUE_LENGTH
      /\ run_reply \in Seq(RunInfo)
      /\ saved \in Seq([trig_number : Nat, device_mask : SUBSET Device,
                        data : [COMPLETE_EVENT_MASK -> Nat], file : File])
  BY EmptySeq, ZipperAssumption DEF Init
<1>7. freed \in SUBSET (Device \X Nat) /\ log \in SUBSET Warning
  BY DEF Init
<1> QED
  BY <1>1, <1>2, <1>3, <1>4, <1>5, <1>6, <1>7 DEF Init, TypeOK, PC

LEMMA TypeOfArrival ==
  ASSUME TypeOK, NEW d \in Device, Arrival(d)
  PROVE  /\ arrived' \in [Device -> Nat]
         /\ \A c \in Device : arrived'[c] <= Len(streams[c])
         /\ \A c \in Device : arrived'[c] >= arrived[c]
         /\ arrived'[d] = Place(d)
         /\ Place(d) \in Nat \ {0}
         /\ Place(d) = arrived[d] + 1
         /\ Number(d) \in Nat
         /\ Place(d) \in DOMAIN streams[d]
<1>1. arrived[d] \in Nat /\ streams[d] \in Seq(Nat)
  BY DEF TypeOK
<1> QED
  BY <1>1, SMTT(30) DEF Arrival, TypeOK, Place, Number

LEMMA TypeOfRegister ==
  ASSUME TypeOK, NEW d \in Device, RegisterWaveform(d)
  PROVE  TypeOK'
<1> DEFINE e == Number(d)
           h == event_id_hash(e)
           r == event_registry[h]
<1>1. Arrival(d)
  BY DEF RegisterWaveform
<1>2. /\ arrived' \in [Device -> Nat]
      /\ \A c \in Device : arrived'[c] <= Len(streams[c])
      /\ e \in Nat /\ Place(d) \in Nat
  BY <1>1, TypeOfArrival
<1>3. h \in Slot
  BY <1>2, HashInSlot
<1>4. r \in EventRecord
  BY <1>3 DEF TypeOK
<1>5. Registered(r, d, e) \in EventRecord
  BY <1>2, <1>4 DEF Registered, EventRecord
<1>6. event_registry' \in [Slot -> EventRecord]
  BY <1>5 DEF RegisterWaveform, TypeOK
<1>7. last_seen_event' \in [Device -> Nat]
  BY <1>2 DEF RegisterWaveform, TypeOK
<1>8. /\ event_ready_queue' \in Seq(Nat)
      /\ Len(event_ready_queue') <= QUEUE_LENGTH
  <2>1. CASE Completes(r, d, e) /\ ~QueueFull
    <3>1. event_ready_queue' = Append(event_ready_queue, e)
      BY <2>1 DEF RegisterWaveform
    <3> QED
      BY <2>1, <3>1, <1>2, ZipperAssumption DEF QueueFull, TypeOK
  <2>2. CASE ~(Completes(r, d, e) /\ ~QueueFull)
    BY <2>2 DEF RegisterWaveform, TypeOK
  <2> QED
    BY <2>1, <2>2
<1>9. log' \in SUBSET Warning
  <2> HIDE DEF e, h, r
  <2>1. /\ {"skipped backwards"} \subseteq Warning
        /\ {"hash collision"} \subseteq Warning
        /\ {"queue full"} \subseteq Warning
        /\ log \subseteq Warning
    BY DEF Warning, TypeOK
  <2> QED
    BY <2>1, Zenon DEF RegisterWaveform
<1> QED
  BY <1>2, <1>6, <1>7, <1>8, <1>9
     DEF RegisterWaveform, Arrival, TypeOK, signals, runs, output

LEMMA PoppedType ==
  ASSUME TypeOK, Pop
  PROVE  /\ Popped \in Nat
         /\ Len(event_ready_queue) \in 1 .. QUEUE_LENGTH
         /\ event_ready_queue' \in Seq(Nat)
         /\ Len(event_ready_queue') = Len(event_ready_queue) - 1
         /\ \A i \in 1 .. Len(event_ready_queue) - 1 :
              event_ready_queue'[i] = event_ready_queue[i]
         /\ event_id_hash(Popped) \in Slot
         /\ PoppedRecord \in EventRecord
<1>1. Len(event_ready_queue) \in 1 .. QUEUE_LENGTH
  BY EmptySeq, ZipperAssumption DEF Pop, TypeOK
<1>2. Popped \in Nat
  BY <1>1 DEF Popped, TypeOK
<1>3. /\ event_ready_queue' \in Seq(Nat)
      /\ Len(event_ready_queue') = Len(event_ready_queue) - 1
      /\ \A i \in 1 .. Len(event_ready_queue) - 1 :
           event_ready_queue'[i] = event_ready_queue[i]
  <2> DEFINE n == Len(event_ready_queue) - 1
  <2>1. n \in Int /\ \A i \in 1 .. n : event_ready_queue[i] \in Nat
    BY <1>1, ElementOfSeq DEF TypeOK
  <2>2. event_ready_queue' = SubSeq(event_ready_queue, 1, n)
    BY DEF Pop
  <2>3. /\ SubSeq(event_ready_queue, 1, n) \in Seq(Nat)
        /\ Len(SubSeq(event_ready_queue, 1, n)) = IF 1 <= n THEN n - 1 + 1 ELSE 0
        /\ \A i \in 1 .. n - 1 + 1 :
             SubSeq(event_ready_queue, 1, n)[i] = event_ready_queue[1 + i - 1]
    <3> HIDE DEF n
    <3> QED
      BY <2>1, SubSeqProperties
  <2>4. n \in Nat
    BY <1>1, ZipperAssumption
  <2> HIDE DEF n
  <2>5. Len(event_ready_queue') = n
    BY <2>2, <2>3, <2>4
  <2>6. \A i \in 1 .. n : event_ready_queue'[i] = event_ready_queue[i]
    BY <2>2, <2>3, <2>4
  <2> QED
    BY <2>2, <2>3, <2>5, <2>6 DEF n
<1>4. event_id_hash(Popped) \in Slot
  BY <1>2, HashInSlot
<1>5. PoppedRecord \in EventRecord
  BY <1>4 DEF PoppedRecord, TypeOK
<1> QED
  BY <1>1, <1>2, <1>3, <1>4, <1>5

LEMMA TypeOfSave ==
  ASSUME TypeOK, SaveAndFree
  PROVE  /\ event_registry' \in [Slot -> EventRecord]
         /\ event_ready_queue' \in Seq(Nat)
         /\ Len(event_ready_queue') <= QUEUE_LENGTH
         /\ freed' \in SUBSET (Device \X Nat)
         /\ saved' \in Seq([trig_number : Nat, device_mask : SUBSET Device,
                            data : [COMPLETE_EVENT_MASK -> Nat], file : File])
         /\ InFile \in Nat
<1>1. Pop
  BY DEF SaveAndFree
<1>2. /\ Popped \in Nat
      /\ PoppedRecord \in EventRecord
      /\ event_ready_queue' \in Seq(Nat)
      /\ Len(event_ready_queue') <= QUEUE_LENGTH
  BY <1>1, PoppedType, ZipperAssumption
<1>3. SlotCleared(PoppedRecord) \in EventRecord
  BY <1>2 DEF SlotCleared, EventRecord
<1>4. event_registry' \in [Slot -> EventRecord]
  BY <1>3 DEF SaveAndFree, TypeOK, PoppedRecord
<1>5. Waveforms \in SUBSET (Device \X Nat)
  BY <1>2, ZipperAssumption DEF Waveforms, EventRecord
<1>6. freed' \in SUBSET (Device \X Nat)
  BY <1>5 DEF SaveAndFree, TypeOK, Freed
<1>7. [d \in COMPLETE_EVENT_MASK |-> PoppedRecord.data[d]]
        \in [COMPLETE_EVENT_MASK -> Nat]
  BY <1>2, ZipperAssumption DEF EventRecord
<1>8. PoppedRecord.bit_word \in SUBSET Device
  BY <1>2 DEF EventRecord
<1>9. saved' \in Seq([trig_number : Nat, device_mask : SUBSET Device,
                      data : [COMPLETE_EVENT_MASK -> Nat], file : File])
  <2> DEFINE Saved == [trig_number : Nat, device_mask : SUBSET Device,
                       data : [COMPLETE_EVENT_MASK -> Nat], file : File]
             new == [trig_number |-> Popped,
                     device_mask |-> PoppedRecord.bit_word,
                     data        |-> [d \in COMPLETE_EVENT_MASK |->
                                        PoppedRecord.data[d]],
                     file        |-> fout]
  <2>1. saved \in Seq(Saved) /\ fout \in File
    BY DEF TypeOK
  <2>2. new \in Saved
    BY <1>2, <1>7, <1>8, <2>1
  <2>3. saved' = IF fout = NoFile THEN saved ELSE Append(saved, new)
    BY DEF SaveAndFree, Written
  <2> HIDE DEF Saved, new
  <2>4. saved' \in Seq(Saved)
    BY <2>1, <2>2, <2>3, AppendProperties
  <2> QED
    BY <2>4 DEF Saved
<1>10. InFile \in Nat
  BY DEF InFile, TypeOK
<1> QED
  BY <1>2, <1>4, <1>6, <1>9, <1>10

LEMMA TypeStep == TypeOK /\ [Next]_vars => TypeOK'
<1> SUFFICES ASSUME TypeOK, [Next]_vars PROVE TypeOK'
  OBVIOUS
<1>1. CASE UNCHANGED vars
  BY <1>1 DEF TypeOK, vars, input, store, signals, runs, output
<1>2. CASE Loop
  BY <1>2 DEF Loop, TypeOK, PC, input, store, signals, runs, output
<1>3. ASSUME NEW d \in Device, TossWaveform(d)
      PROVE  TypeOK'
  <2>1. Arrival(d)
    BY <1>3 DEF TossWaveform
  <2>2. /\ arrived' \in [Device -> Nat]
        /\ \A c \in Device : arrived'[c] <= Len(streams[c])
        /\ Place(d) \in Nat
    BY <2>1, TypeOfArrival
  <2>3. freed' \in SUBSET (Device \X Nat)
    BY <1>3, <2>2 DEF TossWaveform, TypeOK
  <2> QED
    BY <1>3, <2>2, <2>3 DEF TossWaveform, TypeOK, signals, runs, output
<1>4. ASSUME NEW d \in Device, RegisterWaveform(d)
      PROVE  TypeOK'
  BY <1>4, TypeOfRegister
<1>5. CASE ReceiveDone \/ NoRunInfo \/ NothingToSave
  BY <1>5 DEF ReceiveDone, NoRunInfo, NothingToSave, TypeOK, PC,
              input, store, signals, runs, output
<1>6. CASE NewRunInfo
  <2>1. run_reply' \in Seq(RunInfo)
    BY <1>6, EmptySeq DEF NewRunInfo
  <2>2. run_info' \in RunInfo
    <3>1. RunOf(run_reply) \in RunInfo
      BY <1>6, HeadTailProperties DEF NewRunInfo, RunOf, TypeOK
    <3> QED
      BY <1>6, <3>1, Zenon DEF NewRunInfo, TypeOK
  <2>3. start_new_run' \in BOOLEAN
    BY <1>6, Zenon DEF NewRunInfo, TypeOK
  <2> QED
    BY <1>6, <2>1, <2>2, <2>3
       DEF NewRunInfo, TypeOK, PC, input, store, signals, output
<1>7. CASE AnnounceRuns
  <2>1. announced' \in Seq(Seq(RunInfo) \ {<< >>})
    BY <1>7, EmptySeq DEF AnnounceRuns, TypeOK
  <2>2. run_reply' \in Seq(RunInfo)
    <3>1. Head(announced) \in Seq(RunInfo)
      BY <1>7, EmptySeq DEF AnnounceRuns, TypeOK
    <3> QED
      BY <1>7, <3>1, Zenon DEF AnnounceRuns, TypeOK
  <2> QED
    BY <1>7, <2>1, <2>2 DEF AnnounceRuns, TypeOK, input, store, signals, output
<1>8. CASE UseAfterFree
  <2>1. Pop
    BY <1>8 DEF UseAfterFree
  <2>2. Len(event_ready_queue') <= QUEUE_LENGTH /\ event_ready_queue' \in Seq(Nat)
    BY <2>1, PoppedType, ZipperAssumption
  <2> QED
    BY <1>8, <2>2
       DEF UseAfterFree, TypeOK, PC, input, signals, runs, output
<1>9. CASE SaveFails
  <2>1. Pop
    BY <1>9 DEF SaveFails
  <2>2. log' \in SUBSET Warning
    <3>1. log \subseteq Warning /\ {"write error"} \subseteq Warning
      BY DEF TypeOK, Warning
    <3> QED
      BY <1>9, <3>1, Zenon DEF SaveFails
  <2>3. Len(event_ready_queue') <= QUEUE_LENGTH /\ event_ready_queue' \in Seq(Nat)
    BY <2>1, PoppedType, ZipperAssumption
  <2>4. failures' \in Nat /\ loop' \in BOOLEAN /\ pc' \in PC
    <3>1. failures' = failures + 1 /\ failures \in Nat
      BY <1>9 DEF SaveFails, TypeOK
    <3>2. loop' = FALSE /\ pc' = "loop"
      BY <1>9 DEF SaveFails
    <3>3. failures' \in Nat
      BY <3>1
    <3>4. loop' \in BOOLEAN /\ pc' \in PC
      BY <3>2, Zenon DEF PC
    <3> QED
      BY <3>3, <3>4
  <2> QED
    BY <1>9, <2>2, <2>3, <2>4
       DEF SaveFails, TypeOK, PC, input, runs
<1>10. CASE SaveEvent
  <2>1. SaveAndFree
    BY <1>10 DEF SaveEvent
  <2> QED
    BY <1>10, <2>1, TypeOfSave
       DEF SaveEvent, SaveAndFree, TypeOK, PC, input, signals
<1>11. CASE SaveEventAndRotate
  <2>1. SaveAndFree
    BY <1>11 DEF SaveEventAndRotate
  <2>2. NextRun \in RunInfo
    <3>1. run_info.run_number \in Int /\ run_info.sub_run + 1 \in Nat
      BY DEF RunInfo, TypeOK
    <3>2. \A r \in RunInfo : \A n \in Nat : [r EXCEPT !.sub_run = n] \in RunInfo
      BY DEF RunInfo
    <3>3. run_info \in RunInfo
      BY DEF TypeOK
    <3> QED
      BY <3>1, <3>2, <3>3, Zenon DEF NextRun
  <2>3. NamedFile(NextRun) \in File /\ NullFile \in File /\ NoFile \in File
    BY <2>2 DEF NamedFile, NullFile, NoFile, File, RunInfo
  <2>4. fout' \in File
    BY <1>11, <2>3, Zenon DEF SaveEventAndRotate
  <2>5. failures' \in Nat /\ log' \in SUBSET Warning
    <3>1. log \subseteq Warning /\ {"cannot open"} \subseteq Warning
      BY DEF TypeOK, Warning
    <3>2. log' \in SUBSET Warning
      BY <1>11, <3>1, Zenon DEF SaveEventAndRotate
    <3>3. failures' \in Nat
      <4>1. failures' = failures \/ failures' = failures + 1
        BY <1>11, Zenon DEF SaveEventAndRotate
      <4>2. failures \in Nat
        BY DEF TypeOK
      <4> QED
        BY <4>1, <4>2
    <3> QED
      BY <3>2, <3>3
  <2>6. run_info' \in RunInfo
    BY <1>11, <2>2 DEF SaveEventAndRotate
  <2> QED
    BY <1>11, <2>1, <2>4, <2>5, <2>6, TypeOfSave
       DEF SaveEventAndRotate, SaveAndFree, TypeOK, PC, input, signals
<1>12. CASE ClosesNoFile
  <2>1. SaveAndFree
    BY <1>12 DEF ClosesNoFile
  <2> QED
    BY <1>12, <2>1, TypeOfSave
       DEF ClosesNoFile, SaveAndFree, TypeOK, PC, input, signals
<1>13. CASE Signal
  <2>1. pc' \in PC
    BY <1>13, Zenon DEF Signal, TypeOK, PC
  <2>2. num_kills' \in Nat
    BY <1>13 DEF Signal, TypeOK
  <2>3. loop' \in BOOLEAN
    BY <1>13 DEF Signal
  <2> QED
    BY <1>13, <2>1, <2>2, <2>3
       DEF Signal, TypeOK, input, store, runs, output
<1> QED
  BY <1>1, <1>2, <1>3, <1>4, <1>5, <1>6, <1>7, <1>8, <1>9, <1>10, <1>11, <1>12,
     <1>13 DEF Next, Receive, Save

-----------------------------------------------------------------------------
(* What is in the slots *)

(* Data in a slot was received and belongs there by its number. *)
DataInSlot ==
  \A h \in Slot : \A d \in Device :
    LET n == event_registry[h].data[d]
    IN  /\ n <= arrived[d]
        /\ n /= 0 => event_id_hash(streams[d][n]) = h

(* Only what was received has been freed. *)
FreedArrived == \A d \in Device, n \in Nat : <<d, n>> \in freed => n <= arrived[d]

SlotInv == BitWordVouches /\ DataInSlot /\ FreedArrived

LEMMA RecordType ==
  ASSUME TypeOK, NEW h \in Slot
  PROVE  /\ event_registry[h].bit_word \subseteq Device
         /\ event_registry[h].event_number \in Nat
         /\ \A d \in Device : event_registry[h].data[d] \in Nat
  BY DEF TypeOK, EventRecord

LEMMA SlotInit == Init => SlotInv
<1> SUFFICES ASSUME Init PROVE SlotInv
  OBVIOUS
<1>1. \A h \in Slot : /\ event_registry[h].bit_word = {}
                      /\ \A d \in Device : event_registry[h].data[d] = 0
  BY DEF Init
<1>2. BitWordVouches
  BY <1>1, Zenon DEF BitWordVouches
<1>3. DataInSlot
  BY <1>1 DEF DataInSlot, Init
<1>4. FreedArrived
  BY DEF FreedArrived, Init
<1> QED
  BY <1>2, <1>3, <1>4 DEF SlotInv

(* The slots after a waveform was registered. *)
LEMMA RegisteredSlots ==
  ASSUME TypeOK, NEW d \in Device, RegisterWaveform(d),
         NEW h \in Slot
  PROVE  LET r == event_registry[h]
             q == event_registry'[h]
         IN  /\ h /= event_id_hash(Number(d)) => q = r
             /\ h = event_id_hash(Number(d)) =>
                  /\ q.event_number = Number(d)
                  /\ q.bit_word = IF Joins(r, Number(d)) THEN r.bit_word \cup {d}
                                  ELSE {d}
                  /\ q.data[d] = Place(d)
                  /\ \A c \in Device : c /= d => q.data[c] = r.data[c]
<1> DEFINE e == Number(d)
           g == event_id_hash(e)
           r == event_registry[h]
<1>1. Arrival(d)
  BY DEF RegisterWaveform
<1>2. e \in Nat
  BY <1>1, TypeOfArrival
<1>3. g \in Slot
  BY <1>2, HashInSlot
<1>4. event_registry' = [event_registry EXCEPT ![g] = Registered(event_registry[g], d, e)]
  BY DEF RegisterWaveform
<1>5. event_registry \in [Slot -> EventRecord]
  BY DEF TypeOK
<1>6. h /= g => event_registry'[h] = r
  BY <1>3, <1>4, <1>5
<1>7. h = g => event_registry'[h] = Registered(r, d, e)
  BY <1>3, <1>4, <1>5
<1>8. r \in EventRecord
  BY <1>5
<1>9. /\ Registered(r, d, e).event_number = e
      /\ Registered(r, d, e).bit_word = IF Joins(r, e) THEN r.bit_word \cup {d}
                                        ELSE {d}
      /\ Registered(r, d, e).data = [r.data EXCEPT ![d] = Place(d)]
  BY DEF Registered
<1>10. r.data \in [Device -> Nat]
  BY <1>8 DEF EventRecord
<1> HIDE DEF e, g, r
<1>11. /\ Registered(r, d, e).data[d] = Place(d)
       /\ \A c \in Device : c /= d => Registered(r, d, e).data[c] = r.data[c]
  BY <1>9, <1>10
<1> QED
  BY <1>6, <1>7, <1>9, <1>11 DEF e, g, r

(* The slots after an event was saved and freed. *)
LEMMA SavedSlots ==
  ASSUME TypeOK, SaveAndFree, NEW h \in Slot
  PROVE  LET r == event_registry[h]
             q == event_registry'[h]
         IN  /\ h /= event_id_hash(Popped) => q = r
             /\ h = event_id_hash(Popped) =>
                  /\ q.bit_word = {}
                  /\ q.data = r.data
                  /\ r = PoppedRecord
<1>1. Pop
  BY DEF SaveAndFree
<1>2. event_id_hash(Popped) \in Slot
  BY <1>1, PoppedType
<1>3. event_registry' = [event_registry EXCEPT
                           ![event_id_hash(Popped)] =
                             SlotCleared(event_registry[event_id_hash(Popped)])]
  BY DEF SaveAndFree
<1>4. event_registry \in [Slot -> EventRecord]
  BY DEF TypeOK
<1>5. \A r \in EventRecord : /\ SlotCleared(r).bit_word = {}
                             /\ SlotCleared(r).data = r.data
  BY DEF SlotCleared, EventRecord
<1>6. h /= event_id_hash(Popped) => event_registry'[h] = event_registry[h]
  BY <1>2, <1>3, <1>4
<1>7. h = event_id_hash(Popped) =>
        event_registry'[h] = SlotCleared(event_registry[h])
  BY <1>2, <1>3, <1>4
<1> QED
  BY <1>4, <1>5, <1>6, <1>7 DEF PoppedRecord

LEMMA SlotStepToss ==
  ASSUME TypeOK, SlotInv, NEW d \in Device, TossWaveform(d)
  PROVE  SlotInv'
<1>1. Arrival(d)
  BY DEF TossWaveform
<1>2. /\ arrived' \in [Device -> Nat]
      /\ \A c \in Device : arrived'[c] >= arrived[c]
      /\ arrived'[d] = Place(d)
      /\ Place(d) = arrived[d] + 1
  BY <1>1, TypeOfArrival
<1>3. /\ event_registry' = event_registry
      /\ streams' = streams
      /\ freed' = freed \cup {<<d, Place(d)>>}
  BY DEF TossWaveform
<1>4. arrived \in [Device -> Nat]
  BY DEF TypeOK
<1>5. BitWordVouches'
  <2> SUFFICES ASSUME NEW h \in Slot,
                      NEW c \in event_registry[h].bit_word
               PROVE  /\ event_registry[h].data[c] \in 1 .. arrived'[c]
                      /\ streams[c][event_registry[h].data[c]]
                           = event_registry[h].event_number
                      /\ <<c, event_registry[h].data[c]>> \notin freed'
    BY <1>3, Zenon DEF BitWordVouches
  <2>1. c \in Device
    BY RecordType
  <2>2. /\ event_registry[h].data[c] \in 1 .. arrived[c]
        /\ streams[c][event_registry[h].data[c]] = event_registry[h].event_number
        /\ <<c, event_registry[h].data[c]>> \notin freed
    BY DEF SlotInv, BitWordVouches
  <2>3. event_registry[h].data[c] \in 1 .. arrived'[c]
    BY <1>2, <1>4, <2>1, <2>2
  <2>4. <<c, event_registry[h].data[c]>> /= <<d, Place(d)>>
    BY <1>2, <1>4, <2>1, <2>2
  <2> QED
    BY <1>3, <2>2, <2>3, <2>4
<1>6. DataInSlot'
  <2> SUFFICES ASSUME NEW h \in Slot, NEW c \in Device
               PROVE  /\ event_registry[h].data[c] <= arrived'[c]
                      /\ event_registry[h].data[c] /= 0 =>
                           event_id_hash(streams[c][event_registry[h].data[c]]) = h
    BY <1>3 DEF DataInSlot, event_id_hash
  <2>1. /\ event_registry[h].data[c] <= arrived[c]
        /\ event_registry[h].data[c] /= 0 =>
             event_id_hash(streams[c][event_registry[h].data[c]]) = h
    BY DEF SlotInv, DataInSlot
  <2> QED
    BY <1>2, <1>4, <2>1, RecordType
<1>7. FreedArrived'
  <2> SUFFICES ASSUME NEW c \in Device, NEW n \in Nat, <<c, n>> \in freed'
               PROVE  n <= arrived'[c]
    BY DEF FreedArrived
  <2>1. CASE <<c, n>> \in freed
    BY <1>2, <1>4, <2>1 DEF SlotInv, FreedArrived
  <2>2. CASE <<c, n>> = <<d, Place(d)>>
    BY <1>2, <1>4, <2>2
  <2> QED
    BY <1>3, <2>1, <2>2
<1> QED
  BY <1>5, <1>6, <1>7 DEF SlotInv

LEMMA SlotStepRegister ==
  ASSUME TypeOK, SlotInv, NEW d \in Device, RegisterWaveform(d)
  PROVE  SlotInv'
<1> DEFINE e == Number(d)
           g == event_id_hash(e)
<1>1. Arrival(d) /\ UNCHANGED <<streams, freed>>
  BY DEF RegisterWaveform
<1>2. /\ arrived' \in [Device -> Nat]
      /\ \A c \in Device : arrived'[c] >= arrived[c]
      /\ arrived'[d] = Place(d)
      /\ Place(d) = arrived[d] + 1
      /\ Place(d) \in Nat \ {0}
      /\ e \in Nat
  BY <1>1, TypeOfArrival
<1>3. arrived \in [Device -> Nat]
  BY DEF TypeOK
<1>4. streams[d][Place(d)] = e
  BY DEF Number
<1>5. <<d, Place(d)>> \notin freed
  BY <1>2, <1>3 DEF SlotInv, FreedArrived
<1>6. BitWordVouches'
  <2> SUFFICES ASSUME NEW h \in Slot,
                      NEW c \in event_registry'[h].bit_word
               PROVE  /\ event_registry'[h].data[c] \in 1 .. arrived'[c]
                      /\ streams[c][event_registry'[h].data[c]]
                           = event_registry'[h].event_number
                      /\ <<c, event_registry'[h].data[c]>> \notin freed
    BY <1>1, Zenon DEF BitWordVouches
  <2> DEFINE r == event_registry[h]
             q == event_registry'[h]
  <2>1. c \in r.bit_word =>
          /\ c \in Device
          /\ r.data[c] \in 1 .. arrived'[c]
          /\ streams[c][r.data[c]] = r.event_number
          /\ <<c, r.data[c]>> \notin freed
    BY <1>2, <1>3, RecordType DEF SlotInv, BitWordVouches
  <2>2. CASE h /= g
    <3>1. q = r
      BY <2>2, RegisteredSlots
    <3> QED
      BY <2>1, <3>1
  <2>3. CASE h = g
    <3> HIDE DEF r, q
    <3>1. /\ q.event_number = e
          /\ q.bit_word = IF Joins(r, e) THEN r.bit_word \cup {d} ELSE {d}
          /\ q.data[d] = Place(d)
          /\ \A b \in Device : b /= d => q.data[b] = r.data[b]
      BY <2>3, RegisteredSlots DEF r, q
    <3>2. CASE c = d
      BY <1>2, <1>4, <1>5, <3>1, <3>2 DEF q
    <3>3. CASE c /= d
      <4>1. Joins(r, e) /\ c \in r.bit_word
        BY <3>1, <3>3 DEF q
      <4>2. r.event_number = e
        BY <4>1 DEF Joins
      <4>3. q.data[c] = r.data[c]
        BY <2>1, <3>1, <3>3, <4>1
      <4> QED
        BY <2>1, <3>1, <4>1, <4>2, <4>3 DEF q
    <3> QED
      BY <3>2, <3>3
  <2> QED
    BY <2>2, <2>3
<1>7. DataInSlot'
  <2> SUFFICES ASSUME NEW h \in Slot, NEW c \in Device
               PROVE  /\ event_registry'[h].data[c] <= arrived'[c]
                      /\ event_registry'[h].data[c] /= 0 =>
                           event_id_hash(streams[c][event_registry'[h].data[c]]) = h
    BY <1>1 DEF DataInSlot, event_id_hash
  <2>1. /\ event_registry[h].data[c] \in Nat
        /\ event_registry[h].data[c] <= arrived[c]
        /\ event_registry[h].data[c] /= 0 =>
             event_id_hash(streams[c][event_registry[h].data[c]]) = h
    BY RecordType DEF SlotInv, DataInSlot
  <2>2. event_registry[h].data[c] <= arrived'[c]
    BY <1>2, <1>3, <2>1
  <2>3. \/ event_registry'[h].data[c] = event_registry[h].data[c]
        \/ h = g /\ c = d /\ event_registry'[h].data[c] = Place(d)
    <3>1. CASE h /= g
      BY <3>1, RegisteredSlots
    <3>2. CASE h = g /\ c /= d
      BY <3>2, RegisteredSlots
    <3>3. CASE h = g /\ c = d
      BY <3>3, RegisteredSlots
    <3> QED
      BY <3>1, <3>2, <3>3
  <2> QED
    BY <1>2, <1>4, <2>1, <2>2, <2>3
<1>8. FreedArrived'
  BY <1>1, <1>2, <1>3 DEF SlotInv, FreedArrived
<1> QED
  BY <1>6, <1>7, <1>8 DEF SlotInv

LEMMA SlotStepSave ==
  ASSUME TypeOK, SlotInv, SaveAndFree
  PROVE  SlotInv'
<1> DEFINE g == event_id_hash(Popped)
<1>1. Pop /\ UNCHANGED <<streams, arrived>> /\ freed' = freed \cup Waveforms
  BY DEF SaveAndFree, Freed, input
<1>2. g \in Slot /\ PoppedRecord = event_registry[g]
  BY <1>1, PoppedType DEF PoppedRecord
<1>3. Waveforms = {<<d, event_registry[g].data[d]>> : d \in COMPLETE_EVENT_MASK}
  BY <1>2 DEF Waveforms
<1>4. COMPLETE_EVENT_MASK \subseteq Device
  BY ZipperAssumption
<1>5. BitWordVouches'
  <2> SUFFICES ASSUME NEW h \in Slot,
                      NEW c \in event_registry'[h].bit_word
               PROVE  /\ event_registry'[h].data[c] \in 1 .. arrived[c]
                      /\ streams[c][event_registry'[h].data[c]]
                           = event_registry'[h].event_number
                      /\ <<c, event_registry'[h].data[c]>> \notin freed'
    BY <1>1, Zenon DEF BitWordVouches
  <2> DEFINE n == event_registry[h].data[c]
  <2>1. h /= g /\ event_registry'[h] = event_registry[h]
    BY SavedSlots
  <2>2. /\ n \in 1 .. arrived[c]
        /\ streams[c][n] = event_registry[h].event_number
        /\ <<c, n>> \notin freed
        /\ c \in Device
    BY <2>1, RecordType DEF SlotInv, BitWordVouches
  <2>3. event_id_hash(streams[c][n]) = h
    <3>1. n /= 0
      BY <2>2
    <3> QED
      BY <2>2, <3>1 DEF SlotInv, DataInSlot
  <2>4. <<c, n>> \notin Waveforms
    <3> SUFFICES ASSUME n = event_registry[g].data[c]
                 PROVE  FALSE
      BY <1>3
    <3>1. event_registry[g].data[c] /= 0
      <4>1. event_registry[g].data[c] \in 1 .. arrived[c]
        BY <2>2
      <4> QED
        BY <4>1
    <3>2. event_id_hash(streams[c][n]) = g
      BY <1>2, <2>2, <3>1 DEF SlotInv, DataInSlot
    <3> QED
      BY <2>1, <2>3, <3>2
  <2> QED
    BY <1>1, <2>1, <2>2, <2>4
<1>6. DataInSlot'
  <2>1. \A h \in Slot : event_registry'[h].data = event_registry[h].data
    BY SavedSlots
  <2> QED
    BY <1>1, <2>1 DEF SlotInv, DataInSlot, event_id_hash
<1>7. FreedArrived'
  <2> SUFFICES ASSUME NEW c \in Device, NEW n \in Nat, <<c, n>> \in Waveforms
               PROVE  n <= arrived[c]
    BY <1>1 DEF SlotInv, FreedArrived
  <2>1. n = event_registry[g].data[c]
    BY <1>3
  <2> QED
    BY <1>2, <2>1 DEF SlotInv, DataInSlot
<1> QED
  BY <1>5, <1>6, <1>7 DEF SlotInv

LEMMA SlotStepOther ==
  ASSUME TypeOK, SlotInv, UNCHANGED <<streams, arrived, event_registry, freed>>
  PROVE  SlotInv'
  BY DEF SlotInv, BitWordVouches, DataInSlot, FreedArrived, event_id_hash

(* Every action either works on the slots or leaves them alone. *)
LEMMA Cases ==
  ASSUME [Next]_vars
  PROVE  \/ \E d \in Device : TossWaveform(d)
         \/ \E d \in Device : RegisterWaveform(d)
         \/ SaveAndFree
         \/ UNCHANGED <<streams, arrived, event_registry, freed>>
  BY DEF Next, Receive, Save, Loop, ReceiveDone, NewRunInfo, NoRunInfo,
         NothingToSave, UseAfterFree, SaveFails, SaveEvent, SaveEventAndRotate,
         ClosesNoFile, AnnounceRuns, Signal, vars, input, store

LEMMA SlotStep == TypeOK /\ SlotInv /\ [Next]_vars => SlotInv'
  BY Cases, SlotStepToss, SlotStepRegister, SlotStepSave, SlotStepOther

(* Every variable of the zipper keeps its type. *)
THEOREM TypeCorrect == Spec => []TypeOK
<1> QED
  BY TypeInit, TypeStep, PTL DEF Spec

(* Whatever the devices send, a slot's bit word vouches for its data. *)
THEOREM SlotsVouch == Spec => []BitWordVouches
<1>1. SlotInv => BitWordVouches
  BY DEF SlotInv
<1> QED
  BY <1>1, SlotInit, SlotStep, TypeCorrect, PTL DEF Spec

-----------------------------------------------------------------------------
(* As long as nothing is logged *)

(* The queue holds the numbers of complete slots, each number once. *)
QueueOfComplete ==
  /\ \A i \in DOMAIN event_ready_queue :
       LET r == event_registry[event_id_hash(event_ready_queue[i])]
       IN  /\ r.event_number = event_ready_queue[i]
           /\ r.bit_word = COMPLETE_EVENT_MASK
  /\ \A i, j \in DOMAIN event_ready_queue :
       event_ready_queue[i] = event_ready_queue[j] => i = j

(* A device in a slot's bit word has come as far as that event, and the    *)
(* event was not saved before.                                             *)
SlotsAreNew ==
  \A h \in Slot :
    LET r == event_registry[h]
    IN  /\ \A d \in r.bit_word : r.event_number <= last_seen_event[d]
        /\ r.bit_word /= {} =>
             \A i \in DOMAIN saved : saved[i].trig_number /= r.event_number

(* What was saved is whole, saved once, and behind every device. *)
SavedAreOld ==
  \A i \in DOMAIN saved :
    /\ Whole(i)
    /\ \A d \in COMPLETE_EVENT_MASK : saved[i].trig_number <= last_seen_event[d]
    /\ \A j \in DOMAIN saved :
         saved[j].trig_number = saved[i].trig_number => i = j

QuietInv ==
  log = {} =>
    /\ pc /= "undefined"
    /\ fout /= NoFile
    /\ QueueOfComplete
    /\ SlotsAreNew
    /\ SavedAreOld

LEMMA QuietInit == Init => QuietInv
<1> SUFFICES ASSUME Init PROVE QuietInv
  OBVIOUS
<1>1. \A h \in Slot : event_registry[h].bit_word = {}
  BY DEF Init
<1>2. event_ready_queue = << >> /\ saved = << >> /\ pc = "loop" /\ fout = OutFile
  BY DEF Init
<1>3. QueueOfComplete
  BY <1>2 DEF QueueOfComplete
<1>4. SlotsAreNew
  BY <1>1, <1>2, Zenon DEF SlotsAreNew
<1>5. SavedAreOld
  BY <1>2 DEF SavedAreOld
<1>6. fout /= NoFile /\ pc /= "undefined"
  BY <1>2 DEF OutFile, NoFile
<1> QED
  BY <1>3, <1>4, <1>5, <1>6, Zenon DEF QuietInv

(* A waveform that is registered without a word is the first of its device *)
(* for that event, and no event in its slot is complete.                   *)
LEMMA QuietRegister ==
  ASSUME TypeOK, SlotInv, QuietInv, MaskTestIsExact,
         NEW d \in Device, RegisterWaveform(d), log' = {}
  PROVE  LET e == Number(d)
             r == event_registry[event_id_hash(e)]
         IN  /\ log = {}
             /\ e > last_seen_event[d]
             /\ Joins(r, e)
             /\ ~(Completes(r, d, e) /\ QueueFull)
             /\ d \in COMPLETE_EVENT_MASK
             /\ d \notin r.bit_word
             /\ r.bit_word /= COMPLETE_EVENT_MASK
             /\ \A i \in DOMAIN event_ready_queue :
                  event_id_hash(event_ready_queue[i]) /= event_id_hash(e)
<1> DEFINE e == Number(d)
           g == event_id_hash(e)
           r == event_registry[g]
<1>1. Arrival(d)
  BY DEF RegisterWaveform
<1>2. e \in Nat /\ g \in Slot
  BY <1>1, TypeOfArrival, HashInSlot
<1>3. last_seen_event[d] \in Nat
  BY DEF TypeOK
<1>4. /\ log' = log
           \cup (IF e <= last_seen_event[d] THEN {"skipped backwards"} ELSE {})
           \cup (IF Joins(r, e) THEN {} ELSE {"hash collision"})
           \cup (IF Completes(r, d, e) /\ QueueFull THEN {"queue full"} ELSE {})
      /\ \E bits \in Shifted(d) : bits \cap COMPLETE_EVENT_MASK /= {}
  BY DEF RegisterWaveform
<1>5. d \in COMPLETE_EVENT_MASK
  BY <1>4, Zenon DEF MaskTestIsExact
<1> HIDE DEF e, g, r
<1>6. log = {} /\ ~(e <= last_seen_event[d]) /\ Joins(r, e)
        /\ ~(Completes(r, d, e) /\ QueueFull)
  BY <1>4
<1>7. e > last_seen_event[d]
  BY <1>2, <1>3, <1>6
<1>8. QueueOfComplete /\ SlotsAreNew
  BY <1>6 DEF QuietInv
<1>9. d \notin r.bit_word
  <2> SUFFICES ASSUME d \in r.bit_word PROVE FALSE
    OBVIOUS
  <2>1. r.event_number = e
    BY <1>6 DEF Joins
  <2>2. r.event_number <= last_seen_event[d]
    BY <1>2, <1>8 DEF SlotsAreNew, r
  <2> QED
    BY <1>2, <1>3, <1>7, <2>1, <2>2
<1>10. r.bit_word /= COMPLETE_EVENT_MASK
  BY <1>5, <1>9
<1>11. \A i \in DOMAIN event_ready_queue : event_id_hash(event_ready_queue[i]) /= g
  BY <1>8, <1>10 DEF QueueOfComplete, r
<1> QED
  BY <1>5, <1>6, <1>7, <1>9, <1>10, <1>11 DEF e, g, r

LEMMA SavedType ==
  ASSUME TypeOK, NEW i \in DOMAIN saved
  PROVE  saved[i].trig_number \in Nat
<1> DEFINE Saved == [trig_number : Nat, device_mask : SUBSET Device,
                     data : [COMPLETE_EVENT_MASK -> Nat], file : File]
<1>1. saved \in Seq(Saved)
  BY DEF TypeOK
<1>2. \A s \in Saved : s.trig_number \in Nat
  OBVIOUS
<1> HIDE DEF Saved
<1>3. i \in 1 .. Len(saved)
  BY <1>1
<1>4. saved[i] \in Saved
  BY <1>1, <1>3, ElementOfSeq
<1> QED
  BY <1>2, <1>4

LEMMA QuietStepRegister ==
  ASSUME TypeOK, SlotInv, QuietInv, MaskTestIsExact,
         NEW d \in Device, RegisterWaveform(d)
  PROVE  QuietInv'
<1> SUFFICES ASSUME log' = {}
             PROVE  /\ pc' /= "undefined" /\ fout' /= NoFile
                    /\ QueueOfComplete' /\ SlotsAreNew' /\ SavedAreOld'
  BY Zenon DEF QuietInv, NoFile
<1> DEFINE e == Number(d)
           g == event_id_hash(e)
           r == event_registry[g]
           old == event_ready_queue
<1>1. Arrival(d) /\ UNCHANGED <<streams, pc, fout, saved>>
  BY DEF RegisterWaveform, output
<1>2. e \in Nat /\ g \in Slot
  BY <1>1, TypeOfArrival, HashInSlot
<1>3. /\ log = {}
      /\ e > last_seen_event[d]
      /\ Joins(r, e)
      /\ ~(Completes(r, d, e) /\ QueueFull)
      /\ d \in COMPLETE_EVENT_MASK
      /\ \A i \in DOMAIN old : event_id_hash(old[i]) /= g
  BY QuietRegister
<1>4. /\ pc /= "undefined" /\ fout /= NoFile
      /\ QueueOfComplete /\ SlotsAreNew /\ SavedAreOld
  BY <1>3, Zenon DEF QuietInv
<1>5. /\ last_seen_event \in [Device -> Nat]
      /\ last_seen_event' = [last_seen_event EXCEPT ![d] = e]
  BY DEF TypeOK, RegisterWaveform
<1>6. \A c \in Device : /\ last_seen_event'[c] \in Nat
                        /\ last_seen_event[c] \in Nat
                        /\ last_seen_event'[c] >= last_seen_event[c]
  BY <1>2, <1>3, <1>5
<1>7. last_seen_event'[d] = e
  BY <1>5
<1>8. COMPLETE_EVENT_MASK \subseteq Device
  BY ZipperAssumption
<1>9. QueueOfComplete'
  <2>1. old \in Seq(Nat)
    BY DEF TypeOK
  <2>2. \A i \in DOMAIN old :
          /\ event_registry'[event_id_hash(old[i])].event_number = old[i]
          /\ event_registry'[event_id_hash(old[i])].bit_word = COMPLETE_EVENT_MASK
    <3> SUFFICES ASSUME NEW i \in DOMAIN old
                 PROVE  /\ event_registry'[event_id_hash(old[i])].event_number = old[i]
                        /\ event_registry'[event_id_hash(old[i])].bit_word
                             = COMPLETE_EVENT_MASK
      OBVIOUS
    <3>1. old[i] \in Nat
      BY <2>1
    <3>2. event_id_hash(old[i]) \in Slot /\ event_id_hash(old[i]) /= g
      BY <1>3, <3>1, HashInSlot
    <3>3. event_registry'[event_id_hash(old[i])] = event_registry[event_id_hash(old[i])]
      BY <3>2, RegisteredSlots
    <3> QED
      BY <1>4, <3>3 DEF QueueOfComplete
  <2>3. CASE ~Completes(r, d, e)
    <3>1. event_ready_queue' = old
      BY <2>3 DEF RegisterWaveform
    <3> QED
      BY <1>4, <2>2, <3>1 DEF QueueOfComplete, event_id_hash
  <2>4. CASE Completes(r, d, e)
    <3>1. event_ready_queue' = Append(old, e)
      BY <1>3, <2>4 DEF RegisterWaveform
    <3>2. /\ event_registry'[g].event_number = e
          /\ event_registry'[g].bit_word = COMPLETE_EVENT_MASK
      BY <1>2, <2>4, RegisteredSlots DEF Completes, Registered
    <3>3. /\ DOMAIN event_ready_queue' = DOMAIN old \cup {Len(old) + 1}
          /\ \A i \in DOMAIN old : event_ready_queue'[i] = old[i]
          /\ event_ready_queue'[Len(old) + 1] = e
          /\ Len(old) + 1 \notin DOMAIN old
      BY <1>2, <2>1, <3>1, AppendProperties
    <3>4. \A i \in DOMAIN old : old[i] /= e
      BY <1>3
    <3> HIDE DEF e, g, r, old
    <3>5. ASSUME NEW i \in DOMAIN event_ready_queue'
          PROVE  LET q == event_registry'[event_id_hash(event_ready_queue'[i])]
                 IN  /\ q.event_number = event_ready_queue'[i]
                     /\ q.bit_word = COMPLETE_EVENT_MASK
      <4>1. CASE i \in DOMAIN old
        BY <2>2, <3>3, <4>1
      <4>2. CASE i = Len(old) + 1
        BY <3>2, <3>3, <4>2 DEF g
      <4> QED
        BY <3>3, <3>5, <4>1, <4>2
    <3>6. ASSUME NEW i \in DOMAIN event_ready_queue',
                 NEW j \in DOMAIN event_ready_queue',
                 event_ready_queue'[i] = event_ready_queue'[j]
          PROVE  i = j
      <4>1. CASE i \in DOMAIN old /\ j \in DOMAIN old
        BY <1>4, <3>3, <3>6, <4>1 DEF QueueOfComplete, old
      <4>2. CASE i = Len(old) + 1 \/ j = Len(old) + 1
        BY <3>3, <3>4, <3>6, <4>2
      <4> QED
        BY <3>3, <3>6, <4>1, <4>2
    <3> QED
      BY <3>5, <3>6 DEF QueueOfComplete, event_id_hash
  <2> QED
    BY <2>3, <2>4
<1>10. SlotsAreNew'
  <2> SUFFICES ASSUME NEW h \in Slot
               PROVE  /\ \A c \in event_registry'[h].bit_word :
                           event_registry'[h].event_number <= last_seen_event'[c]
                      /\ event_registry'[h].bit_word /= {} =>
                           \A i \in DOMAIN saved :
                             saved[i].trig_number /= event_registry'[h].event_number
    BY <1>1, Zenon DEF SlotsAreNew
  <2>1. /\ event_registry[h].bit_word \subseteq Device
        /\ event_registry[h].event_number \in Nat
    BY RecordType
  <2>2. CASE h /= g
    <3>1. event_registry'[h] = event_registry[h]
      BY <2>2, RegisteredSlots
    <3>2. \A c \in event_registry[h].bit_word :
            event_registry[h].event_number <= last_seen_event'[c]
      BY <1>4, <1>6, <2>1 DEF SlotsAreNew
    <3> QED
      BY <1>4, <3>1, <3>2 DEF SlotsAreNew
  <2>3. CASE h = g
    <3>1. /\ event_registry'[h].event_number = e
          /\ event_registry'[h].bit_word = r.bit_word \cup {d}
      BY <1>3, <2>3, RegisteredSlots
    <3>2. \A c \in r.bit_word : e <= last_seen_event'[c]
      <4> SUFFICES ASSUME NEW c \in r.bit_word PROVE e <= last_seen_event'[c]
        OBVIOUS
      <4>1. r.event_number = e
        BY <1>3 DEF Joins
      <4>2. r.event_number <= last_seen_event[c]
        BY <1>2, <1>4 DEF SlotsAreNew
      <4>3. c \in Device
        BY <2>1, <2>3
      <4> QED
        BY <1>2, <1>6, <4>1, <4>2, <4>3
    <3>3. \A i \in DOMAIN saved : saved[i].trig_number /= e
      <4> SUFFICES ASSUME NEW i \in DOMAIN saved PROVE saved[i].trig_number /= e
        OBVIOUS
      <4>1. saved[i].trig_number <= last_seen_event[d]
        BY <1>3, <1>4 DEF SavedAreOld
      <4> QED
        BY <1>2, <1>3, <1>6, <1>8, <4>1
    <3> QED
      BY <1>2, <1>7, <3>1, <3>2, <3>3
  <2> QED
    BY <2>2, <2>3
<1>11. SavedAreOld'
  <2> SUFFICES ASSUME NEW i \in DOMAIN saved
               PROVE  /\ Whole(i)'
                      /\ \A c \in COMPLETE_EVENT_MASK :
                           saved[i].trig_number <= last_seen_event'[c]
                      /\ \A j \in DOMAIN saved :
                           saved[j].trig_number = saved[i].trig_number => i = j
    BY <1>1, Zenon DEF SavedAreOld
  <2>1. Whole(i)'
    BY <1>1, <1>4 DEF SavedAreOld, Whole
  <2>2. saved[i].trig_number \in Nat
    BY SavedType
  <2>3. \A c \in COMPLETE_EVENT_MASK : saved[i].trig_number <= last_seen_event'[c]
    BY <1>4, <1>6, <1>8, <2>2 DEF SavedAreOld
  <2> QED
    BY <1>4, <2>1, <2>3 DEF SavedAreOld
<1> QED
  BY <1>1, <1>4, <1>9, <1>10, <1>11

(* The event popped is complete and its waveforms have not been freed. *)
LEMMA QuietPop ==
  ASSUME TypeOK, SlotInv, QuietInv, Pop, log = {}
  PROVE  /\ PoppedRecord.event_number = Popped
         /\ PoppedRecord.bit_word = COMPLETE_EVENT_MASK
         /\ Waveforms \cap freed = {}
<1> DEFINE g == event_id_hash(Popped)
           n == Len(event_ready_queue)
<1>1. n \in 1 .. QUEUE_LENGTH /\ g \in Slot
  BY PoppedType
<1>2. n \in DOMAIN event_ready_queue
  BY <1>1, ZipperAssumption DEF TypeOK
<1>3. QueueOfComplete
  BY DEF QuietInv
<1>4. /\ PoppedRecord.event_number = Popped
      /\ PoppedRecord.bit_word = COMPLETE_EVENT_MASK
  BY <1>2, <1>3 DEF QueueOfComplete, PoppedRecord, Popped
<1>5. \A d \in COMPLETE_EVENT_MASK : <<d, PoppedRecord.data[d]>> \notin freed
  BY <1>1, <1>4 DEF SlotInv, BitWordVouches, PoppedRecord
<1> QED
  BY <1>4, <1>5 DEF Waveforms

(* What is written is the event popped, after all that was saved before. *)
LEMMA SavedAppended ==
  ASSUME TypeOK, SaveAndFree, fout /= NoFile
  PROVE  LET n == Len(saved) + 1
         IN  /\ n \notin DOMAIN saved
             /\ DOMAIN saved' = DOMAIN saved \cup {n}
             /\ \A i \in DOMAIN saved : saved'[i] = saved[i]
             /\ saved'[n].trig_number = Popped
             /\ saved'[n].device_mask = PoppedRecord.bit_word
             /\ \A d \in COMPLETE_EVENT_MASK :
                  saved'[n].data[d] = PoppedRecord.data[d]
<1> DEFINE Saved == [trig_number : Nat, device_mask : SUBSET Device,
                     data : [COMPLETE_EVENT_MASK -> Nat], file : File]
           new == [trig_number |-> Popped,
                   device_mask |-> PoppedRecord.bit_word,
                   data        |-> [d \in COMPLETE_EVENT_MASK |->
                                      PoppedRecord.data[d]],
                   file        |-> fout]
<1>1. saved \in Seq(Saved)
  BY DEF TypeOK
<1>2. saved' = Append(saved, new)
  BY DEF SaveAndFree, Written
<1>3. new \in Saved
  <2>1. Popped \in Nat /\ PoppedRecord \in EventRecord /\ fout \in File
    BY PoppedType DEF SaveAndFree, TypeOK
  <2>2. [d \in COMPLETE_EVENT_MASK |-> PoppedRecord.data[d]]
          \in [COMPLETE_EVENT_MASK -> Nat]
    BY <2>1, ZipperAssumption DEF EventRecord
  <2> QED
    BY <2>1, <2>2 DEF EventRecord
<1>4. /\ new.trig_number = Popped
      /\ new.device_mask = PoppedRecord.bit_word
      /\ \A d \in COMPLETE_EVENT_MASK : new.data[d] = PoppedRecord.data[d]
  OBVIOUS
<1> HIDE DEF Saved, new
<1>5. /\ Len(saved) \in Nat /\ DOMAIN saved = 1 .. Len(saved)
      /\ saved' \in Seq(Saved)
      /\ Len(saved') = Len(saved) + 1
      /\ \A i \in 1 .. Len(saved) : saved'[i] = saved[i]
      /\ saved'[Len(saved) + 1] = new
  BY <1>1, <1>2, <1>3, AppendProperties, LenProperties
<1>6. DOMAIN saved' = 1 .. Len(saved) + 1
  BY <1>5, LenProperties
<1> QED
  BY <1>4, <1>5, <1>6

LEMMA QuietStepSave ==
  ASSUME TypeOK, SlotInv, QuietInv, SaveAndFree, log = {}
  PROVE  QueueOfComplete' /\ SlotsAreNew' /\ SavedAreOld'
<1> DEFINE e == Popped
           g == event_id_hash(e)
           old == event_ready_queue
           n == Len(saved) + 1
<1>1. Pop /\ UNCHANGED <<streams, last_seen_event>>
  BY DEF SaveAndFree, input
<1>2. /\ e \in Nat /\ g \in Slot
      /\ PoppedRecord = event_registry[g]
  BY <1>1, PoppedType DEF PoppedRecord
<1>3. /\ event_registry[g].event_number = e
      /\ event_registry[g].bit_word = COMPLETE_EVENT_MASK
  BY <1>1, <1>2, QuietPop
<1>4. /\ fout /= NoFile
      /\ QueueOfComplete /\ SlotsAreNew /\ SavedAreOld
  BY Zenon DEF QuietInv
<1>5. COMPLETE_EVENT_MASK \subseteq Device /\ COMPLETE_EVENT_MASK /= {}
  BY ZipperAssumption
<1>6. QueueOfComplete'
  <2>1. /\ old \in Seq(Nat) /\ Len(old) \in Nat \ {0}
        /\ event_ready_queue' \in Seq(Nat)
        /\ Len(event_ready_queue') = Len(old) - 1
        /\ \A i \in 1 .. Len(old) - 1 : event_ready_queue'[i] = old[i]
        /\ e = old[Len(old)]
    BY <1>1, PoppedType, ZipperAssumption, SMTT(30) DEF TypeOK, Popped
  <2>2. /\ DOMAIN event_ready_queue' = 1 .. Len(old) - 1
        /\ DOMAIN old = 1 .. Len(old)
    BY <2>1, LenProperties
  <2>3. \A i \in DOMAIN event_ready_queue' :
          i \in DOMAIN old /\ i /= Len(old) /\ event_ready_queue'[i] = old[i]
    BY <2>1, <2>2
  <2>4. ASSUME NEW i \in DOMAIN event_ready_queue'
        PROVE  LET q == event_registry'[event_id_hash(event_ready_queue'[i])]
               IN  /\ q.event_number = event_ready_queue'[i]
                   /\ q.bit_word = COMPLETE_EVENT_MASK
    <3>1. i \in DOMAIN old /\ event_ready_queue'[i] = old[i] /\ old[i] \in Nat
      BY <2>1, <2>3, <2>4
    <3>2. old[i] /= e
      <4>1. Len(old) \in DOMAIN old
        BY <2>1, <2>2
      <4> QED
        BY <1>4, <2>1, <2>3, <2>4, <4>1 DEF QueueOfComplete
    <3>3. /\ event_registry[event_id_hash(old[i])].event_number = old[i]
          /\ event_registry[event_id_hash(old[i])].bit_word = COMPLETE_EVENT_MASK
      BY <1>4, <3>1 DEF QueueOfComplete
    <3>4. event_id_hash(old[i]) /= g
      BY <1>3, <3>2, <3>3
    <3>5. event_registry'[event_id_hash(old[i])]
            = event_registry[event_id_hash(old[i])]
      BY <3>1, <3>4, HashInSlot, SavedSlots
    <3> QED
      BY <3>1, <3>3, <3>5
  <2>5. \A i, j \in DOMAIN event_ready_queue' :
          event_ready_queue'[i] = event_ready_queue'[j] => i = j
    BY <1>4, <2>3 DEF QueueOfComplete
  <2> QED
    BY <2>4, <2>5 DEF QueueOfComplete, event_id_hash
<1>7. /\ n \notin DOMAIN saved
      /\ DOMAIN saved' = DOMAIN saved \cup {n}
      /\ \A i \in DOMAIN saved : saved'[i] = saved[i]
      /\ saved'[n].trig_number = e
      /\ saved'[n].device_mask = COMPLETE_EVENT_MASK
      /\ \A d \in COMPLETE_EVENT_MASK : saved'[n].data[d] = event_registry[g].data[d]
  BY <1>2, <1>3, <1>4, SavedAppended
<1>8. SlotsAreNew'
  <2> SUFFICES ASSUME NEW h \in Slot,
                      NEW c \in event_registry'[h].bit_word
               PROVE  /\ event_registry'[h].event_number <= last_seen_event[c]
                      /\ \A i \in DOMAIN saved' :
                           saved'[i].trig_number /= event_registry'[h].event_number
    BY <1>1, Zenon DEF SlotsAreNew
  <2>1. h /= g /\ event_registry'[h] = event_registry[h]
    BY SavedSlots
  <2>2. /\ event_registry[h].event_number <= last_seen_event[c]
        /\ \A i \in DOMAIN saved :
             saved[i].trig_number /= event_registry[h].event_number
    BY <1>4, <2>1 DEF SlotsAreNew
  <2>3. event_registry[h].event_number /= e
    <3> DEFINE p == event_registry[h].data[c]
    <3>1. c \in Device
      BY <2>1, RecordType
    <3>2. p \in 1 .. arrived[c] /\ streams[c][p] = event_registry[h].event_number
      BY <2>1 DEF SlotInv, BitWordVouches
    <3>3. p /= 0
      BY <3>2
    <3>4. event_id_hash(streams[c][p]) = h
      BY <3>1, <3>3 DEF SlotInv, DataInSlot
    <3> QED
      BY <2>1, <3>2, <3>4
  <2> QED
    BY <1>7, <2>1, <2>2, <2>3
<1>9. \A c \in COMPLETE_EVENT_MASK : e <= last_seen_event[c]
  BY <1>2, <1>3, <1>4 DEF SlotsAreNew
<1>10. \A i \in DOMAIN saved : saved[i].trig_number /= e
  BY <1>2, <1>3, <1>4, <1>5 DEF SlotsAreNew
<1>11. \A c \in COMPLETE_EVENT_MASK : streams[c][event_registry[g].data[c]] = e
  BY <1>2, <1>3 DEF SlotInv, BitWordVouches
<1> HIDE DEF n, e, g
<1>12. SavedAreOld'
  <2>1. ASSUME NEW i \in DOMAIN saved'
        PROVE  /\ Whole(i)'
               /\ \A c \in COMPLETE_EVENT_MASK :
                    saved'[i].trig_number <= last_seen_event[c]
    <3>1. CASE i \in DOMAIN saved
      BY <1>1, <1>4, <1>7, <3>1 DEF SavedAreOld, Whole
    <3>2. CASE i = n
      BY <1>1, <1>7, <1>9, <1>11, <3>2 DEF Whole
    <3> QED
      BY <1>7, <3>1, <3>2, <2>1
  <2>2. ASSUME NEW i \in DOMAIN saved', NEW j \in DOMAIN saved',
               saved'[j].trig_number = saved'[i].trig_number
        PROVE  i = j
    <3>1. CASE i \in DOMAIN saved /\ j \in DOMAIN saved
      BY <1>4, <1>7, <2>2, <3>1 DEF SavedAreOld
    <3>2. CASE i = n \/ j = n
      BY <1>7, <1>10, <2>2, <3>2
    <3> QED
      BY <1>7, <2>2, <3>1, <3>2
  <2> QED
    BY <1>1, <2>1, <2>2 DEF SavedAreOld
<1> QED
  BY <1>6, <1>8, <1>12

(* The steps that leave the slots, the queue and what was saved alone. *)
LEMMA QuietStepOther ==
  ASSUME QuietInv, log' = log,
         UNCHANGED <<streams, last_seen_event, event_registry,
                     event_ready_queue, saved, fout>>,
         pc' /= "undefined" \/ log /= {}
  PROVE  QuietInv'
<1>1. QueueOfComplete => QueueOfComplete'
  BY DEF QueueOfComplete, event_id_hash
<1>2. SlotsAreNew => SlotsAreNew'
  BY DEF SlotsAreNew
<1>3. SavedAreOld => SavedAreOld'
  BY DEF SavedAreOld, Whole
<1> QED
  BY <1>1, <1>2, <1>3, Zenon DEF QuietInv, NoFile

LEMMA QuietStep ==
  ASSUME MaskTestIsExact
  PROVE  TypeOK /\ SlotInv /\ QuietInv /\ [Next]_vars => QuietInv'
<1> SUFFICES ASSUME TypeOK, SlotInv, QuietInv, [Next]_vars
             PROVE  QuietInv'
  OBVIOUS
<1>1. CASE UNCHANGED vars \/ ReceiveDone \/ NewRunInfo \/ NoRunInfo
             \/ NothingToSave \/ AnnounceRuns
  <2>1. /\ UNCHANGED <<streams, last_seen_event, event_registry,
                       event_ready_queue, saved, fout, log>>
        /\ pc' = pc \/ pc' /= "undefined"
    BY <1>1 DEF ReceiveDone, NewRunInfo, NoRunInfo, NothingToSave, AnnounceRuns,
                vars, input, store, output
  <2> QED
    BY <2>1, QuietStepOther DEF QuietInv
<1>2. CASE Loop
  <2>1. /\ UNCHANGED <<streams, last_seen_event, event_registry,
                       event_ready_queue, saved, fout, log>>
        /\ fout = NoFile \/ pc' /= "undefined"
    BY <1>2 DEF Loop, input, store, output
  <2> QED
    BY <2>1, QuietStepOther DEF QuietInv
<1>3. CASE Signal
  <2>1. /\ UNCHANGED <<streams, last_seen_event, event_registry,
                       event_ready_queue, saved, fout, log>>
        /\ pc' /= "undefined"
    BY <1>3 DEF Signal, input, store, output
  <2> QED
    BY <2>1, QuietStepOther
<1>4. ASSUME NEW d \in Device, TossWaveform(d)
      PROVE  QuietInv'
  <2>1. /\ UNCHANGED <<streams, last_seen_event, event_registry,
                       event_ready_queue, saved, fout, log>>
        /\ pc' /= "undefined"
    BY <1>4 DEF TossWaveform, Arrival, output
  <2> QED
    BY <2>1, QuietStepOther
<1>5. ASSUME NEW d \in Device, RegisterWaveform(d)
      PROVE  QuietInv'
  BY <1>5, QuietStepRegister
<1>6. CASE UseAfterFree
  <2>1. Pop /\ Waveforms \cap freed /= {} /\ log' = log
    BY <1>6 DEF UseAfterFree, output
  <2>2. log /= {}
    BY <2>1, QuietPop
  <2> QED
    BY <2>1, <2>2 DEF QuietInv
<1>7. CASE SaveFails
  BY <1>7 DEF SaveFails, QuietInv
<1>8. CASE SaveEvent
  <2> SUFFICES ASSUME log' = {} PROVE QuietInv'
    BY Zenon DEF QuietInv
  <2>1. SaveAndFree /\ log = {} /\ fout' = fout /\ pc' = "loop"
    BY <1>8 DEF SaveEvent
  <2>2. fout /= NoFile
    BY <2>1, Zenon DEF QuietInv
  <2> QED
    BY <2>1, <2>2, QuietStepSave DEF QuietInv, NoFile
<1>9. CASE SaveEventAndRotate
  <2> SUFFICES ASSUME log' = {} PROVE QuietInv'
    BY Zenon DEF QuietInv
  <2>1. SaveAndFree /\ log = {} /\ pc' = "loop"
    BY <1>9 DEF SaveEventAndRotate
  <2>2. fout' = NullFile \/ fout' = NamedFile(NextRun)
    BY <1>9 DEF SaveEventAndRotate
  <2>3. fout' /= NoFile'
    BY <2>2 DEF NullFile, NamedFile, NoFile
  <2> QED
    BY <2>1, <2>3, QuietStepSave DEF QuietInv
<1>10. CASE ClosesNoFile
  <2>1. log' = log /\ fout = NoFile
    BY <1>10 DEF ClosesNoFile
  <2> QED
    BY <2>1 DEF QuietInv
<1> QED
  BY <1>1, <1>2, <1>3, <1>4, <1>5, <1>6, <1>7, <1>8, <1>9, <1>10
     DEF Next, Receive, Save

(* As long as the zipper has logged nothing, no freed waveform was touched *)
(* and all it saved is whole and saved once.                               *)
THEOREM QuietIsWhole ==
  ASSUME MaskTestIsExact
  PROVE  Spec => []QuietMeansWhole
<1>1. QuietInv => QuietMeansWhole
  BY DEF QuietInv, QuietMeansWhole, SavedAreOld
<1>2. Spec => []SlotInv
  BY SlotInit, SlotStep, TypeCorrect, PTL DEF Spec
<1>3. TypeOK /\ SlotInv /\ QuietInv /\ [Next]_vars => QuietInv'
  BY QuietStep
<1> QED
  BY <1>1, <1>2, <1>3, QuietInit, TypeCorrect, PTL DEF Spec

-----------------------------------------------------------------------------
(* Memory *)

LEMMA LeakInit == Init => NothingLeaks
<1> SUFFICES ASSUME Init, NEW d \in Device, NEW n \in 1 .. arrived[d]
             PROVE  FALSE
  BY DEF NothingLeaks
<1> QED
  BY DEF Init

LEMMA LeakStepToss ==
  ASSUME TypeOK, SlotInv, NothingLeaks, NEW d \in Device, TossWaveform(d)
  PROVE  NothingLeaks'
<1> SUFFICES ASSUME log = {}, NEW c \in Device, NEW n \in 1 .. arrived'[c]
             PROVE  LET r == event_registry[event_id_hash(streams[c][n])]
                    IN  <<c, n>> \in freed' <=> ~(c \in r.bit_word /\ r.data[c] = n)
  BY DEF NothingLeaks, TossWaveform, event_id_hash
<1> DEFINE h == event_id_hash(streams[c][n])
<1>1. /\ freed' = freed \cup {<<d, Place(d)>>}
      /\ Arrival(d)
  BY DEF TossWaveform
<1>2. /\ arrived' = [arrived EXCEPT ![d] = @ + 1]
      /\ Place(d) = arrived[d] + 1
      /\ arrived[d] \in Nat /\ arrived \in [Device -> Nat]
      /\ \A b \in Device : arrived'[b] <= Len(streams[b])
  BY <1>1, TypeOfArrival DEF Arrival, TypeOK
<1>3. CASE n \in 1 .. arrived[c]
  BY <1>1, <1>2, <1>3 DEF NothingLeaks
<1>4. CASE c = d /\ n = Place(d)
  <2>1. streams[c][n] \in Nat
    BY <1>1, <1>4, TypeOfArrival DEF Number
  <2>2. h \in Slot
    BY <2>1, HashInSlot
  <2>3. event_registry[h].data[c] <= arrived[c] /\ event_registry[h].data[c] \in Nat
    BY <2>2, RecordType DEF SlotInv, DataInSlot
  <2> QED
    BY <1>1, <1>2, <1>4, <2>3
<1> QED
  BY <1>2, <1>3, <1>4

LEMMA LeakStepRegister ==
  ASSUME TypeOK, SlotInv, QuietInv, MaskTestIsExact, NothingLeaks,
         NEW d \in Device, RegisterWaveform(d)
  PROVE  NothingLeaks'
<1> SUFFICES ASSUME log' = {}, NEW c \in Device, NEW n \in 1 .. arrived'[c]
             PROVE  LET r == event_registry'[event_id_hash(streams[c][n])]
                    IN  <<c, n>> \in freed <=> ~(c \in r.bit_word /\ r.data[c] = n)
  BY DEF NothingLeaks, RegisterWaveform, event_id_hash
<1> DEFINE e == Number(d)
           g == event_id_hash(e)
           h == event_id_hash(streams[c][n])
<1>1. Arrival(d)
  BY DEF RegisterWaveform
<1>2. /\ arrived' = [arrived EXCEPT ![d] = @ + 1]
      /\ Place(d) = arrived[d] + 1 /\ Place(d) \in Nat
      /\ arrived[d] \in Nat /\ arrived \in [Device -> Nat]
      /\ n \in DOMAIN streams[c]
      /\ streams[c][n] \in Nat
  <2>1. arrived'[c] <= Len(streams[c]) /\ streams[c] \in Seq(Nat)
          /\ arrived'[c] \in Nat
    BY <1>1, TypeOfArrival DEF TypeOK
  <2>2. n \in 1 .. Len(streams[c])
    BY <2>1, LenProperties
  <2>3. n \in DOMAIN streams[c] /\ streams[c][n] \in Nat
    BY <2>1, <2>2, LenProperties, ElementOfSeq
  <2>4. /\ arrived' = [arrived EXCEPT ![d] = @ + 1]
        /\ arrived[d] \in Nat /\ arrived \in [Device -> Nat]
    BY <1>1 DEF Arrival, TypeOK
  <2>5. Place(d) = arrived[d] + 1 /\ Place(d) \in Nat
    BY <1>1, TypeOfArrival
  <2> QED
    BY <2>3, <2>4, <2>5
<1>3. h \in Slot
  BY <1>2, HashInSlot
<1>4. /\ log = {} /\ Joins(event_registry[g], e)
      /\ d \notin event_registry[g].bit_word
  BY QuietRegister
<1>5. CASE n \in 1 .. arrived[c] /\ h /= g
  <2>1. event_registry'[h] = event_registry[h]
    BY <1>3, <1>5, RegisteredSlots
  <2>2. <<c, n>> \in freed
          <=> ~(c \in event_registry[h].bit_word /\ event_registry[h].data[c] = n)
    BY <1>4, <1>5 DEF NothingLeaks
  <2> QED
    BY <2>1, <2>2
<1>6. CASE n \in 1 .. arrived[c] /\ h = g
  <2>1. <<c, n>> \in freed
          <=> ~(c \in event_registry[g].bit_word /\ event_registry[g].data[c] = n)
    BY <1>4, <1>6 DEF NothingLeaks
  <2>2. /\ event_registry'[g].bit_word = event_registry[g].bit_word \cup {d}
        /\ event_registry'[g].data[d] = Place(d)
        /\ c /= d => event_registry'[g].data[c] = event_registry[g].data[c]
    BY <1>3, <1>4, <1>6, RegisteredSlots
  <2>3. c = d => n /= Place(d)
    BY <1>2, <1>6
  <2> HIDE DEF g, h
  <2> QED
    BY <1>4, <1>6, <2>1, <2>2, <2>3 DEF h
<1>7. CASE c = d /\ n = Place(d)
  <2>1. h = g
    BY <1>7 DEF Number
  <2>2. /\ d \in event_registry'[g].bit_word
        /\ event_registry'[g].data[d] = Place(d)
    BY <1>3, <1>4, <2>1, RegisteredSlots
  <2>3. <<d, Place(d)>> \notin freed
    BY <1>2 DEF SlotInv, FreedArrived
  <2> QED
    BY <1>7, <2>1, <2>2, <2>3
<1> QED
  BY <1>2, <1>5, <1>6, <1>7

LEMMA LeakStepSave ==
  ASSUME TypeOK, SlotInv, QuietInv, NothingLeaks, SaveAndFree, log = {}
  PROVE  NothingLeaks'
<1> SUFFICES ASSUME NEW c \in Device, NEW n \in 1 .. arrived[c]
             PROVE  LET r == event_registry'[event_id_hash(streams[c][n])]
                    IN  <<c, n>> \in freed' <=> ~(c \in r.bit_word /\ r.data[c] = n)
  BY DEF NothingLeaks, SaveAndFree, input, event_id_hash
<1> DEFINE g == event_id_hash(Popped)
           h == event_id_hash(streams[c][n])
<1>1. Pop /\ freed' = freed \cup Waveforms
  BY DEF SaveAndFree, Freed
<1>2. g \in Slot /\ PoppedRecord = event_registry[g]
  BY <1>1, PoppedType DEF PoppedRecord
<1>3. event_registry[g].bit_word = COMPLETE_EVENT_MASK
  BY <1>1, <1>2, QuietPop
<1>4. h \in Slot
  <2>1. arrived[c] <= Len(streams[c]) /\ streams[c] \in Seq(Nat) /\ arrived[c] \in Nat
    BY DEF TypeOK
  <2>2. n \in 1 .. Len(streams[c])
    BY <2>1, LenProperties
  <2> QED
    BY <2>1, <2>2, ElementOfSeq, HashInSlot
<1>5. <<c, n>> \in freed
        <=> ~(c \in event_registry[h].bit_word /\ event_registry[h].data[c] = n)
  BY DEF NothingLeaks
<1>6. <<c, n>> \in Waveforms
        <=> c \in COMPLETE_EVENT_MASK /\ event_registry[g].data[c] = n
  BY <1>2 DEF Waveforms
<1>7. CASE h /= g
  <2>1. event_registry'[h] = event_registry[h]
    BY <1>4, <1>7, SavedSlots
  <2>2. event_registry[g].data[c] = n => FALSE
    BY <1>2, <1>7 DEF SlotInv, DataInSlot
  <2> QED
    BY <1>1, <1>5, <1>6, <2>1, <2>2
<1>8. CASE h = g
  <2>1. event_registry'[h].bit_word = {}
    BY <1>4, <1>8, SavedSlots
  <2> QED
    BY <1>1, <1>3, <1>5, <1>6, <1>8, <2>1
<1> QED
  BY <1>7, <1>8

LEMMA LeakStep ==
  ASSUME MaskTestIsExact
  PROVE  TypeOK /\ SlotInv /\ QuietInv /\ NothingLeaks /\ [Next]_vars
           => NothingLeaks'
<1> SUFFICES ASSUME TypeOK, SlotInv, QuietInv, NothingLeaks, [Next]_vars
             PROVE  NothingLeaks'
  OBVIOUS
<1>1. ASSUME NEW d \in Device, TossWaveform(d)
      PROVE  NothingLeaks'
  BY <1>1, LeakStepToss
<1>2. ASSUME NEW d \in Device, RegisterWaveform(d)
      PROVE  NothingLeaks'
  BY <1>2, LeakStepRegister
<1>3. log' = {} => log = {}
  BY DEF Next, Receive, Save, Loop, ReceiveDone, NewRunInfo, NoRunInfo,
         NothingToSave, UseAfterFree, SaveFails, SaveEvent, SaveEventAndRotate,
         ClosesNoFile, AnnounceRuns, Signal, vars, output,
         TossWaveform, RegisterWaveform
<1>4. CASE SaveAndFree
  <2>1. CASE log = {}
    BY <1>4, <2>1, LeakStepSave
  <2>2. CASE log /= {}
    BY <1>3, <2>2 DEF NothingLeaks
  <2> QED
    BY <2>1, <2>2
<1>5. CASE UNCHANGED <<streams, arrived, event_registry, freed>>
  BY <1>3, <1>5 DEF NothingLeaks, event_id_hash
<1> QED
  BY <1>1, <1>2, <1>4, <1>5, Cases

(* As long as the zipper has logged nothing, each waveform it received is  *)
(* either freed or in its slot, so none is lost and none is freed early.   *)
THEOREM NothingIsLeaked ==
  ASSUME MaskTestIsExact
  PROVE  Spec => []NothingLeaks
<1>1. Spec => []SlotInv
  BY SlotInit, SlotStep, TypeCorrect, PTL DEF Spec
<1>2. TypeOK /\ SlotInv /\ QuietInv /\ [Next]_vars => QuietInv'
  BY QuietStep
<1>3. TypeOK /\ SlotInv /\ QuietInv /\ NothingLeaks /\ [Next]_vars
        => NothingLeaks'
  BY LeakStep
<1> QED
  BY <1>1, <1>2, <1>3, QuietInit, LeakInit, TypeCorrect, PTL DEF Spec

-----------------------------------------------------------------------------
(* The files.  A run gets its name when it is accepted and its file when   *)
(* the next event is saved, and other runs may be announced in between;    *)
(* so it has to be shown that the file opened then is a new one.           *)

(* Of each batch announced the zipper takes one run, and no two of these   *)
(* have the same number.                                                   *)
RunsAreAnnouncedOnce ==
  \A batches \in Announcements : \A i, j \in 1 .. Len(batches) :
    RunOf(batches[i]).run_number = RunOf(batches[j]).run_number => i = j

(* Numbers of the runs that the zipper may still hear of. *)
ToCome  == {RunOf(announced[i]).run_number : i \in 1 .. Len(announced)}
Waiting == IF run_reply = << >> THEN {} ELSE {RunOf(run_reply).run_number}

RunsAreNew ==
  /\ \A i, j \in 1 .. Len(announced) :
       RunOf(announced[i]).run_number = RunOf(announced[j]).run_number => i = j
  /\ Waiting \cap ToCome = {}
  /\ run_info.run_number = -1 \/ run_info.run_number \notin ToCome \cup Waiting

(* A file that has been opened: its run is not one to come, and is not to  *)
(* be opened for the current run.                                          *)
Opened(f) ==
  \/ f \in {OutFile, NullFile, NoFile}
  \/ /\ f.kind = "run"
     /\ f.run.run_number \notin ToCome \cup Waiting
     /\ f.run.run_number = run_info.run_number => f.run.sub_run <= run_info.sub_run

FilesAreOpened ==
  Opened(fout) /\ \A i \in 1 .. Len(saved) : saved[i].file /= NoFile /\ Opened(saved[i].file)

(* The events counted in the file are those saved last. *)
CountIsRight ==
  fout \notin {NullFile, NoFile} =>
    /\ in_file <= Len(saved)
    /\ \A i \in 1 .. Len(saved) : saved[i].file = fout <=> i > Len(saved) - in_file

CountIsSmall == FILE_SIZE_THRESHOLD > 0 => in_file <= FILE_SIZE_THRESHOLD

FilesInv ==
  RunsAreNew /\ FilesAreOpened /\ CountIsRight /\ CountIsSmall /\ FilesAreApart

LEMMA FilesInit ==
  ASSUME RunsAreAnnouncedOnce, Init
  PROVE  FilesInv
<1>1. /\ announced \in Announcements /\ run_reply = << >> /\ fout = OutFile
      /\ run_info.run_number = -1 /\ in_file = 0 /\ saved = << >> /\ Len(saved) = 0
  BY EmptySeq DEF Init
<1>2. RunsAreNew
  BY <1>1 DEF RunsAreAnnouncedOnce, RunsAreNew, Waiting
<1>3. FilesAreOpened
  BY <1>1 DEF FilesAreOpened, Opened
<1>4. CountIsRight /\ CountIsSmall
  BY <1>1, ZipperAssumption DEF CountIsRight, CountIsSmall
<1>5. FilesAreApart
  BY <1>1 DEF FilesAreApart
<1> QED
  BY <1>2, <1>3, <1>4, <1>5 DEF FilesInv

LEMMA FilesKept ==
  ASSUME FilesInv,
         UNCHANGED <<announced, run_reply, run_info, fout, in_file, saved>>
  PROVE  FilesInv'
<1>1. RunsAreNew' /\ FilesAreOpened'
  BY DEF FilesInv, RunsAreNew, FilesAreOpened, Opened, ToCome, Waiting
<1> QED
  BY <1>1 DEF FilesInv, CountIsRight, CountIsSmall, FilesAreApart

LEMMA FilesStepAnnounce ==
  ASSUME TypeOK, FilesInv, AnnounceRuns
  PROVE  FilesInv'
<1>1. /\ announced \in Seq(Seq(RunInfo) \ {<< >>}) /\ announced /= << >>
      /\ announced' = Tail(announced)
      /\ run_reply' = IF run_reply = << >> THEN Head(announced) ELSE run_reply
      /\ UNCHANGED <<run_info, output>>
  BY DEF AnnounceRuns, TypeOK
<1>2. /\ Len(announced) \in Nat /\ Len(announced) >= 1
      /\ Len(announced') = Len(announced) - 1
      /\ \A i \in 1 .. Len(announced') : announced'[i] = announced[i + 1]
      /\ Head(announced) = announced[1]
  BY <1>1, EmptySeq, HeadTailProperties
<1>3. ToCome' \subseteq ToCome /\ RunOf(announced[1]).run_number \in ToCome
  BY <1>2 DEF ToCome
<1>4. RunOf(announced[1]).run_number \notin ToCome'
  BY <1>2 DEF FilesInv, RunsAreNew, ToCome
<1>5. Waiting' = Waiting \/ Waiting' = {RunOf(announced[1]).run_number}
  BY <1>1, <1>2 DEF Waiting
<1>6. RunsAreNew'
  <2>1. \A i, j \in 1 .. Len(announced') :
          RunOf(announced'[i]).run_number = RunOf(announced'[j]).run_number => i = j
    BY <1>2, SMTT(30) DEF FilesInv, RunsAreNew
  <2> QED
    BY <1>1, <1>3, <1>4, <1>5, <2>1 DEF FilesInv, RunsAreNew
<1>7. FilesAreOpened'
  BY <1>1, <1>3, <1>5 DEF FilesInv, FilesAreOpened, Opened, output, NoFile
<1> QED
  BY <1>1, <1>6, <1>7 DEF FilesInv, CountIsRight, CountIsSmall, FilesAreApart, output

LEMMA FilesStepNewRun ==
  ASSUME TypeOK, FilesInv, NewRunInfo
  PROVE  FilesInv'
<1> DEFINE new == RunOf(run_reply)
<1>1. /\ UNCHANGED <<announced, output>> /\ run_reply' = << >>
      /\ \/ run_info' = run_info
         \/ run_info' = new
  BY DEF NewRunInfo
<1>2. ToCome' = ToCome /\ Waiting' = {} /\ Waiting = {new.run_number}
  BY <1>1 DEF NewRunInfo, ToCome, Waiting
<1>3. new.run_number \notin ToCome
  BY <1>2 DEF FilesInv, RunsAreNew
<1>4. RunsAreNew'
  BY <1>1, <1>2, <1>3 DEF FilesInv, RunsAreNew
<1>5. ASSUME NEW f, Opened(f)
      PROVE  Opened(f)'
  <2>1. CASE run_info' = run_info
    BY <1>2, <1>5, <2>1 DEF Opened
  <2>2. CASE run_info' = new
    BY <1>2, <1>3, <1>5, <2>2 DEF Opened
  <2> QED
    BY <1>1, <2>1, <2>2
<1>6. FilesAreOpened'
  BY <1>1, <1>5 DEF FilesInv, FilesAreOpened, output
<1> QED
  BY <1>1, <1>4, <1>6 DEF FilesInv, CountIsRight, CountIsSmall, FilesAreApart, output

(* An event that is saved goes behind the others, into the current file.   *)
LEMMA SavedInFile ==
  ASSUME TypeOK, SaveAndFree, fout /= NoFile
  PROVE  /\ Len(saved) \in Nat /\ Len(saved') = Len(saved) + 1
         /\ \A i \in 1 .. Len(saved) : saved'[i] = saved[i]
         /\ saved'[Len(saved) + 1].file = fout
<1> DEFINE Saved == [trig_number : Nat, device_mask : SUBSET Device,
                     data : [COMPLETE_EVENT_MASK -> Nat], file : File]
           new == [trig_number |-> Popped,
                   device_mask |-> PoppedRecord.bit_word,
                   data        |-> [d \in COMPLETE_EVENT_MASK |->
                                      PoppedRecord.data[d]],
                   file        |-> fout]
<1>1. saved \in Seq(Saved)
  BY DEF TypeOK
<1>2. saved' = Append(saved, new)
  BY DEF SaveAndFree, Written
<1>3. new.file = fout
  OBVIOUS
<1> HIDE DEF Saved, new
<1>4. saved \in Seq(Saved \cup {new})
  BY <1>1, SeqMonotonic
<1> QED
  BY <1>2, <1>3, <1>4, AppendProperties

(* The same events, and then one more of the current file. *)
LEMMA ApartAfterSave ==
  ASSUME TypeOK, FilesInv, SaveAndFree, fout /= NoFile
  PROVE  /\ FilesAreApart'
         /\ fout /= NullFile =>
              /\ in_file + 1 <= Len(saved')
              /\ \A i \in 1 .. Len(saved') :
                   saved'[i].file = fout <=> i > Len(saved') - (in_file + 1)
<1> DEFINE n == Len(saved)
<1>1. /\ n \in Nat /\ Len(saved') = n + 1
      /\ \A i \in 1 .. n : saved'[i] = saved[i]
      /\ saved'[n + 1].file = fout
  BY SavedInFile
<1>2. in_file \in Nat
  BY DEF TypeOK
<1> HIDE DEF n
<1>3. fout /= NullFile =>
        /\ in_file <= n
        /\ \A i \in 1 .. n : saved[i].file = fout <=> i > n - in_file
  BY DEF n, FilesInv, CountIsRight
<1>4. fout /= NullFile =>
        /\ in_file + 1 <= Len(saved')
        /\ \A i \in 1 .. Len(saved') :
             saved'[i].file = fout <=> i > Len(saved') - (in_file + 1)
  <2> SUFFICES ASSUME fout /= NullFile, NEW i \in 1 .. n + 1
               PROVE  saved'[i].file = fout <=> i > n - in_file
    BY <1>1, <1>2, <1>3
  <2>1. CASE i = n + 1
    BY <1>1, <1>2, <2>1
  <2>2. CASE i \in 1 .. n
    BY <1>1, <1>3, <2>2
  <2> QED
    BY <1>1, <2>1, <2>2
<1>5. DOMAIN saved = 1 .. n /\ DOMAIN saved' = 1 .. n + 1
  <2>1. saved \in Seq([trig_number : Nat, device_mask : SUBSET Device,
                       data : [COMPLETE_EVENT_MASK -> Nat], file : File])
    BY DEF TypeOK
  <2>2. saved' \in Seq([trig_number : Nat, device_mask : SUBSET Device,
                        data : [COMPLETE_EVENT_MASK -> Nat], file : File])
    BY TypeOfSave
  <2> QED
    BY <1>1, <2>1, <2>2, LenProperties DEF n
<1>6. FilesAreApart'
  <2> SUFFICES ASSUME FILE_SIZE_THRESHOLD > 0,
                      NEW i \in 1 .. n + 1, NEW j \in 1 .. n + 1, i < j,
                      saved'[i].file = saved'[j].file, saved'[i].file /= NullFile
               PROVE  /\ j - i <= FILE_SIZE_THRESHOLD
                      /\ \A k \in i .. j : saved'[k].file = saved'[i].file
    BY <1>5 DEF FilesAreApart, NullFile
  <2>1. CASE j \in 1 .. n
    <3>1. i \in 1 .. n /\ saved[i].file = saved[j].file /\ saved[i].file /= NullFile
      BY <1>1, <2>1
    <3>2. /\ j - i <= FILE_SIZE_THRESHOLD
          /\ \A k \in i .. j : saved[k].file = saved[i].file
      BY <1>5, <2>1, <3>1 DEF FilesInv, FilesAreApart
    <3>3. \A k \in i .. j : k \in 1 .. n
      BY <1>1, <2>1
    <3> QED
      BY <1>1, <3>1, <3>2, <3>3
  <2>2. CASE j = n + 1
    <3>1. saved'[i].file = fout /\ fout /= NullFile
      BY <1>1, <2>2
    <3>2. i > n - in_file
      BY <1>1, <1>2, <1>4, <3>1
    <3>3. j - i <= FILE_SIZE_THRESHOLD
      BY <1>1, <1>2, <2>2, <3>2, ZipperAssumption DEF FilesInv, CountIsSmall
    <3>4. ASSUME NEW k \in i .. j
          PROVE  saved'[k].file = fout
      <4>1. k \in 1 .. Len(saved') /\ k > Len(saved') - (in_file + 1)
        BY <1>1, <1>2, <2>2, <3>2
      <4> QED
        BY <1>4, <3>1, <4>1
    <3> QED
      BY <3>1, <3>3, <3>4
  <2> QED
    BY <1>1, <2>1, <2>2
<1> QED
  BY <1>4, <1>6

LEMMA FilesStepSave ==
  ASSUME TypeOK, FilesInv, SaveEvent
  PROVE  FilesInv'
<1>1. /\ SaveAndFree /\ ~ MustRotate /\ in_file' = InFile
      /\ UNCHANGED <<announced, run_reply, run_info, fout>>
  BY DEF SaveEvent, SaveAndFree
<1>2. CASE fout = NoFile
  <2>1. UNCHANGED <<in_file, saved>>
    BY <1>1, <1>2 DEF InFile, SaveAndFree, Written
  <2> QED
    BY <1>1, <2>1, FilesKept
<1>3. CASE fout /= NoFile
  <2>1. in_file' = in_file + 1
    BY <1>1, <1>3 DEF InFile
  <2>2. RunsAreNew'
    BY <1>1 DEF FilesInv, RunsAreNew, ToCome, Waiting
  <2>3. ASSUME NEW f, Opened(f)
        PROVE  Opened(f)'
    BY <1>1, <2>3 DEF Opened, ToCome, Waiting
  <2>4. /\ Len(saved) \in Nat /\ Len(saved') = Len(saved) + 1
        /\ \A i \in 1 .. Len(saved) : saved'[i] = saved[i]
        /\ saved'[Len(saved) + 1].file = fout
    BY <1>1, <1>3, SavedInFile
  <2>5. FilesAreOpened'
    <3>1. ASSUME NEW i \in 1 .. Len(saved')
          PROVE  saved'[i].file /= NoFile /\ Opened(saved'[i].file)
      BY <1>3, <2>4 DEF FilesInv, FilesAreOpened
    <3> QED
      BY <1>1, <2>3, <3>1 DEF FilesInv, FilesAreOpened, NoFile
  <2>6. CountIsRight' /\ FilesAreApart'
    BY <1>1, <1>3, <2>1, ApartAfterSave DEF CountIsRight, NullFile, NoFile
  <2>7. CountIsSmall'
    BY <1>1, <2>1, ZipperAssumption DEF MustRotate, CountIsSmall, TypeOK
  <2> QED
    BY <2>2, <2>5, <2>6, <2>7 DEF FilesInv
<1> QED
  BY <1>2, <1>3

LEMMA FilesStepRotate ==
  ASSUME TypeOK, FilesInv, SaveEventAndRotate
  PROVE  FilesInv'
<1>1. /\ SaveAndFree /\ fout /= NoFile /\ in_file' = 0 /\ run_info' = NextRun
      /\ UNCHANGED <<announced, run_reply>>
      /\ \/ fout' = NullFile /\ run_info.run_number = -1
         \/ fout' = NamedFile(NextRun) /\ run_info.run_number /= -1
         \/ fout' = NoFile
  BY DEF SaveEventAndRotate, SaveAndFree
<1>2. /\ run_info.run_number \in Int /\ run_info.sub_run \in Nat
      /\ NextRun.run_number = run_info.run_number
      /\ NextRun.sub_run = run_info.sub_run + 1
  BY DEF TypeOK, RunInfo, NextRun
<1>3. ToCome' = ToCome /\ Waiting' = Waiting
  BY <1>1 DEF ToCome, Waiting
<1>4. RunsAreNew'
  BY <1>1, <1>2, <1>3 DEF FilesInv, RunsAreNew
<1>5. /\ Len(saved) \in Nat /\ Len(saved') = Len(saved) + 1
      /\ \A i \in 1 .. Len(saved) : saved'[i] = saved[i]
      /\ saved'[Len(saved) + 1].file = fout
  BY <1>1, SavedInFile
<1>6. /\ \A i \in 1 .. Len(saved') : saved'[i].file /= NoFile /\ Opened(saved'[i].file)
      /\ \A i \in 1 .. Len(saved') : saved'[i].file \in File
  <2>1. saved' \in Seq([trig_number : Nat, device_mask : SUBSET Device,
                        data : [COMPLETE_EVENT_MASK -> Nat], file : File])
    BY <1>1, TypeOfSave
  <2>2. ASSUME NEW i \in 1 .. Len(saved')
        PROVE  saved'[i].file \in File
    <3>1. saved'[i] \in [trig_number : Nat, device_mask : SUBSET Device,
                          data : [COMPLETE_EVENT_MASK -> Nat], file : File]
      BY <2>1, ElementOfSeq
    <3> QED
      BY <3>1
  <2>3. ASSUME NEW i \in 1 .. Len(saved')
        PROVE  saved'[i].file /= NoFile /\ Opened(saved'[i].file)
    BY <1>1, <1>5 DEF FilesInv, FilesAreOpened
  <2> QED
    BY <2>2, <2>3
<1>7. ASSUME NEW f \in File, Opened(f)
      PROVE  Opened(f)' /\ f /= NamedFile(NextRun)
  <2>1. f.run.sub_run \in Nat
    BY DEF File, RunInfo
  <2>2. CASE f \in {OutFile, NullFile, NoFile}
    BY <2>2 DEF Opened, OutFile, NullFile, NoFile, NamedFile
  <2>3. CASE f \notin {OutFile, NullFile, NoFile}
    BY <1>1, <1>2, <1>3, <1>7, <2>1, <2>3 DEF Opened, NamedFile
  <2> QED
    BY <2>2, <2>3
<1>8. FilesAreOpened'
  <2>1. NamedFile(NextRun).kind = "run" /\ NamedFile(NextRun).run = NextRun
    BY DEF NamedFile
  <2>2. Opened(fout)'
    <3>1. CASE fout' = NullFile \/ fout' = NoFile
      BY <3>1 DEF Opened, NullFile, NoFile, OutFile
    <3>2. CASE fout' = NamedFile(NextRun) /\ run_info.run_number /= -1
      BY <1>1, <1>2, <1>3, <2>1, <3>2 DEF Opened, FilesInv, RunsAreNew
    <3> QED
      BY <1>1, <3>1, <3>2
  <2>3. \A i \in 1 .. Len(saved') : (saved[i].file /= NoFile /\ Opened(saved[i].file))'
    BY <1>6, <1>7 DEF NoFile
  <2> QED
    BY <2>2, <2>3 DEF FilesAreOpened
<1>9. CountIsRight'
  <2>1. \A i \in 1 .. Len(saved') : saved'[i].file /= NamedFile(NextRun)
    BY <1>6, <1>7
  <2>2. CASE fout' \in {NullFile, NoFile}
    BY <2>2 DEF CountIsRight, NullFile, NoFile
  <2>3. CASE fout' = NamedFile(NextRun)
    BY <1>1, <1>5, <2>1, <2>3 DEF CountIsRight
  <2> QED
    BY <1>1, <2>2, <2>3
<1>10. FilesAreApart'
  BY <1>1, ApartAfterSave
<1>11. CountIsSmall'
  BY <1>1, ZipperAssumption DEF CountIsSmall
<1> QED
  BY <1>4, <1>8, <1>9, <1>10, <1>11 DEF FilesInv

LEMMA FilesStep ==
  ASSUME TypeOK, FilesInv, [Next]_vars
  PROVE  FilesInv'
<1>1. CASE \/ Loop \/ Receive \/ ReceiveDone \/ NoRunInfo \/ NothingToSave
           \/ UseAfterFree \/ SaveFails \/ Signal \/ UNCHANGED vars
  <2>1. UNCHANGED <<announced, run_reply, run_info, fout, in_file, saved>>
    BY <1>1 DEF Loop, Receive, TossWaveform, RegisterWaveform, ReceiveDone, NoRunInfo,
                NothingToSave, UseAfterFree, SaveFails, Signal, vars, runs, output
  <2> QED
    BY <2>1, FilesKept
<1>2. CASE ClosesNoFile
  <2>1. UNCHANGED <<announced, run_reply, run_info, fout, in_file, saved>>
    BY <1>2 DEF ClosesNoFile, SaveAndFree, Written
  <2> QED
    BY <2>1, FilesKept
<1> QED
  BY <1>1, <1>2, FilesStepAnnounce, FilesStepNewRun, FilesStepSave, FilesStepRotate
     DEF Next, Save

(* If no run is announced twice, the events of a file are neighbours in    *)
(* the order of saving, at most one more than the threshold, however runs, *)
(* full files, failing writes and failing opens fall together.             *)
THEOREM FilesStayApart ==
  ASSUME RunsAreAnnouncedOnce
  PROVE  Spec => []FilesAreApart
<1>1. FilesInv => FilesAreApart
  BY DEF FilesInv
<1>2. Init => FilesInv
  BY FilesInit
<1> QED
  BY <1>1, <1>2, FilesStep, TypeCorrect, PTL DEF Spec

=============================================================================
