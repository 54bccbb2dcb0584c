------------------------------- MODULE Zipper -------------------------------
(***************************************************************************)
(* The zipper (zipper.c): it receives the waveforms that all data builders *)
(* publish, puts those of one trigger together in a hash table, and writes *)
(* each event that has become complete to the file of the current run.     *)
(*                                                                         *)
(* A waveform is its place in its device's stream; what it holds is the    *)
(* trigger number there.  The heap is the set of waveforms freed so far.   *)
(***************************************************************************)
EXTENDS Integers, Sequences

CONSTANTS
  MAX_DEVICE_NUMBER,    \* devices are 0 .. MAX_DEVICE_NUMBER - 1 (34)
  INT_BITS,             \* bits of an int (32)
  COMPLETE_EVENT_MASK,  \* the devices an event needs
  HASH_TABLE_SIZE,      \* slots of the registry (1000)
  QUEUE_LENGTH,         \* complete events that may wait (100)
  FILE_SIZE_THRESHOLD,  \* events a file may hold, 0 = any number
  Streams,              \* the trigger numbers the devices may send
  Announcements,        \* the new runs that may be announced, in batches
  MaxFailures,          \* bound on failing file operations
  MaxSignals            \* bound on SIGINT

Device == 0 .. MAX_DEVICE_NUMBER - 1

Slot == 0 .. HASH_TABLE_SIZE - 1

EventRecord == [bit_word     : SUBSET Device,
                event_number : Nat,
                data         : [Device -> Nat]]     \* 0 is the null pointer

RunInfo == [run_number : Int, sub_run : Nat]

ASSUME ZipperAssumption ==
  /\ MAX_DEVICE_NUMBER \in Nat \ {0}
  /\ INT_BITS \in Nat \ {0}
  /\ COMPLETE_EVENT_MASK \subseteq Device
  /\ COMPLETE_EVENT_MASK /= {}
  /\ HASH_TABLE_SIZE \in Nat \ {0}
  /\ QUEUE_LENGTH \in Nat \ {0}
  /\ FILE_SIZE_THRESHOLD \in Nat
  /\ Streams \subseteq [Device -> Seq(Nat)]
  /\ Announcements \subseteq Seq(Seq(RunInfo) \ {<< >>})
  /\ MaxFailures \in Nat
  /\ MaxSignals \in Nat

VARIABLES
  streams,            \* what each device's builder publishes, in order
  arrived,            \* how many of each device's waveforms were received
  last_seen_event,    \* the last trigger number of each device
  event_registry,     \* the partial events by hash of their number
  event_ready_queue,  \* numbers of complete events
  freed,              \* waveforms freed: pairs of a device and a place
  pc,                 \* where in the main loop the process is
  loop,               \* keep running
  num_kills,          \* signals received
  announced,          \* batches of runs still to be announced
  run_reply,          \* the answer to XREAD that waits to be read
  run_info,           \* the current run
  start_new_run,      \* the file must be changed after the next event
  fout,               \* the file being written
  in_file,            \* events in it (bytes_in_file)
  failures,           \* file operations that failed
  saved,              \* all events written, in order
  log                 \* the kinds of warnings logged about the data

input   == <<streams, arrived, last_seen_event>>
store   == <<event_registry, event_ready_queue, freed>>
signals == <<loop, num_kills>>
runs    == <<announced, run_reply, run_info, start_new_run>>
output  == <<fout, in_file, failures, saved>>
vars    == <<input, store, pc, signals, runs, output, log>>

event_id_hash(e) == e % HASH_TABLE_SIZE

(* The file of a run, /dev/null, the -o file, or none. *)
NamedFile(r) == [kind |-> "run", run |-> r]
OutFile  == [kind |-> "out",  run |-> [run_number |-> -1, sub_run |-> 0]]
NullFile == [kind |-> "null", run |-> [run_number |-> -1, sub_run |-> 0]]
NoFile   == [kind |-> "none", run |-> [run_number |-> -1, sub_run |-> 0]]

File == [kind : {"run", "out", "null", "none"}, run : RunInfo]

-----------------------------------------------------------------------------
Init ==
  /\ streams \in Streams
  /\ arrived = [d \in Device |-> 0]
  /\ last_seen_event = [d \in Device |-> 0]
  /\ event_registry = [h \in Slot |-> [bit_word |-> {}, event_number |-> 0,
                                       data |-> [d \in Device |-> 0]]]
  /\ event_ready_queue = << >>
  /\ freed = {}
  /\ pc = "loop"
  /\ loop = TRUE
  /\ num_kills = 0
  /\ announced \in Announcements
  /\ run_reply = << >>
  /\ run_info = [run_number |-> -1, sub_run |-> 0]
  /\ start_new_run = FALSE
  /\ fout = OutFile
  /\ in_file = 0
  /\ failures = 0
  /\ saved = << >>
  /\ log = {}

(* The condition of the main loop; after it the file is closed. *)
Loop ==
  /\ pc = "loop"
  /\ pc' = IF loop THEN "receive"
           ELSE IF fout = NoFile THEN "undefined" ELSE "exit"
  /\ UNCHANGED <<input, store, signals, runs, output, log>>

-----------------------------------------------------------------------------
(* recieve_waveform_from_redis: everything that has been received *)

(* The bits of `1<<device_id', an int, once widened to the mask's 64 bits: *)
(* the sign bit is copied upwards, and a shift by more than the width is   *)
(* undefined (the processor shifts by the remainder, or the compiler has   *)
(* tested the bit itself).                                                 *)
Shifted(d) ==
  IF d < INT_BITS - 1 THEN {{d}}
  ELSE IF d = INT_BITS - 1 THEN {{c \in Device : c >= d}}
       ELSE {{d % INT_BITS}, {d}}

Arrival(d) ==
  /\ pc = "receive"
  /\ arrived[d] < Len(streams[d])
  /\ arrived' = [arrived EXCEPT ![d] = @ + 1]

Place(d) == arrived[d] + 1
Number(d) == streams[d][Place(d)]

TossWaveform(d) ==
  /\ Arrival(d)
  /\ \E bits \in Shifted(d) : bits \cap COMPLETE_EVENT_MASK = {}
  /\ freed' = freed \cup {<<d, Place(d)>>}
  /\ UNCHANGED <<streams, last_seen_event, event_registry, event_ready_queue,
                 pc, signals, runs, output, log>>

(* Mutant: whatever is in the slot is taken for the same event. *)
AlwaysJoins(r, e) == TRUE

(* The waveform goes to the event already in the slot. *)
Joins(r, e) == r.bit_word = {} \/ r.event_number = e

(* The slot after device d's waveform for event e; the data of an event    *)
(* that was there before stays where it is not overwritten.                *)
Registered(r, d, e) ==
  [event_number |-> e,
   bit_word     |-> IF Joins(r, e) THEN r.bit_word \cup {d} ELSE {d},
   data         |-> [r.data EXCEPT ![d] = Place(d)]]

(* Mutant: completeness is judged before the waveform is registered. *)
CompletesBefore(r, d, e) == r.bit_word = COMPLETE_EVENT_MASK

Completes(r, d, e) == Registered(r, d, e).bit_word = COMPLETE_EVENT_MASK

(* Mutant: the queue takes one more than it has room for. *)
QueueOverfull == Len(event_ready_queue) > QUEUE_LENGTH

QueueFull == Len(event_ready_queue) = QUEUE_LENGTH

RegisterWaveform(d) ==
  LET e == Number(d)
      r == event_registry[event_id_hash(e)]
  IN  /\ Arrival(d)
      /\ \E bits \in Shifted(d) : bits \cap COMPLETE_EVENT_MASK /= {}
      /\ last_seen_event' = [last_seen_event EXCEPT ![d] = e]
      /\ event_registry' = [event_registry EXCEPT
                              ![event_id_hash(e)] = Registered(r, d, e)]
      /\ event_ready_queue' =
           IF Completes(r, d, e) /\ ~QueueFull
           THEN Append(event_ready_queue, e)
           ELSE event_ready_queue
      /\ log' = log
           \cup (IF e <= last_seen_event[d] THEN {"skipped backwards"} ELSE {})
           \cup (IF Joins(r, e) THEN {} ELSE {"hash collision"})
           \cup (IF Completes(r, d, e) /\ QueueFull THEN {"queue full"} ELSE {})
  /\ UNCHANGED <<streams, freed, pc, signals, runs, output>>

ReceiveDone ==
  /\ pc = "receive"
  /\ pc' = "run info"
  /\ UNCHANGED <<input, store, signals, runs, output, log>>

-----------------------------------------------------------------------------
(* New runs *)

(* A batch of runs is added to the redis stream.  An XREAD that waits is   *)
(* answered with all of it; otherwise the zipper never hears of it, since  *)
(* its next XREAD asks for what comes after the end of the stream (`$').   *)
AnnounceRuns ==
  /\ announced /= << >>
  /\ announced' = Tail(announced)
  /\ run_reply' = IF run_reply = << >> THEN Head(announced) ELSE run_reply
  /\ UNCHANGED <<input, store, pc, signals, run_info, start_new_run, output,
                 log>>

(* parse_run_info_redis_reply indexes the records with the number of       *)
(* streams, which is 1: it takes the first.                                *)
RunOf(batch) == Head(batch)

NewRunInfo ==
  LET new == RunOf(run_reply)
      accepted == /\ new.run_number /= 0
                  /\ new.run_number /= run_info.run_number
  IN  /\ pc = "run info"
      /\ run_reply /= << >>
      /\ run_reply' = << >>
      /\ run_info' = IF accepted THEN new ELSE run_info
      /\ start_new_run' = (start_new_run \/ accepted)
      /\ pc' = "save"
      /\ UNCHANGED <<input, store, signals, announced, output, log>>

NoRunInfo ==
  /\ pc = "run info"
  /\ run_reply = << >>
  /\ pc' = "save"
  /\ UNCHANGED <<input, store, signals, runs, output, log>>

-----------------------------------------------------------------------------
(* One complete event is written to disk *)

NothingToSave ==
  /\ pc = "save"
  /\ event_ready_queue = << >>
  /\ pc' = "loop"
  /\ UNCHANGED <<input, store, signals, runs, output, log>>

(* The event popped, the newest, and the record its number leads to. *)
Popped == event_ready_queue[Len(event_ready_queue)]
PoppedRecord == event_registry[event_id_hash(Popped)]

(* Its waveforms, which the code takes to be there. *)
Waveforms == {<<d, PoppedRecord.data[d]>> : d \in COMPLETE_EVENT_MASK}

Pop ==
  /\ pc = "save"
  /\ event_ready_queue /= << >>
  /\ event_ready_queue' =
       SubSeq(event_ready_queue, 1, Len(event_ready_queue) - 1)

(* The waveforms have been freed: what follows is undefined. *)
UseAfterFree ==
  /\ Pop
  /\ Waveforms \cap freed /= {}
  /\ pc' = "undefined"
  /\ UNCHANGED <<input, event_registry, freed, signals, runs, output, log>>

SaveFails ==
  /\ Pop
  /\ Waveforms \cap freed = {}
  /\ fout /= NoFile
  /\ failures < MaxFailures
  /\ failures' = failures + 1
  /\ loop' = FALSE
  /\ log' = log \cup {"write error"}
  /\ pc' = "loop"
  /\ UNCHANGED <<input, event_registry, freed, num_kills, runs, fout, in_file,
                 saved>>

(* save_event; without a file nothing is written and nothing is said. *)
Written ==
  IF fout = NoFile THEN saved
  ELSE Append(saved, [trig_number |-> Popped,
                      device_mask |-> PoppedRecord.bit_word,
                      data        |-> [d \in COMPLETE_EVENT_MASK |->
                                         PoppedRecord.data[d]],
                      file        |-> fout])

(* Mutant: only the last event counts. *)
InFileOfLast == IF fout = NoFile THEN 0 ELSE 1

InFile == IF fout = NoFile THEN in_file ELSE in_file + 1

(* Mutant: the waveform of device 0 is not freed. *)
FreedButFirst == freed \cup {w \in Waveforms : w[1] /= 0}

(* free_event. *)
Freed == freed \cup Waveforms

MustRotate ==
  \/ start_new_run
  \/ FILE_SIZE_THRESHOLD > 0 /\ InFile > FILE_SIZE_THRESHOLD

(* Mutant: free_event leaves the slot as it is. *)
SlotKept(r) == r

SlotCleared(r) == [r EXCEPT !.bit_word = {}]

SaveAndFree ==
  /\ Pop
  /\ Waveforms \cap freed = {}
  /\ saved' = Written
  /\ event_registry' = [event_registry EXCEPT
                          ![event_id_hash(Popped)] = SlotCleared(@)]
  /\ freed' = Freed
  /\ UNCHANGED <<input, signals, announced, run_reply>>

SaveEvent ==
  /\ SaveAndFree
  /\ ~MustRotate
  /\ in_file' = InFile
  /\ pc' = "loop"
  /\ UNCHANGED <<run_info, start_new_run, fout, failures, log>>

NextRun == [run_info EXCEPT !.sub_run = @ + 1]

SaveEventAndRotate ==
  /\ SaveAndFree
  /\ MustRotate
  /\ fout /= NoFile
  /\ in_file' = 0
  /\ start_new_run' = FALSE
  /\ run_info' = NextRun
  /\ \/ /\ fout' = IF run_info.run_number = -1 THEN NullFile
                   ELSE NamedFile(NextRun)
        /\ UNCHANGED <<failures, log>>
     \/ /\ failures < MaxFailures
        /\ failures' = failures + 1
        /\ fout' = NoFile
        /\ log' = log \cup {"cannot open"}
  /\ pc' = "loop"

(* Without a file, rotating closes a null pointer. *)
ClosesNoFile ==
  /\ SaveAndFree
  /\ MustRotate
  /\ fout = NoFile
  /\ pc' = "undefined"
  /\ UNCHANGED <<run_info, start_new_run, fout, in_file, failures, log>>

-----------------------------------------------------------------------------
(* signal_handler on SIGINT; the second signal ends the process.  The      *)
(* first SIGTERM is caught and does nothing.                               *)
Signal ==
  /\ pc \notin {"exit", "undefined"}
  /\ num_kills < MaxSignals
  /\ num_kills' = num_kills + 1
  /\ loop' = FALSE
  /\ pc' = IF num_kills >= 1 THEN "exit" ELSE pc
  /\ UNCHANGED <<input, store, runs, output, log>>

Receive == \E d \in Device : TossWaveform(d) \/ RegisterWaveform(d)
Save == NothingToSave \/ UseAfterFree \/ SaveFails \/ SaveEvent
          \/ SaveEventAndRotate \/ ClosesNoFile

Next ==
  \/ Loop \/ Receive \/ ReceiveDone
  \/ NewRunInfo \/ NoRunInfo \/ Save
  \/ AnnounceRuns \/ Signal

Spec == Init /\ [][Next]_vars

(* The process keeps running; what a builder has published is delivered    *)
(* in the end, though any single read may not find it.  Nobody has to send *)
(* signals or announce runs.                                               *)
Fairness ==
  /\ WF_vars(Loop \/ ReceiveDone \/ NewRunInfo \/ NoRunInfo \/ Save)
  /\ \A d \in Device : SF_vars(TossWaveform(d) \/ RegisterWaveform(d))

FairSpec == Spec /\ Fairness

-----------------------------------------------------------------------------
(* Properties *)

PC == {"loop", "receive", "run info", "save", "exit", "undefined"}

Warning == {"skipped backwards", "hash collision", "queue full",
            "write error", "cannot open"}

(* Types of the zipper's variables; the queue keeps to its array. *)
TypeOK ==
  /\ streams \in [Device -> Seq(Nat)]
  /\ arrived \in [Device -> Nat]
  /\ \A d \in Device : arrived[d] <= Len(streams[d])
  /\ last_seen_event \in [Device -> Nat]
  /\ event_registry \in [Slot -> EventRecord]
  /\ event_ready_queue \in Seq(Nat)
  /\ Len(event_ready_queue) <= QUEUE_LENGTH
  /\ freed \in SUBSET (Device \X Nat)
  /\ pc \in PC
  /\ loop \in BOOLEAN
  /\ num_kills \in Nat
  /\ announced \in Seq(Seq(RunInfo) \ {<< >>})
  /\ run_reply \in Seq(RunInfo)
  /\ run_info \in RunInfo
  /\ start_new_run \in BOOLEAN
  /\ fout \in File
  /\ in_file \in Nat
  /\ failures \in Nat
  /\ saved \in Seq([trig_number : Nat, device_mask : SUBSET Device,
                    data : [COMPLETE_EVENT_MASK -> Nat], file : File])
  /\ log \in SUBSET Warning

(* The test of a device's bit says whether the device is in the mask.  It  *)
(* does when all devices that send are below INT_BITS - 1; device 31 also  *)
(* passes when 32 or 33 are needed, and device 32 when 0 is.               *)
MaskTestIsExact ==
  \A d \in Device : \A bits \in Shifted(d) :
    bits \cap COMPLETE_EVENT_MASK /= {} <=> d \in COMPLETE_EVENT_MASK

(* The i-th event saved has the waveform of each device of the mask, all   *)
(* of its own trigger.                                                     *)
Whole(i) ==
  /\ saved[i].device_mask = COMPLETE_EVENT_MASK
  /\ \A d \in COMPLETE_EVENT_MASK :
       streams[d][saved[i].data[d]] = saved[i].trig_number

(* As long as the zipper has logged none of the warnings, every event      *)
(* saved is whole and saved once, and no freed waveform was touched: the   *)
(* registry has no chains and the queue only numbers, so a second waveform *)
(* of a device, or another event in the slot, between completion and       *)
(* saving would break the event, and each is noticed when it arrives.      *)
QuietMeansWhole ==
  log = {} =>
    /\ pc /= "undefined"
    /\ \A i \in DOMAIN saved :
         /\ Whole(i)
         /\ \A j \in DOMAIN saved :
              saved[j].trig_number = saved[i].trig_number => i = j

(* A slot's bit word only vouches for waveforms of the event whose number  *)
(* is in the slot, and these have not been freed: also after collisions    *)
(* and repeated trigger numbers, when data of other events is in the slot. *)
BitWordVouches ==
  \A h \in Slot :
    LET r == event_registry[h]
    IN  \A d \in r.bit_word :
          /\ r.data[d] \in 1 .. arrived[d]
          /\ streams[d][r.data[d]] = r.event_number
          /\ <<d, r.data[d]>> \notin freed

(* As long as nothing was logged, every waveform received has been freed   *)
(* or is in its slot, never both and never neither.                        *)
NothingLeaks ==
  log = {} =>
    \A d \in Device : \A n \in 1 .. arrived[d] :
      LET r == event_registry[event_id_hash(streams[d][n])]
      IN  <<d, n>> \in freed <=> ~(d \in r.bit_word /\ r.data[d] = n)

(* If each run is announced once, the events saved to one file are         *)
(* neighbours in the order of saving, and at most one more than the        *)
(* threshold, unless the file is /dev/null.  (A run that is announced      *)
(* again after another is appended to its old files.)                      *)
FilesAreApart ==
  FILE_SIZE_THRESHOLD > 0 =>
    \A i, j \in DOMAIN saved :
      i < j /\ saved[i].file = saved[j].file /\ saved[i].file /= NullFile =>
        /\ j - i <= FILE_SIZE_THRESHOLD
        /\ \A k \in i .. j : saved[k].file = saved[i].file

(* If the zipper stays quiet and is not told to stop, each event whose     *)
(* waveforms were all sent is saved in the end.                            *)
CompleteEvents ==
  {e \in UNION {{streams[d][n] : n \in DOMAIN streams[d]} : d \in Device} :
     \A d \in COMPLETE_EVENT_MASK : \E n \in DOMAIN streams[d] : streams[d][n] = e}

SavedInTheEnd ==
  <>[](log = {} /\ loop =>
         \A e \in CompleteEvents :
           \E i \in DOMAIN saved : saved[i].trig_number = e)

-----------------------------------------------------------------------------
(* What the comments of the source say, and the code does not do *)

(* "each of which must be present for an event to be complete": what is    *)
(* saved is a complete event.                                              *)
SavedIsComplete == \A i \in DOMAIN saved : Whole(i)

(* "Either way, we take the last record".                                  *)
TakesTheLastRun ==
  [][run_info'.run_number /= run_info.run_number =>
       run_info' = run_reply[Len(run_reply)]]_vars

=============================================================================
