----------------------------- MODULE AudioClock -----------------------------
(***************************************************************************)
(* The clock of the audio device (media/playback/clock.rs): the device's   *)
(* callback publishes the time and the samples of each period, and readers *)
(* take all three numbers or none.  There is no lock: the writer counts    *)
(* before and after it writes, and a reader that finds another count than  *)
(* it began with tries again, three times at most.  Every load and store   *)
(* is sequentially consistent, so each is a step of its own.               *)
(*                                                                         *)
(* What a field holds is the number of the period that wrote it.           *)
(***************************************************************************)
EXTENDS Naturals

CONSTANTS Readers,
          MaxPeriods  \* callbacks that a run looks at

VARIABLES sequence,  \* the count
          fields,    \* playback_ns, first_sample and end_sample
          writing,   \* the callback: fields it has written, or "idle"
          readers    \* each reader: step, count it began with, what it has read, tries

clockVars == <<sequence, fields, writing, readers>>

AudioClockAssumption == MaxPeriods \in Nat

NoRead == [time |-> 0, first |-> 0, end |-> 0]
Steps == {"idle", "before", "time", "first", "end", "after", "some", "none"}

Period == (sequence + 1) \div 2   \* the one that is being published

----------------------------------------------------------------------------
(* publish. *)

Begin == /\ writing = "idle" /\ sequence < 2 * MaxPeriods
         /\ writing' = "time" /\ sequence' = sequence + 1
Write == \/ writing = "time" /\ writing' = "first" /\ fields' = [fields EXCEPT !.time = Period]
         \/ writing = "first" /\ writing' = "end" /\ fields' = [fields EXCEPT !.first = Period]
         \/ writing = "end" /\ writing' = "done" /\ fields' = [fields EXCEPT !.end = Period]
Done == writing = "done" /\ writing' = "idle" /\ sequence' = sequence + 1

Publish == /\ \/ Begin /\ UNCHANGED fields
              \/ Write /\ UNCHANGED sequence
              \/ Done /\ UNCHANGED fields
           /\ UNCHANGED readers

----------------------------------------------------------------------------
(* seconds_at. *)

Go(r, s) == readers' = [readers EXCEPT ![r].step = s]
Retry(r) == readers' = [readers EXCEPT ![r].step = IF readers[r].tries = 3 THEN "none" ELSE "before"]

Ask(r) == /\ readers[r].step \in {"idle", "some", "none"}
          /\ readers' = [readers EXCEPT ![r] = [step |-> "before", before |-> 0, read |-> NoRead,
                                                tries |-> 0]]
Before(r) ==
  /\ readers[r].step = "before"
  /\ LET again == [readers[r] EXCEPT !.tries = @ + 1, !.before = sequence] IN
     readers' = [readers EXCEPT ![r] =
                   IF sequence # 0 /\ sequence % 2 = 0 THEN [again EXCEPT !.step = "time"]
                   ELSE IF again.tries = 3 THEN [again EXCEPT !.step = "none"] ELSE again]
ReadTime(r) == /\ readers[r].step = "time"
               /\ readers' = [readers EXCEPT ![r].step = "first", ![r].read.time = fields.time]
ReadFirst(r) == /\ readers[r].step = "first"
                /\ readers' = [readers EXCEPT ![r].step = "end", ![r].read.first = fields.first]
ReadEnd(r) == /\ readers[r].step = "end"
              /\ readers' = [readers EXCEPT ![r].step = "after", ![r].read.end = fields.end]
\* (mutant) the count is not looked at again
AfterAnyCount(r) == readers[r].step = "after" /\ Go(r, "some")
After(r) == /\ readers[r].step = "after"
            /\ IF readers[r].before = sequence THEN Go(r, "some") ELSE Retry(r)

Read(r) == /\ Ask(r) \/ Before(r) \/ ReadTime(r) \/ ReadFirst(r) \/ ReadEnd(r) \/ After(r)
           /\ UNCHANGED <<sequence, fields, writing>>
----------------------------------------------------------------------------
ClockInit ==
  /\ sequence = 0 /\ fields = NoRead /\ writing = "idle"
  /\ readers = [r \in Readers |-> [step |-> "idle", before |-> 0, read |-> NoRead, tries |-> 0]]

ClockNext == Publish \/ \E r \in Readers : Read(r)

ClockSpec == ClockInit /\ [][ClockNext]_clockVars

----------------------------------------------------------------------------
(* Properties. *)

\* "The sequence keeps the timestamp and sample range consistent even if a reader races
\* the next callback": what a reader gets is of one period, and of the one that was
\* complete when the reader began its try.
OnePeriod ==
  \A r \in Readers : readers[r].step = "some" =>
    /\ readers[r].read.time = readers[r].read.first
    /\ readers[r].read.first = readers[r].read.end
    /\ 2 * readers[r].read.end = readers[r].before
=============================================================================
