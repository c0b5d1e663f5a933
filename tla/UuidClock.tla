----------------------------- MODULE UuidClock ------------------------------
(***************************************************************************)
(* The version 1 UUIDs of lib_uuid.c: the time, a clock sequence that is   *)
(* changed when the time went back, and a file that remembers both from    *)
(* one start of the process to the next, but is written only once in a     *)
(* while.  Sessions, agents, items, assets and requests are told apart by  *)
(* these numbers alone.                                                    *)
(*                                                                         *)
(* The clock is read in units of TICKS timestamps.  The node id has a file *)
(* of its own, is taken to stay, and is left out.                          *)
(***************************************************************************)
EXTENDS Integers

CONSTANTS
  TICKS,             \* 100 ns ticks of one clock reading: 10 with gettimeofday
  UUIDS_PER_TICK,
  PerReading,        \* uuids the program can create during one reading
  SAVE_INTERVAL,     \* in ticks
  SEQUENCES,         \* 2^14: clock sequences that fit a UUID
  MaxClock, MaxBack, MaxRestarts     \* bounds

ASSUME TicksAssumption == TICKS \in Nat \ {0} /\ UUIDS_PER_TICK \in Nat
\* Creating a uuid takes longer than one tick.
ASSUME PerReadingAssumption == PerReading \in 1 .. TICKS
ASSUME SequencesAssumption == SEQUENCES \in Nat \ {0} /\ SAVE_INTERVAL \in Nat \ {0}
\* The clock is set back less often than clock sequences are used up.
ASSUME BoundsAssumption == MaxClock \in Nat /\ MaxRestarts \in Nat /\ MaxBack \in 0 .. SEQUENCES - 1

VARIABLES
  clock,
  time_last, uuids_this_tick,     \* of get_current_time
  st,           \* the state in memory; of read_state: was the file read?
  inited,
  next_save,    \* of write_state
  saving,       \* has write_state been called by this process?
  file,         \* the file "state"
  used,         \* the uuids created, ever
  repeated,     \* was one of them created twice?
  backs, restarts

process == <<time_last, uuids_this_tick, st, inited, next_save, saving>>
vars == <<clock, process, file, used, repeated, backs, restarts>>

Never == -1
NoState == [cs |-> 0, ts |-> Never]
CS == 0 .. 4 * SEQUENCES - 1      \* unsigned16

Fresh ==
  /\ time_last' = Never /\ uuids_this_tick' = UUIDS_PER_TICK
  /\ st' = NoState /\ inited' = FALSE
  /\ next_save' = Never /\ saving' = FALSE

Init ==
  /\ clock = 0
  /\ time_last = Never /\ uuids_this_tick = UUIDS_PER_TICK
  /\ st = NoState /\ inited = FALSE /\ next_save = Never /\ saving = FALSE
  /\ file = NoState
  /\ used = {} /\ repeated = FALSE /\ backs = 0 /\ restarts = 0

\* How many uuids were created before at this reading of the clock.
CountNow == IF time_last # clock THEN 0 ELSE uuids_this_tick + 1

Timestamp == clock * TICKS + CountNow

\* read_state: the file, or what it was read into; none at the first start.
ReadState == IF inited THEN st ELSE file

\* Seeded fault: the sequence in memory is not kept from one call to the next.
ClockSequenceOfFile(ts) ==
  IF file = NoState THEN CS
  ELSE IF ts < ReadState.ts THEN {(file.cs + 1) % (4 * SEQUENCES)}
  ELSE {file.cs}

\* true_random without a file, one more when the time went back.
ClockSequence(ts) ==
  IF ReadState = NoState THEN CS
  ELSE IF ts < ReadState.ts THEN {(ReadState.cs + 1) % (4 * SEQUENCES)}
  ELSE {ReadState.cs}

\* Seeded fault: the next save is scheduled although the file was not written.
WriteStateNever(new) ==
  /\ st' = new /\ saving' = TRUE /\ next_save' = new.ts + SAVE_INTERVAL
  /\ UNCHANGED file

\* write_state: always to memory, to the file at the first call and when the
\* interval is over.
WriteState(new) ==
  /\ st' = new /\ saving' = TRUE
  /\ IF ~saving \/ new.ts >= next_save
       THEN file' = new /\ next_save' = new.ts + SAVE_INTERVAL
       ELSE UNCHANGED <<file, next_save>>

\* format_uuid_v1 keeps 14 bits of the clock sequence.
Uuid(state) == <<state.ts, state.cs % SEQUENCES>>

\* uuid_create.  When UUIDS_PER_TICK are used up it waits for another reading.
Create ==
  /\ CountNow <= UUIDS_PER_TICK /\ CountNow < PerReading
  /\ time_last' = clock /\ uuids_this_tick' = CountNow
  /\ \E cs \in ClockSequence(Timestamp) :
       LET new == [cs |-> cs, ts |-> Timestamp] IN
       /\ WriteState(new)
       /\ used' = used \cup {Uuid(new)}
       /\ repeated' = (repeated \/ Uuid(new) \in used)
  /\ inited' = (inited \/ file # NoState)
  /\ UNCHANGED <<clock, backs, restarts>>

ClockAdvances ==
  /\ clock < MaxClock /\ clock' = clock + 1
  /\ UNCHANGED <<process, file, used, repeated, backs, restarts>>

ClockSetBack ==
  /\ backs < MaxBack /\ backs' = backs + 1
  /\ clock' \in 0 .. clock - 1
  /\ UNCHANGED <<process, file, used, repeated, restarts>>

\* The process ends at any point and is started again, which takes longer
\* than one reading of the clock.
Restart ==
  /\ restarts < MaxRestarts /\ restarts' = restarts + 1
  /\ clock < MaxClock /\ clock' = clock + 1
  /\ Fresh
  /\ UNCHANGED <<file, used, repeated, backs>>

Next == Create \/ ClockAdvances \/ ClockSetBack \/ Restart

Spec == Init /\ [][Next]_vars

-----------------------------------------------------------------------------
(* Properties. *)

States == [cs : CS, ts : Int]

\* What the process and the file keep has its type.
TypeOK ==
  /\ clock \in Nat /\ time_last \in Int /\ uuids_this_tick \in 0 .. UUIDS_PER_TICK
  /\ st \in States /\ file \in States
  /\ inited \in BOOLEAN /\ saving \in BOOLEAN /\ repeated \in BOOLEAN
  /\ next_save \in Int
  /\ used \subseteq Int \X Int
  /\ backs \in Nat /\ restarts \in Nat

\* No uuid is created twice while the clock only advances, however often the
\* process dies between two writes of its file, and none while the process
\* runs, however the clock is set back: the sequence in memory counts the times.
UuidsDistinct == backs = 0 \/ restarts = 0 => ~repeated

\* A process that died loses at most SAVE_INTERVAL of what it did, while the
\* clock advances: what its file says is not older.
FileIsRecent ==
  backs = 0 /\ saving => file.cs = st.cs /\ file.ts <= st.ts /\ st.ts < file.ts + SAVE_INTERVAL
=============================================================================
