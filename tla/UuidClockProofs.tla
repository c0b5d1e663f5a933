-------------------------- MODULE UuidClockProofs ---------------------------
(***************************************************************************)
(* UUIDs are distinct as long as only one of two things happens.  While    *)
(* the clock is not set back, what was created lies before what is created *)
(* next, for any resolution of the clock, number of restarts and interval  *)
(* of the file.  While one process runs, the clock sequence tells apart    *)
(* what was created before and after the clock was set back.               *)
(***************************************************************************)
EXTENDS UuidClock, TLAPS

\* What is left of the current reading lies after timestamp t.
Before(t) ==
  IF time_last = clock THEN t <= clock * TICKS + uuids_this_tick ELSE t < clock * TICKS

\* All that exists lies before, and the reading has not run over.
Ahead ==
  /\ time_last <= clock
  /\ time_last = clock => uuids_this_tick < PerReading
  /\ \A u \in used : Before(u[1])
  /\ Before(st.ts) /\ Before(file.ts)

\* The file of a process that has written it.
FileWritten == saving => file.ts >= 0 /\ next_save = file.ts + SAVE_INTERVAL

IInv ==
  /\ TypeOK
  /\ FileWritten
  /\ backs = 0 => Ahead /\ ~repeated /\ FileIsRecent

-----------------------------------------------------------------------------

LEMMA Products ==
  \A c \in Nat : c * TICKS \in Nat /\ (c + 1) * TICKS = c * TICKS + TICKS
BY TicksAssumption

LEMMA Modulo == ASSUME NEW n \in Int, NEW d \in Nat \ {0} PROVE n % d \in 0 .. d - 1
OBVIOUS

LEMMA SequenceInRange ==
  ASSUME TypeOK, NEW ts, NEW cs \in ClockSequence(ts)
  PROVE  cs \in CS
<1>1. ReadState \in States BY DEF TypeOK, ReadState
<1>2. (ReadState.cs + 1) % (4 * SEQUENCES) \in CS
  <2>1. ReadState.cs + 1 \in Int BY <1>1 DEF States, CS
  <2>2. 4 * SEQUENCES \in Nat \ {0} BY SequencesAssumption
  <2> QED BY <2>1, <2>2, Modulo, Zenon DEF CS
<1> QED BY <1>1, <1>2 DEF ClockSequence, States

LEMMA InitInv == Init => IInv
<1> SUFFICES ASSUME Init PROVE IInv OBVIOUS
<1>1. 0 \in CS BY SequencesAssumption DEF CS
<1>2. TypeOK
  <2>1. st \in States /\ file \in States BY <1>1 DEF Init, States, NoState, Never
  <2>2. inited \in BOOLEAN /\ saving \in BOOLEAN /\ repeated \in BOOLEAN BY Zenon DEF Init
  <2>3. /\ clock \in Nat /\ time_last \in Int /\ uuids_this_tick \in 0 .. UUIDS_PER_TICK
        /\ next_save \in Int /\ used = {} /\ backs \in Nat /\ restarts \in Nat
    BY TicksAssumption DEF Init, Never
  <2> QED BY <2>1, <2>2, <2>3 DEF TypeOK
<1>3. Ahead
  BY TicksAssumption DEF Init, Ahead, Before, NoState, Never
<1> QED BY <1>2, <1>3 DEF Init, IInv, FileWritten, FileIsRecent

-----------------------------------------------------------------------------
(* Creating. *)

LEMMA CreateType == IInv /\ Create => TypeOK'
<1> SUFFICES ASSUME IInv, Create PROVE TypeOK' OBVIOUS
<1>1. TypeOK BY DEF IInv
<1>2. PICK cs \in ClockSequence(Timestamp) :
        LET new == [cs |-> cs, ts |-> Timestamp] IN
        WriteState(new) /\ used' = used \cup {Uuid(new)}
  BY Zenon DEF Create
<1> DEFINE new == [cs |-> cs, ts |-> Timestamp]
<1>3. CountNow \in 0 .. UUIDS_PER_TICK
  BY <1>1, TicksAssumption DEF Create, CountNow, TypeOK
<1>4. Timestamp \in Nat
  BY <1>1, <1>3, Products, TicksAssumption DEF Timestamp, TypeOK
<1>5. cs \in CS BY <1>1, <1>2, SequenceInRange
<1>6. new \in States BY <1>4, <1>5 DEF States
<1>7. Uuid(new) \in Int \X Int
  BY <1>4, <1>5, SequencesAssumption, Modulo DEF Uuid, CS
<1>8. st' \in States /\ file' \in States /\ saving' \in BOOLEAN /\ next_save' \in Int
  BY <1>1, <1>2, <1>4, <1>6, SequencesAssumption DEF WriteState, TypeOK
<1>9. used' \subseteq Int \X Int
  BY <1>1, <1>2, <1>7 DEF TypeOK
<1>10. time_last' \in Int /\ uuids_this_tick' \in 0 .. UUIDS_PER_TICK
  BY <1>1, <1>3 DEF Create, TypeOK
<1>11. inited' \in BOOLEAN /\ repeated' \in BOOLEAN
  BY <1>1, Zenon DEF Create, TypeOK
<1>12. clock' \in Nat /\ backs' \in Nat /\ restarts' \in Nat
  BY <1>1 DEF Create, TypeOK
<1> QED BY <1>8, <1>9, <1>10, <1>11, <1>12 DEF TypeOK

LEMMA CreateAhead ==
  ASSUME IInv, Create, backs = 0
  PROVE  Ahead' /\ ~repeated' /\ FileIsRecent' /\ st'.ts >= st.ts
<1>1. TypeOK /\ Ahead /\ ~repeated /\ FileIsRecent /\ FileWritten BY DEF IInv
<1>2. PICK cs \in ClockSequence(Timestamp) :
        LET new == [cs |-> cs, ts |-> Timestamp] IN
        /\ WriteState(new) /\ used' = used \cup {Uuid(new)}
        /\ repeated' = (repeated \/ Uuid(new) \in used)
  BY Zenon DEF Create
<1> DEFINE new == [cs |-> cs, ts |-> Timestamp]
<1>3. CountNow \in 0 .. PerReading - 1
  BY <1>1, TicksAssumption, PerReadingAssumption DEF Create, CountNow, TypeOK
<1>4. Timestamp \in Nat /\ clock * TICKS \in Nat /\ Timestamp = clock * TICKS + CountNow
  BY <1>1, <1>3, Products, PerReadingAssumption, TicksAssumption DEF Timestamp, TypeOK
<1>5. ASSUME NEW t \in Int, Before(t) PROVE t < Timestamp
  BY <1>1, <1>3, <1>4, <1>5 DEF Before, CountNow, TypeOK
<1>6. time_last' = clock' /\ uuids_this_tick' = CountNow /\ clock' = clock
  BY DEF Create
<1>7. Before(st.ts) /\ Before(file.ts) /\ st.ts \in Int /\ file.ts \in Int
  BY <1>1 DEF Ahead, TypeOK, States
<1>8. st.ts < Timestamp /\ file.ts < Timestamp BY <1>5, <1>7
<1>9. Uuid(new) \notin used
  <2>1. SUFFICES ASSUME Uuid(new) \in used PROVE FALSE OBVIOUS
  <2>2. Before(Uuid(new)[1]) BY <1>1, <2>1 DEF Ahead
  <2>3. Uuid(new)[1] = Timestamp BY DEF Uuid
  <2> QED BY <1>4, <1>5, <2>2, <2>3
<1>10. st' = new /\ (file' = new \/ file' = file)
  BY <1>2 DEF WriteState
<1>11. Ahead'
  <2>1. \A t \in Int : t <= Timestamp => Before(t)'
    BY <1>4, <1>6 DEF Before
  <2>2. ASSUME NEW u \in used' PROVE Before(u[1])'
    <3>1. CASE u \in used
      <4>1. u[1] \in Int /\ Before(u[1]) BY <1>1, <3>1 DEF Ahead, TypeOK
      <4>2. u[1] <= Timestamp BY <1>4, <1>5, <4>1
      <4> QED BY <2>1, <4>1, <4>2
    <3>2. CASE u = Uuid(new)
      <4>1. u[1] = Timestamp BY <3>2 DEF Uuid
      <4> QED BY <1>4, <2>1, <4>1
    <3> QED BY <1>2, <2>2, <3>1, <3>2
  <2>3. Before(st.ts)' /\ Before(file.ts)'
    <3>1. st'.ts = Timestamp /\ file'.ts \in Int /\ file'.ts <= Timestamp
      BY <1>4, <1>7, <1>8, <1>10
    <3> QED BY <1>4, <2>1, <3>1 DEF Before
  <2>4. time_last' <= clock' /\ uuids_this_tick' < PerReading
    BY <1>1, <1>3, <1>6, PerReadingAssumption, TicksAssumption DEF TypeOK
  <2> QED BY <2>2, <2>3, <2>4 DEF Ahead
<1>12. FileIsRecent'
  <2>1. CASE file' = new
    BY <1>4, <1>10, <2>1, SequencesAssumption DEF FileIsRecent
  <2>2. CASE file' = file /\ saving /\ Timestamp < next_save
    <3>1. file.cs = st.cs /\ file.ts >= 0 /\ next_save = file.ts + SAVE_INTERVAL
      BY <1>1, <2>2 DEF FileIsRecent, FileWritten
    <3>2. ReadState # NoState /\ ReadState.cs = file.cs
      <4>1. st.ts >= 0 BY <1>1, <1>7, <2>2, <3>1 DEF FileIsRecent
      <4> QED BY <3>1, <4>1 DEF ReadState, NoState, Never
    <3>3. ~(Timestamp < ReadState.ts) BY <1>4, <1>7, <1>8 DEF ReadState
    <3>4. cs = file.cs BY <1>2, <3>2, <3>3 DEF ClockSequence
    <3>5. st'.cs = file'.cs /\ st'.ts = Timestamp /\ file'.ts = file.ts
      BY <1>10, <2>2, <3>4
    <3> QED BY <1>8, <2>2, <3>1, <3>5, <1>4, <1>7 DEF FileIsRecent
  <2>3. file' = new \/ (file' = file /\ saving /\ ~(Timestamp >= next_save))
    BY <1>2 DEF WriteState
  <2>4. next_save \in Int BY <1>1 DEF TypeOK
  <2> QED BY <1>4, <2>1, <2>2, <2>3, <2>4
<1>13. ~repeated' BY <1>1, <1>2, <1>9
<1> QED BY <1>4, <1>7, <1>8, <1>10, <1>11, <1>12, <1>13

LEMMA CreateInv == IInv /\ Create => IInv'
<1> SUFFICES ASSUME IInv, Create PROVE IInv' OBVIOUS
<1>1. TypeOK' BY CreateType
<1>2. FileWritten'
  <2>1. TypeOK /\ FileWritten BY DEF IInv
  <2>2. PICK cs \in ClockSequence(Timestamp) : WriteState([cs |-> cs, ts |-> Timestamp])
    BY Zenon DEF Create
  <2>3. Timestamp >= 0
    <3>1. CountNow \in Nat BY <2>1, TicksAssumption DEF Create, CountNow, TypeOK
    <3> QED BY <2>1, <3>1, Products, TicksAssumption DEF Timestamp, TypeOK
  <2> QED BY <2>1, <2>2, <2>3 DEF WriteState, FileWritten
<1>3. backs' = 0 => Ahead' /\ ~repeated' /\ FileIsRecent'
  <2>1. backs' = backs BY DEF Create
  <2> QED BY <2>1, CreateAhead
<1> QED BY <1>1, <1>2, <1>3 DEF IInv

-----------------------------------------------------------------------------
(* The clock and the process. *)

LEMMA LaterReading ==
  ASSUME TypeOK, Ahead, clock' = clock + 1, NEW t \in Int, Before(t)
  PROVE  t < clock' * TICKS
<1>1. clock * TICKS \in Nat /\ clock' * TICKS = clock * TICKS + TICKS
  BY Products DEF TypeOK
<1> QED BY <1>1, TicksAssumption, PerReadingAssumption DEF Before, Ahead, TypeOK

LEMMA AdvanceInv == IInv /\ ClockAdvances => IInv'
<1> SUFFICES ASSUME IInv, ClockAdvances PROVE IInv' OBVIOUS
<1>1. TypeOK BY DEF IInv
<1>2. TypeOK' BY <1>1 DEF ClockAdvances, process, TypeOK
<1>3. FileWritten' BY DEF IInv, ClockAdvances, process, FileWritten
<1>4. ASSUME backs = 0 PROVE Ahead'
  <2>1. Ahead /\ clock' = clock + 1 BY <1>4 DEF IInv, ClockAdvances
  <2>2. time_last' < clock'
    BY <1>1, <2>1 DEF Ahead, ClockAdvances, process, TypeOK
  <2>3. ASSUME NEW t \in Int, Before(t) PROVE Before(t)'
    BY <1>1, <2>1, <2>2, <2>3, LaterReading DEF Before, TypeOK
  <2>4. \A u \in used' : Before(u[1])'
    <3>1. \A u \in used : u[1] \in Int /\ Before(u[1]) BY <1>1, <2>1 DEF Ahead, TypeOK
    <3>2. used' = used BY DEF ClockAdvances
    <3>3. \A u \in used : Before(u[1])' BY <2>3, <3>1
    <3> QED BY <3>2, <3>3 DEF Before
  <2>5. Before(st.ts)' /\ Before(file.ts)'
    <3>1. st.ts \in Int /\ file.ts \in Int /\ Before(st.ts) /\ Before(file.ts)
      BY <1>1, <2>1 DEF Ahead, TypeOK, States
    <3>2. st' = st /\ file' = file BY DEF ClockAdvances, process
    <3> QED BY <1>1, <2>1, <2>2, <3>1, <3>2, LaterReading DEF Before
  <2> QED BY <1>2, <2>2, <2>4, <2>5 DEF Ahead, TypeOK
<1>5. ASSUME backs = 0 PROVE ~repeated' /\ FileIsRecent'
  BY <1>5 DEF IInv, ClockAdvances, process, FileIsRecent
<1>6. backs' = backs BY DEF ClockAdvances
<1> QED BY <1>2, <1>3, <1>4, <1>5, <1>6 DEF IInv

LEMMA SetBackInv == IInv /\ ClockSetBack => IInv'
<1> SUFFICES ASSUME IInv, ClockSetBack PROVE IInv' OBVIOUS
<1>1. TypeOK' BY DEF IInv, ClockSetBack, process, TypeOK
<1>2. FileWritten' BY DEF IInv, ClockSetBack, process, FileWritten
<1>3. backs' # 0 BY DEF IInv, ClockSetBack, TypeOK
<1> QED BY <1>1, <1>2, <1>3 DEF IInv

LEMMA RestartInv == IInv /\ Restart => IInv'
<1> SUFFICES ASSUME IInv, Restart PROVE IInv' OBVIOUS
<1>1. TypeOK BY DEF IInv
<1>2. NoState \in States BY SequencesAssumption DEF NoState, Never, States, CS
<1>3. TypeOK'
  <2>1. st' \in States /\ file' \in States BY <1>1, <1>2 DEF Restart, Fresh, TypeOK
  <2>2. inited' \in BOOLEAN /\ saving' \in BOOLEAN /\ repeated' \in BOOLEAN
    BY <1>1, Zenon DEF Restart, Fresh, TypeOK
  <2>3. /\ clock' \in Nat /\ time_last' \in Int /\ uuids_this_tick' \in 0 .. UUIDS_PER_TICK
        /\ next_save' \in Int /\ used' \subseteq Int \X Int
        /\ backs' \in Nat /\ restarts' \in Nat
    BY <1>1, TicksAssumption DEF Restart, Fresh, Never, TypeOK
  <2> QED BY <2>1, <2>2, <2>3 DEF TypeOK
<1>4. FileWritten' BY DEF Restart, Fresh, FileWritten
<1>5. ASSUME backs = 0 PROVE Ahead'
  <2>1. Ahead /\ clock' = clock + 1 BY <1>5 DEF IInv, Restart
  <2>2. time_last' = Never /\ time_last' < clock'
    BY <1>3, <2>1 DEF Restart, Fresh, Never, TypeOK
  <2>3. \A u \in used' : Before(u[1])'
    <3>1. \A u \in used : u[1] \in Int /\ Before(u[1]) BY <1>1, <2>1 DEF Ahead, TypeOK
    <3>2. \A u \in used : u[1] < clock' * TICKS BY <1>1, <2>1, <3>1, LaterReading
    <3>3. used' = used BY DEF Restart
    <3> QED BY <1>3, <2>2, <3>2, <3>3 DEF Before, TypeOK
  <2>4. Before(file.ts)'
    <3>1. file.ts \in Int /\ Before(file.ts) BY <1>1, <2>1 DEF Ahead, TypeOK, States
    <3>2. file' = file BY DEF Restart
    <3> QED BY <1>1, <1>3, <2>1, <2>2, <3>1, <3>2, LaterReading DEF Before, TypeOK
  <2>5. Before(st.ts)'
    <3>1. st'.ts = Never BY DEF Restart, Fresh, NoState
    <3>2. clock' * TICKS \in Nat BY <1>3, Products DEF TypeOK
    <3> QED BY <1>3, <2>2, <3>1, <3>2 DEF Before, Never, TypeOK
  <2> QED BY <1>3, <2>2, <2>3, <2>4, <2>5 DEF Ahead, TypeOK
<1>6. ASSUME backs = 0 PROVE ~repeated' /\ FileIsRecent'
  BY <1>6 DEF IInv, Restart, Fresh, FileIsRecent
<1>7. backs' = backs BY DEF Restart
<1> QED BY <1>3, <1>4, <1>5, <1>6, <1>7 DEF IInv

LEMMA StutterInv == IInv /\ UNCHANGED vars => IInv'
BY DEF IInv, vars, process, TypeOK, FileWritten, FileIsRecent, Ahead, Before

LEMMA Invariance == Spec => []IInv
<1>1. IInv /\ [Next]_vars => IInv'
  BY CreateInv, AdvanceInv, SetBackInv, RestartInv, StutterInv DEF Next
<1> QED BY InitInv, <1>1, PTL DEF Spec

-----------------------------------------------------------------------------
(* Setting the clock back while the process runs. *)

\* u was created m changes of the sequence ago.
CreatedAt(u, m) ==
  /\ \E k \in Int : st.cs = u[2] + m + k * SEQUENCES
  /\ m = 0 => u[1] <= st.ts

\* The sequence in memory is that of the last uuid, and changed at most once
\* each time the clock was set back.
Counted ==
  /\ ReadState = st
  /\ IF st = NoState
       THEN used = {} /\ time_last = Never
       ELSE /\ st.ts = time_last * TICKS + uuids_this_tick
            /\ time_last \in Nat /\ uuids_this_tick < PerReading
  /\ \E n \in 0 .. backs :
       /\ clock < time_last => n < backs
       /\ \A u \in used : \E m \in 0 .. n : CreatedAt(u, m)

CInv ==
  /\ backs <= MaxBack
  /\ restarts = 0 => Counted /\ ~repeated

LEMMA Multiples ==
  ASSUME NEW d \in Int, NEW n \in Nat
  PROVE  /\ d * n \in Int
         /\ d <= 0 => d * n <= 0
         /\ d >= 1 => d * n >= n
<1>1. \A a \in Nat : a * n \in Nat OBVIOUS
<1>2. (0 - d) * n = 0 - (d * n) /\ (d - 1) * n = d * n - n /\ d * n \in Int OBVIOUS
<1>3. ASSUME d <= 0 PROVE d * n <= 0
  <2>1. (0 - d) * n \in Nat BY <1>1, <1>3
  <2> QED BY <1>2, <2>1
<1>4. ASSUME d >= 1 PROVE d * n >= n
  <2>1. (d - 1) * n \in Nat BY <1>1, <1>4
  <2> QED BY <1>2, <2>1
<1> QED BY <1>2, <1>3, <1>4

LEMMA NoMultiple ==
  ASSUME NEW d \in Int, NEW m \in 1 .. SEQUENCES - 1
  PROVE  m # d * SEQUENCES
<1>1. d <= 0 \/ d >= 1 OBVIOUS
<1> QED BY <1>1, Multiples, SequencesAssumption

LEMMA Remainder ==
  ASSUME NEW d \in Nat \ {0}, NEW r \in 0 .. d - 1, NEW q \in Int
  PROVE  (d * q + r) % d = r
OBVIOUS

\* The 14 bits of a UUID are those of the sequence.
LEMMA Quotient ==
  ASSUME NEW cs \in CS
  PROVE  \E k \in Int : cs = (cs % SEQUENCES) + k * SEQUENCES
<1> DEFINE r(q) == cs - SEQUENCES * q
<1>1. PICK q \in 0 .. 3 : r(q) \in 0 .. SEQUENCES - 1
  <2>1. r(0) \in 0 .. SEQUENCES - 1 \/ r(1) \in 0 .. SEQUENCES - 1
        \/ r(2) \in 0 .. SEQUENCES - 1 \/ r(3) \in 0 .. SEQUENCES - 1
    BY SequencesAssumption DEF CS
  <2> QED BY <2>1
<1>2. SEQUENCES * q \in Int /\ SEQUENCES * q = q * SEQUENCES /\ cs \in Int
  <2>1. \A a, b \in Int : a * b \in Int /\ a * b = b * a OBVIOUS
  <2>2. q \in Int /\ SEQUENCES \in Int BY SequencesAssumption
  <2>3. cs \in Int BY SequencesAssumption DEF CS
  <2> QED BY <2>1, <2>2, <2>3, Zenon
<1>3. (SEQUENCES * q + r(q)) % SEQUENCES = r(q)
  <2>1. q \in Int /\ SEQUENCES \in Nat \ {0} BY SequencesAssumption
  <2> HIDE DEF r
  <2> QED BY <1>1, <2>1, Remainder
<1>4. SEQUENCES * q + r(q) = cs BY <1>2
<1>5. cs % SEQUENCES = r(q) BY <1>3, <1>4
<1>6. cs = (cs % SEQUENCES) + q * SEQUENCES BY <1>2, <1>5
<1> QED BY <1>6

LEMMA NextSequence ==
  ASSUME NEW cs \in CS
  PROVE  \/ (cs + 1) % (4 * SEQUENCES) = cs + 1
         \/ (cs + 1) % (4 * SEQUENCES) = cs + 1 - 4 * SEQUENCES
<1> DEFINE d == 4 * SEQUENCES
<1>1. d \in Nat \ {0} /\ cs \in 0 .. d - 1 BY SequencesAssumption DEF CS
<1> HIDE DEF d
<1>2. ASSUME cs + 1 < d PROVE (cs + 1) % d = cs + 1 BY <1>1, <1>2
<1>3. ASSUME cs + 1 = d PROVE (cs + 1) % d = cs + 1 - d
  <2>1. d % d = 0 BY <1>1
  <2> QED BY <1>1, <1>3, <2>1
<1>4. (cs + 1) % d = cs + 1 \/ (cs + 1) % d = cs + 1 - d BY <1>1, <1>2, <1>3
<1> QED BY <1>4 DEF d

LEMMA Differ ==
  ASSUME NEW cs \in CS, NEW m \in 1 .. SEQUENCES - 1, NEW k \in Int
  PROVE  cs # (cs % SEQUENCES) + m + k * SEQUENCES
<1>1. PICK q \in Int : cs = (cs % SEQUENCES) + q * SEQUENCES BY Quotient
<1>2. \A a, b, c \in Int : (a - b) * c = a * c - b * c /\ a * c \in Int OBVIOUS
<1>3. (q - k) * SEQUENCES = q * SEQUENCES - k * SEQUENCES
      /\ q * SEQUENCES \in Int /\ k * SEQUENCES \in Int
  BY <1>2, SequencesAssumption
<1>4. m # (q - k) * SEQUENCES BY NoMultiple
<1>5. cs % SEQUENCES \in Int BY Modulo, SequencesAssumption DEF CS
<1> QED BY <1>1, <1>3, <1>4, <1>5

\* The next timestamp is the last one only if the clock says so.
LEMMA TimestampMoves ==
  ASSUME TypeOK, CountNow \in 0 .. PerReading - 1, uuids_this_tick < PerReading,
         time_last \in Nat, st.ts = time_last * TICKS + uuids_this_tick
  PROVE  IF clock < time_last THEN Timestamp < st.ts ELSE Timestamp > st.ts
<1>1. \A a, b \in Nat : a * TICKS \in Nat /\ b * TICKS = a * TICKS + (b - a) * TICKS
  BY TicksAssumption
<1>2. \A d \in Int : d >= 1 => d * TICKS >= TICKS /\ d * TICKS \in Int
  BY Multiples, TicksAssumption
<1>3. clock \in Nat /\ PerReading <= TICKS /\ {PerReading, TICKS} \subseteq Nat /\ uuids_this_tick \in Nat
  BY PerReadingAssumption, TicksAssumption DEF TypeOK
<1>4. CASE clock = time_last
  BY <1>1, <1>3, <1>4 DEF Timestamp, CountNow
<1>5. CASE clock < time_last
  <2>1. time_last * TICKS = clock * TICKS + (time_last - clock) * TICKS BY <1>1, <1>3
  <2>2. (time_last - clock) * TICKS >= TICKS /\ (time_last - clock) * TICKS \in Int
    BY <1>2, <1>3, <1>5
  <2>3. clock * TICKS \in Nat /\ time_last * TICKS \in Nat BY <1>1, <1>3
  <2>4. \A c, l, d \in Int : l = c + d /\ d >= TICKS => c + CountNow < l + uuids_this_tick
    BY <1>3
  <2>5. clock * TICKS + CountNow < time_last * TICKS + uuids_this_tick
    BY <2>1, <2>2, <2>3, <2>4
  <2> QED BY <1>5, <2>5 DEF Timestamp
<1>6. CASE clock > time_last
  <2>1. clock * TICKS = time_last * TICKS + (clock - time_last) * TICKS BY <1>1, <1>3
  <2>2. (clock - time_last) * TICKS >= TICKS /\ (clock - time_last) * TICKS \in Int
    BY <1>2, <1>3, <1>6
  <2>3. clock * TICKS \in Nat /\ time_last * TICKS \in Nat BY <1>1, <1>3
  <2>4. \A c, l, d \in Int : c = l + d /\ d >= TICKS => c + CountNow > l + uuids_this_tick
    BY <1>3
  <2>5. clock * TICKS + CountNow > time_last * TICKS + uuids_this_tick
    BY <2>1, <2>2, <2>3, <2>4
  <2> QED BY <1>3, <1>6, <2>5 DEF Timestamp
<1> QED BY <1>3, <1>4, <1>5, <1>6

LEMMA CreateCounted ==
  ASSUME IInv, CInv, Create, restarts = 0
  PROVE  Counted' /\ ~repeated'
<1>1. TypeOK /\ FileWritten /\ Counted /\ ~repeated /\ backs <= MaxBack
  BY DEF IInv, CInv
<1>2. PICK cs \in ClockSequence(Timestamp) :
        LET new == [cs |-> cs, ts |-> Timestamp] IN
        /\ WriteState(new) /\ used' = used \cup {Uuid(new)}
        /\ repeated' = (repeated \/ Uuid(new) \in used)
  BY Zenon DEF Create
<1> DEFINE new == [cs |-> cs, ts |-> Timestamp]
<1>3. CountNow \in 0 .. PerReading - 1
  BY <1>1, TicksAssumption, PerReadingAssumption DEF Create, CountNow, TypeOK
<1>4. Timestamp \in Nat /\ Timestamp = clock * TICKS + CountNow
  BY <1>1, <1>3, Products, PerReadingAssumption, TicksAssumption DEF Timestamp, TypeOK
<1>5. cs \in CS BY <1>1, <1>2, SequenceInRange
<1>6. st' = new /\ st'.cs = cs /\ st'.ts = Timestamp BY <1>2 DEF WriteState
<1>7. Uuid(new)[1] = Timestamp /\ Uuid(new)[2] = cs % SEQUENCES BY DEF Uuid
<1>8. ReadState' = st'
  <2>1. CASE inited' BY <2>1 DEF ReadState
  <2>2. CASE ~inited'
    <3>1. file = NoState BY <2>2 DEF Create
    <3>2. ~saving BY <1>1, <3>1 DEF FileWritten, NoState, Never
    <3>3. file' = new BY <1>2, <3>2 DEF WriteState
    <3> QED BY <1>6, <2>2, <3>3 DEF ReadState
  <2> QED BY <2>1, <2>2
<1>9. /\ st' # NoState /\ st'.ts = time_last' * TICKS + uuids_this_tick'
      /\ time_last' \in Nat /\ uuids_this_tick' < PerReading /\ ~(clock' < time_last')
  BY <1>1, <1>3, <1>4, <1>6, PerReadingAssumption, TicksAssumption
  DEF Create, NoState, Never, TypeOK
<1>10. ASSUME NEW u, u = Uuid(new) PROVE CreatedAt(u, 0)'
  <2>1. PICK k \in Int : cs = (cs % SEQUENCES) + k * SEQUENCES BY <1>5, Quotient
  <2>2. cs % SEQUENCES \in Int BY <1>5, Modulo, SequencesAssumption DEF CS
  <2>3. st'.cs = u[2] + 0 + k * SEQUENCES BY <1>6, <1>7, <1>10, <2>1, <2>2
  <2>4. u[1] <= st'.ts BY <1>4, <1>6, <1>7, <1>10
  <2> QED BY <2>3, <2>4 DEF CreatedAt
<1>11. PICK n \in 0 .. backs :
         /\ clock < time_last => n < backs
         /\ \A u \in used : \E m \in 0 .. n : CreatedAt(u, m)
  BY <1>1 DEF Counted
<1>12. \A u \in used : u[1] \in Int /\ u[2] \in Int BY <1>1 DEF TypeOK
<1>13. st \in States /\ backs \in Nat /\ backs <= SEQUENCES - 1
  BY <1>1, BoundsAssumption, SequencesAssumption DEF TypeOK
<1>14. \E c \in 0 .. backs : \A u \in used : u # Uuid(new) /\ \E m \in 0 .. c : CreatedAt(u, m)'
  <2>1. CASE st = NoState
    <3>1. used = {} BY <1>1, <2>1 DEF Counted
    <3> QED BY <1>13, <3>1
  <2>2. CASE st # NoState /\ Timestamp < st.ts
    <3>1. ReadState = st BY <1>1 DEF Counted
    <3>2. cs = (st.cs + 1) % (4 * SEQUENCES) BY <1>2, <2>2, <3>1 DEF ClockSequence
    <3>3. cs = st.cs + 1 \/ cs = st.cs + 1 - 4 * SEQUENCES
      BY <1>13, <3>2, NextSequence DEF States
    <3>4. clock < time_last
      BY <1>1, <1>3, <1>4, <1>13, <2>2, TimestampMoves DEF Counted, States
    <3>5. n + 1 \in 0 .. backs BY <1>11, <1>13, <3>4
    <3>6. ASSUME NEW u \in used
          PROVE  u # Uuid(new) /\ \E m \in 0 .. n + 1 : CreatedAt(u, m)'
      <4>1. PICK m \in 0 .. n, k \in Int : st.cs = u[2] + m + k * SEQUENCES
        BY <1>11 DEF CreatedAt
      <4>2. PICK l \in Int : cs = u[2] + (m + 1) + l * SEQUENCES
        <5>1. PICK p \in Int : p = k * SEQUENCES /\ p - 4 * SEQUENCES = (k - 4) * SEQUENCES
          BY SequencesAssumption
        <5>2. CASE cs = st.cs + 1 BY <1>12, <4>1, <5>1, <5>2
        <5>3. CASE cs = st.cs + 1 - 4 * SEQUENCES
          <6>1. st.cs = u[2] + m + p /\ u[2] \in Int BY <1>12, <4>1, <5>1
          <6>2. cs = u[2] + (m + 1) + (p - 4 * SEQUENCES)
            BY <5>3, <6>1, SequencesAssumption
          <6>3. cs = u[2] + (m + 1) + (k - 4) * SEQUENCES BY <5>1, <6>2
          <6> QED BY <6>3
        <5> QED BY <3>3, <5>2, <5>3
      <4>3. m + 1 \in 1 .. SEQUENCES - 1 /\ m + 1 \in 0 .. n + 1
        BY <1>13, <3>5, SequencesAssumption
      <4>4. u[2] # cs % SEQUENCES BY <1>5, <4>2, <4>3, Differ
      <4>5. CreatedAt(u, m + 1)' BY <1>6, <4>2, <4>3 DEF CreatedAt
      <4> QED BY <1>7, <4>3, <4>4, <4>5
    <3> QED BY <3>5, <3>6
  <2>3. CASE st # NoState /\ ~(Timestamp < st.ts)
    <3>1. ReadState = st BY <1>1 DEF Counted
    <3>2. cs = st.cs BY <1>2, <2>3, <3>1 DEF ClockSequence
    <3>3. st.ts < Timestamp
      BY <1>1, <1>3, <1>4, <1>13, <2>3, TimestampMoves DEF Counted, States
    <3>4. ASSUME NEW u \in used
          PROVE  u # Uuid(new) /\ \E m \in 0 .. n : CreatedAt(u, m)'
      <4>1. PICK m \in 0 .. n : CreatedAt(u, m) BY <1>11
      <4>2. PICK k \in Int : cs = u[2] + m + k * SEQUENCES BY <3>2, <4>1 DEF CreatedAt
      <4>3. m = 0 => u[1] < Timestamp
        BY <1>4, <1>12, <1>13, <3>3, <4>1 DEF CreatedAt, States
      <4>4. m # 0 => u[2] # cs % SEQUENCES
        <5>1. m # 0 => m \in 1 .. SEQUENCES - 1 BY <1>13, SequencesAssumption
        <5> QED BY <1>5, <4>2, <5>1, Differ
      <4>5. CreatedAt(u, m)'
        <5>1. m = 0 => u[1] <= st'.ts BY <1>4, <1>6, <1>12, <4>3
        <5> QED BY <1>6, <4>2, <5>1 DEF CreatedAt
      <4> QED BY <1>4, <1>7, <1>12, <4>3, <4>4, <4>5
    <3> QED BY <3>4
  <2> QED BY <2>1, <2>2, <2>3
<1>15. Counted'
  <2>1. PICK c \in 0 .. backs : \A u \in used : \E m \in 0 .. c : CreatedAt(u, m)'
    BY <1>14
  <2>2. ASSUME NEW u \in used' PROVE \E m \in 0 .. c : CreatedAt(u, m)'
    <3>1. u \in used \/ u = Uuid(new) BY <1>2
    <3>2. 0 \in 0 .. c OBVIOUS
    <3> QED BY <1>10, <2>1, <3>1, <3>2
  <2>3. backs' = backs BY DEF Create
  <2> QED BY <1>8, <1>9, <2>2, <2>3 DEF Counted
<1>16. ~repeated' BY <1>1, <1>2, <1>14
<1> QED BY <1>15, <1>16

LEMMA OthersCounted ==
  ASSUME IInv, CInv, ClockAdvances \/ ClockSetBack \/ UNCHANGED vars, restarts = 0
  PROVE  Counted' /\ ~repeated'
<1>1. TypeOK /\ Counted /\ ~repeated BY DEF IInv, CInv
<1>2. PICK n \in 0 .. backs :
         /\ clock < time_last => n < backs
         /\ \A u \in used : \E m \in 0 .. n : CreatedAt(u, m)
  BY <1>1 DEF Counted
<1>3. UNCHANGED <<process, file, used, repeated>>
  BY DEF ClockAdvances, ClockSetBack, vars
<1>4. n \in 0 .. backs' /\ (clock' < time_last' => n < backs')
  BY <1>1, <1>2 DEF ClockAdvances, ClockSetBack, vars, process, TypeOK
<1>5. \A u \in used : \E m \in 0 .. n : CreatedAt(u, m)'
  BY <1>2, <1>3 DEF CreatedAt, process
<1>6. (ReadState = st)' BY <1>1, <1>3 DEF Counted, ReadState, process
<1>7. IF st' = NoState
        THEN used' = {} /\ time_last' = Never
        ELSE /\ st'.ts = time_last' * TICKS + uuids_this_tick'
             /\ time_last' \in Nat /\ uuids_this_tick' < PerReading
  BY <1>1, <1>3 DEF Counted, process
<1>8. used' = used /\ ~repeated' BY <1>1, <1>3
<1> QED BY <1>4, <1>5, <1>6, <1>7, <1>8 DEF Counted

LEMMA CountedInvariance == Spec => []CInv
<1>1. Init => CInv
  <2>1. Init => Counted /\ backs = 0 /\ ~repeated
    BY DEF Init, Counted, ReadState, Never
  <2> QED BY <2>1, BoundsAssumption DEF CInv
<1>2. IInv /\ CInv /\ [Next]_vars => CInv'
  <2> SUFFICES ASSUME IInv, CInv, [Next]_vars PROVE CInv' OBVIOUS
  <2>1. backs' <= MaxBack
    BY BoundsAssumption DEF IInv, TypeOK, CInv, Next, Create, ClockAdvances, ClockSetBack, Restart, vars
  <2>2. restarts' = 0 => restarts = 0 /\ ~Restart
    BY DEF IInv, TypeOK, Next, Create, ClockAdvances, ClockSetBack, Restart, vars
  <2> QED BY <2>1, <2>2, CreateCounted, OthersCounted DEF CInv, Next
<1> QED BY Invariance, <1>1, <1>2, PTL DEF Spec

\* What the process and its file keep has its type, for any resolution of the
\* clock and any number of sequences.
THEOREM TypeCorrect == Spec => []TypeOK
<1>1. IInv => TypeOK BY DEF IInv
<1> QED BY Invariance, <1>1, PTL

\* No uuid is created twice while the clock only advances, however many times
\* the process dies before it has written its file, and none while one process
\* runs, however its clock is set back.
THEOREM UuidsAreDistinct == Spec => []UuidsDistinct
<1>1. IInv /\ CInv => UuidsDistinct BY DEF IInv, CInv, UuidsDistinct
<1> QED BY Invariance, CountedInvariance, <1>1, PTL

\* The file is never older than its interval while the clock advances.
THEOREM FileStaysRecent == Spec => []FileIsRecent
<1>1. IInv => FileIsRecent BY DEF IInv, FileIsRecent
<1> QED BY Invariance, <1>1, PTL
=============================================================================
