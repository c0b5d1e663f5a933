----------------------------- MODULE TimerWheel -----------------------------
(***************************************************************************)
(* The timer wheel of lib_timers.c: a list of timer slots that grows, its  *)
(* chain of inactive slots, and the wheel whose position advances by one   *)
(* with each tick.  Handlers run in the middle of a tick and may start and *)
(* stop timers, their own included.                                        *)
(*                                                                         *)
(* A list of lib_lists.c is a sequence; the list item of a timer is known  *)
(* by the timer's slot.  Buffers are counted by lib_dbuf.c.  An id whose   *)
(* generation is not the slot's is refused, so an id is only the slot it   *)
(* names.  What a slot keeps but nobody reads before it is written again   *)
(* is put back to its first value.                                         *)
(*                                                                         *)
(* The program is any user of the library: cosimus.c drives the sockets    *)
(* only, and nothing under src/ starts a timer or calls check_timers yet.  *)
(***************************************************************************)
EXTENDS Integers, Sequences, FiniteSets, SequencesExt

CONSTANTS
  TIMER_WHEEL_SIZE,
  TIMER_WHEEL_TICKS_PER_SEC,
  UINT32,                \* the values of a uint32_t: 2^32
  TIMER_DBUF_SIZE,       \* slots of the first list; slot 0 is not used
  TIMER_DBUF_INCREMENT,
  MaxSlots,              \* bound: dgrow finds no memory for more
  Intervals,             \* the intervals callers ask for, in msec
  Dbufs,
  NULL

ASSUME SizeAssumption ==
  /\ TIMER_WHEEL_SIZE \in Nat \ {0}
  /\ TIMER_WHEEL_TICKS_PER_SEC \in Nat /\ UINT32 \in Nat \ {0}
  /\ TIMER_DBUF_SIZE \in Nat \ {0, 1} /\ TIMER_DBUF_INCREMENT \in Nat \ {0}
  /\ MaxSlots \in Nat /\ MaxSlots >= TIMER_DBUF_SIZE
ASSUME IntervalsAssumption == Intervals \subseteq Nat
ASSUME NullAssumption == NULL \notin Dbufs

VARIABLES
  timers,
  timer_list_length,
  timer_first_inactive,
  timer_last_inactive,
  timerwheel,
  timerwheel_idx,
  where,     \* what runs: the program, a tick, or the handler of a timer
  firing,    \* that timer
  slot,      \* its slot: as it was, moved with a list that the handler made
             \* grow, or taken by a timer that the handler started
  halted,    \* the assertion that failed, or why nothing more is known
  lock,      \* of each buffer
  owned,     \* the buffers whose owners still hold their own lock
  wait       \* ticks a queued timer still has to wait for

slots == <<timers, timer_list_length, timer_first_inactive, timer_last_inactive>>
wheel == <<timerwheel, timerwheel_idx>>
tick == <<where, firing, slot>>
bufs == <<lock, owned>>
vars == <<slots, wheel, tick, halted, bufs, wait>>

Slots == 0 .. MaxSlots - 1
Kinds == {"TIMER_ONETIME", "TIMER_PERIODIC"}
Used == 1 .. timer_list_length - 1

(* The memory of calloc; what realloc adds is not cleared.                 *)
Fresh(next) ==
  [state |-> "TIMER_INACTIVE", period |-> 0, wheel_idx |-> 0,
   wheel_li |-> "null", param_dbuf |-> NULL, next_inactive_index |-> next]

(* init_timers                                                             *)
Init ==
  /\ timer_list_length = TIMER_DBUF_SIZE
  /\ timers = [s \in Slots |-> Fresh(IF s \in 1 .. TIMER_DBUF_SIZE - 2 THEN s + 1 ELSE 0)]
  /\ timer_first_inactive = 1
  /\ timer_last_inactive = TIMER_DBUF_SIZE - 1
  /\ timerwheel = [i \in 0 .. TIMER_WHEEL_SIZE - 1 |-> <<>>]
  /\ timerwheel_idx = 0
  /\ where = "program" /\ firing = 0 /\ slot = "kept"
  /\ halted = "no"
  /\ lock = [d \in Dbufs |-> 1] /\ owned = Dbufs
  /\ wait = [s \in Slots |-> 0]

-----------------------------------------------------------------------------
(* lpush, lpop and ldelete; dlock and dunlock.                             *)

Pushed(list, s) == <<s>> \o list

Popped(list) == Tail(list)

Without(list, s) == RemoveAt(list, CHOOSE k \in DOMAIN list : list[k] = s)

(* NULL is not locked.                                                     *)
Locked(d) == [b \in Dbufs |-> IF b = d THEN lock[b] + 1 ELSE lock[b]]

Unlocked(d) == [b \in Dbufs |-> IF b = d THEN lock[b] - 1 ELSE lock[b]]

-----------------------------------------------------------------------------
(* Starting a timer.                                                       *)

(* expand_timer_list: the slots that are new follow the last inactive one. *)
Expand(last) ==
  LET grown == timer_list_length + TIMER_DBUF_INCREMENT IN
  [s \in Slots |->
     IF s \in timer_list_length .. grown - 1
     THEN [Fresh(IF s = grown - 1 THEN 0 ELSE s + 1) EXCEPT !.wheel_li = "garbage"]
     ELSE IF s = last THEN [timers[s] EXCEPT !.next_inactive_index = timer_list_length]
          ELSE timers[s]]

(* grab_timer_index: the last inactive slot is taken only when the list    *)
(* can grow.  t is the list that start_timer then finds.                   *)
Grab(s, t) ==
  /\ s = timer_first_inactive
  /\ \/ /\ timers[s].next_inactive_index # 0
        /\ t = timers
        /\ slot' = IF s = firing /\ slot = "kept" THEN "taken" ELSE slot
        /\ UNCHANGED <<timer_list_length, timer_last_inactive>>
     \/ /\ timers[s].next_inactive_index = 0
        /\ s = timer_last_inactive
        /\ timer_list_length + TIMER_DBUF_INCREMENT <= MaxSlots
        /\ t = Expand(s)
        /\ timer_list_length' = timer_list_length + TIMER_DBUF_INCREMENT
        /\ timer_last_inactive' = timer_list_length' - 1
        /\ slot' = IF where = "handler" THEN "moved" ELSE "kept"
  /\ timer_first_inactive' = t[s].next_inactive_index

(* The whole ticks of an interval: less than one is none, and a product    *)
(* that leaves 32 bits wraps, so a very long interval becomes any other.   *)
Ticks(msec) == ((msec * TIMER_WHEEL_TICKS_PER_SEC) % UINT32) \div 1000

(* timer_enqueue_internal: an interval of the wheel's size or more is      *)
(* reported, and the timer is queued nowhere.  One of no ticks is queued   *)
(* for the tick that is due, or joins the list that a tick is emptying.    *)
\* Seeded fault: one tick late.
EnqueueLate(t, s, ticks) ==
  LET at == (timerwheel_idx + ticks + 1) % TIMER_WHEEL_SIZE IN
  IF ticks >= TIMER_WHEEL_SIZE
  THEN timers' = t /\ UNCHANGED <<timerwheel, wait>>
  ELSE /\ timers' = [t EXCEPT ![s].wheel_li = "queued", ![s].wheel_idx = at]
       /\ timerwheel' = [timerwheel EXCEPT ![at] = Pushed(@, s)]
       /\ wait' = [wait EXCEPT ![s] = ticks]

Enqueue(t, s, ticks) ==
  LET at == (timerwheel_idx + ticks) % TIMER_WHEEL_SIZE IN
  IF ticks >= TIMER_WHEEL_SIZE
  THEN timers' = t /\ UNCHANGED <<timerwheel, wait>>
  ELSE /\ timers' = [t EXCEPT ![s].wheel_li = "queued", ![s].wheel_idx = at]
       /\ timerwheel' = [timerwheel EXCEPT ![at] = Pushed(@, s)]
       /\ wait' = [wait EXCEPT ![s] = ticks]

Running == halted = "no" /\ where \in {"program", "handler"}

StartTimer(interval, kind, d) ==
  /\ Running
  /\ d \in owned \union {NULL}
  /\ \E s \in Slots, t \in {timers, Expand(timer_first_inactive)} :
       /\ Grab(s, t)
       /\ Enqueue([t EXCEPT ![s].state = kind,
                            ![s].param_dbuf = d,
                            ![s].next_inactive_index = 0,
                            ![s].period = IF kind = "TIMER_PERIODIC" THEN interval ELSE 0],
                  s, Ticks(interval))
  /\ lock' = Locked(d)
  /\ UNCHANGED <<timerwheel_idx, where, firing, halted, owned>>

-----------------------------------------------------------------------------
(* Stopping one.                                                           *)

(* lbelongs: is the timer's list item in the list its wheel_idx names?     *)
Belongs(s) ==
  timers[s].wheel_li = "queued" /\ Contains(timerwheel[timers[s].wheel_idx], s)

(* timer_deactivate_internal: the slot joins the end of the inactive ones. *)
\* Seeded fault: the end stays where it was.
DeactivateKeepsLast(s) ==
  /\ timers' = [timers EXCEPT
       ![timer_last_inactive].next_inactive_index = s,
       ![s] = [@ EXCEPT !.param_dbuf = NULL, !.period = 0,
                        !.state = "TIMER_INACTIVE", !.next_inactive_index = 0,
                        !.wheel_li = "null", !.wheel_idx = 0]]
  /\ lock' = Unlocked(timers[s].param_dbuf)
  /\ UNCHANGED timer_last_inactive

\* Seeded fault: the buffer stays locked.
DeactivateKeepsLock(s) ==
  /\ timers' = [timers EXCEPT
       ![timer_last_inactive].next_inactive_index = s,
       ![s] = [@ EXCEPT !.param_dbuf = NULL, !.period = 0,
                        !.state = "TIMER_INACTIVE", !.next_inactive_index = 0,
                        !.wheel_li = "null", !.wheel_idx = 0]]
  /\ UNCHANGED lock
  /\ timer_last_inactive' = s

Deactivate(s) ==
  /\ timers' = [timers EXCEPT
       ![timer_last_inactive].next_inactive_index = s,
       ![s] = [@ EXCEPT !.param_dbuf = NULL, !.period = 0,
                        !.state = "TIMER_INACTIVE", !.next_inactive_index = 0,
                        !.wheel_li = "null", !.wheel_idx = 0]]
  /\ lock' = Unlocked(timers[s].param_dbuf)
  /\ timer_last_inactive' = s

(* stop_timer: an id is a slot and a generation.  timer_delete_internal    *)
(* takes the timer off the wheel if its list item is there; a slot that    *)
(* realloc added and that was never queued has no telling what it holds.   *)
StopTimer(s) ==
  /\ Running
  /\ s \in Used
  /\ timers[s].state \in Kinds
  /\ \/ /\ timers[s].wheel_li \in {"null", "garbage"}
        /\ Deactivate(s)
        /\ UNCHANGED <<timerwheel, wait, halted>>
     \/ /\ Belongs(s)
        /\ timerwheel' = [timerwheel EXCEPT
             ![timers[s].wheel_idx] = Without(@, s)]
        /\ Deactivate(s)
        /\ wait' = [wait EXCEPT ![s] = 0]
        /\ UNCHANGED halted
     \/ /\ timers[s].wheel_li # "null"
        /\ ~Belongs(s)
        /\ halted' = IF timers[s].wheel_li = "garbage" THEN "uninitialized" ELSE "deleted twice"
        /\ UNCHANGED <<timers, timer_last_inactive, timerwheel, wait, lock>>
  /\ UNCHANGED <<timer_list_length, timer_first_inactive, timerwheel_idx, tick, owned>>

(* The owner of a buffer lets go of it.                                    *)
OwnerUnlocks(d) ==
  /\ Running
  /\ d \in owned
  /\ owned' = owned \ {d}
  /\ lock' = Unlocked(d)
  /\ UNCHANGED <<slots, wheel, tick, halted, wait>>
-----------------------------------------------------------------------------
(* Ticks.                                                                  *)

(* check_timers, when an interval has passed since the last tick: one      *)
(* tick, however many intervals have passed.                               *)
CheckTimers ==
  /\ halted = "no"
  /\ where = "program"
  /\ where' = "tick"
  /\ UNCHANGED <<slots, wheel, firing, slot, halted, bufs, wait>>

(* fire_timer, until it calls the handler.                                 *)
\* Seeded fault: wheel_li still points to the item that lpop has freed.
FireKeepsItem ==
  /\ halted = "no"
  /\ where = "tick"
  /\ timerwheel[timerwheel_idx] # <<>>
  /\ firing' = Head(timerwheel[timerwheel_idx])
  /\ where' = "handler"
  /\ slot' = "kept"
  /\ timerwheel' = [timerwheel EXCEPT ![timerwheel_idx] = Popped(@)]
  /\ halted' = IF timers[firing'].state \in Kinds THEN "no" ELSE "fired inactive"
  /\ UNCHANGED <<slots, timerwheel_idx, bufs, wait>>

Fire ==
  /\ halted = "no"
  /\ where = "tick"
  /\ timerwheel[timerwheel_idx] # <<>>
  /\ firing' = Head(timerwheel[timerwheel_idx])
  /\ where' = "handler"
  /\ slot' = "kept"
  /\ timerwheel' = [timerwheel EXCEPT ![timerwheel_idx] = Popped(@)]
  /\ timers' = [timers EXCEPT ![firing'].wheel_li = "null", ![firing'].wheel_idx = 0]
  /\ halted' = IF timers[firing'].state \in Kinds THEN "no" ELSE "fired inactive"
  /\ UNCHANGED <<timer_list_length, timer_first_inactive, timer_last_inactive,
                 timerwheel_idx, bufs, wait>>

(* fire_timer, after the handler: it reads the timer through the pointer   *)
(* it took before, which a list that moved has left dangling, and takes    *)
(* whatever timer the slot now has for the one that fired.  One that is    *)
(* queued fails an assertion, or is queued a second time.                  *)
HandlerReturns ==
  LET timer == timers[firing] IN
  /\ halted = "no"
  /\ where = "handler"
  /\ where' = "tick"
  /\ firing' = 0
  /\ slot' = "kept"
  /\ \/ /\ slot = "moved"
        /\ halted' = "dangling"
        /\ UNCHANGED <<timers, timer_last_inactive, timerwheel, wait, lock>>
     \/ /\ slot = "taken" /\ Belongs(firing)
        /\ halted' = "taken over"
        /\ UNCHANGED <<timers, timer_last_inactive, timerwheel, wait, lock>>
     \/ /\ slot # "moved" /\ (slot = "taken" => ~Belongs(firing))
        /\ \/ /\ timer.state = "TIMER_ONETIME"
              /\ Deactivate(firing)
              /\ halted' = IF Belongs(firing) THEN "still queued" ELSE "no"
              /\ UNCHANGED <<timerwheel, wait>>
           \/ /\ timer.state = "TIMER_PERIODIC"
              /\ Enqueue(timers, firing, Ticks(timer.period))
              /\ UNCHANGED <<timer_last_inactive, lock, halted>>
           \/ /\ timer.state = "TIMER_INACTIVE"
              /\ UNCHANGED <<timers, timer_last_inactive, timerwheel, wait, lock, halted>>
  /\ UNCHANGED <<timer_list_length, timer_first_inactive, timerwheel_idx, owned>>

\* Seeded fault: the wheel turns one position short.
TurnShort == (timerwheel_idx + 1) % (TIMER_WHEEL_SIZE - 1)

Turn == (timerwheel_idx + 1) % TIMER_WHEEL_SIZE

(* timer_tick_processor: the list is empty, and the wheel turns.           *)
TickEnds ==
  /\ halted = "no"
  /\ where = "tick"
  /\ timerwheel[timerwheel_idx] = <<>>
  /\ timerwheel_idx' = Turn
  /\ wait' = [s \in Slots |-> IF wait[s] > 0 THEN wait[s] - 1 ELSE 0]
  /\ where' = "program"
  /\ UNCHANGED <<slots, timerwheel, firing, slot, halted, bufs>>

(* The process is gone.                                                    *)
Halted == halted # "no" /\ UNCHANGED vars

Next ==
  \/ \E n \in Intervals, kind \in Kinds, d \in Dbufs \union {NULL} :
       StartTimer(n, kind, d)
  \/ \E s \in Slots : StopTimer(s)
  \/ \E d \in Dbufs : OwnerUnlocks(d)
  \/ CheckTimers \/ Fire \/ HandlerReturns \/ TickEnds \/ Halted

Spec == Init /\ [][Next]_vars
-----------------------------------------------------------------------------
(* Properties.                                                             *)

(* Every variable ranges over what lib_timers.c stores in it.              *)
TypeOK ==
  /\ timers \in [Slots ->
       [state : Kinds \union {"TIMER_INACTIVE"}, period : Intervals \union {0}, wheel_idx : 0 .. TIMER_WHEEL_SIZE - 1,
        wheel_li : {"null", "queued", "garbage"},
        param_dbuf : Dbufs \union {NULL}, next_inactive_index : Slots]]
  /\ timer_list_length \in TIMER_DBUF_SIZE .. MaxSlots
  /\ {timer_first_inactive, timer_last_inactive} \subseteq Used
  /\ timerwheel \in [0 .. TIMER_WHEEL_SIZE - 1 -> Seq(Used)]
  /\ timerwheel_idx \in 0 .. TIMER_WHEEL_SIZE - 1
  /\ slot \in {"kept", "moved", "taken"}
  /\ where \in {"program", "tick", "handler"}
  /\ firing \in IF where = "handler" THEN Used ELSE {0}
  /\ halted \in {"no", "uninitialized", "dangling", "deleted twice",
                "fired inactive", "still queued", "taken over"}
  /\ lock \in [Dbufs -> Nat] /\ owned \subseteq Dbufs
  /\ wait \in [Slots -> Nat]

Inactive == {s \in Used : timers[s].state = "TIMER_INACTIVE"}

(* The chain from timer_first_inactive to timer_last_inactive has every    *)
(* inactive slot once and no other.                                        *)
IsChain(chain) ==
  /\ IsInjective(chain)
  /\ ToSet(chain) = Inactive
  /\ chain[1] = timer_first_inactive
  /\ Last(chain) = timer_last_inactive
  /\ \A n \in 1 .. Len(chain) :
       timers[chain[n]].next_inactive_index = IF n = Len(chain) THEN 0 ELSE chain[n + 1]

(* No slot is lost or used twice: the inactive ones are chained, and the   *)
(* wheel has once each timer that is not inactive, unless it is the one    *)
(* whose handler runs or the wheel was too small for its interval.  Slots  *)
(* hold what they are declared to hold.                                    *)
SlotsAccountedFor ==
  /\ TypeOK
  /\ \E n \in 1 .. MaxSlots : \E chain \in [1 .. n -> Inactive] : IsChain(chain)
  /\ \A s \in Used :
       LET at == {i \in DOMAIN timerwheel : Contains(timerwheel[i], s)} IN
       /\ at = IF timers[s].wheel_li = "queued" THEN {timers[s].wheel_idx} ELSE {}
       /\ timers[s].wheel_li = "queued" => timers[s].state \in Kinds
  /\ \A i \in DOMAIN timerwheel : IsInjective(timerwheel[i])

(* A queued timer is at the position the wheel reaches after as many ticks *)
(* as timer_enqueue_internal counts in its interval, also when a handler   *)
(* started it in the middle of a tick, or when it is periodic and has just *)
(* fired.                                                                  *)
OnSchedule ==
  \A s \in Used :
    timers[s].wheel_li = "queued" =>
      timers[s].wheel_idx = (timerwheel_idx + wait[s]) % TIMER_WHEEL_SIZE

(* The assertions of lib_timers.c hold: no timer is taken off the wheel    *)
(* twice and none fires that is not active, not even one that its own      *)
(* handler stops.  What is left are three ways to break them: a handler    *)
(* that makes the list grow, a slot of a list that has grown and that was  *)
(* never queued because its interval was too long, and a handler that      *)
(* stops its own timer and is given its slot for the next one it starts.   *)
AssertionsHold ==
  /\ halted \in {"no", "uninitialized", "dangling", "taken over"}
  /\ halted \in {"uninitialized", "dangling"} => timer_list_length > TIMER_DBUF_SIZE

(* A buffer handed to a timer stays locked until that timer ends, and is   *)
(* unlocked once: it is freed when its owner and all its timers are done.  *)
BuffersCounted ==
  \A d \in Dbufs :
    lock[d] = Cardinality({s \in Used : timers[s].param_dbuf = d})
              + (IF d \in owned THEN 1 ELSE 0)

(* If check_timers is called for ever, and so each tick ends, a queued     *)
(* timer fires unless it is stopped first: no tick skips it.  Nothing in   *)
(* this repository calls it, and no fairness is assumed.  A periodic timer *)
(* of less than a tick keeps its tick from ending.                         *)
QueuedTimersFire ==
  []<><<CheckTimers>>_vars =>
    \A s \in Slots :
      timers[s].wheel_li = "queued" ~> timers[s].wheel_li # "queued" \/ halted # "no"
=============================================================================
