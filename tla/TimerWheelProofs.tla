-------------------------- MODULE TimerWheelProofs --------------------------
(***************************************************************************)
(* What TimerWheel promises for wheels, lists and intervals of any size.   *)
(* What the variables hold is stated of any values, since a handler that   *)
(* starts a timer changes them in two steps: a slot is taken, then it is   *)
(* queued.                                                                 *)
(***************************************************************************)
EXTENDS TimerWheel, SequenceTheorems, FiniteSetTheorems, TLAPS

Positions == 0 .. TIMER_WHEEL_SIZE - 1

Timer ==
  [state : Kinds \union {"TIMER_INACTIVE"}, period : Intervals \union {0},
   wheel_idx : Positions, wheel_li : {"null", "queued", "garbage"},
   param_dbuf : Dbufs \union {NULL}, next_inactive_index : Slots]

InactiveOf(t, l) == {s \in 1 .. l - 1 : t[s].state = "TIMER_INACTIVE"}

(* The chain c goes through the slots S of t, from first to last.          *)
Chains(c, t, S, first, last) ==
  /\ c \in Seq(Nat) /\ Len(c) \in Nat \ {0}
  /\ IsInjective(c)
  /\ \A s : Contains(c, s) <=> s \in S
  /\ c[1] = first /\ c[Len(c)] = last
  /\ \A n \in 1 .. Len(c) :
       t[c[n]].next_inactive_index = IF n = Len(c) THEN 0 ELSE c[n + 1]

Chained(t, l, first, last) ==
  \E c \in Seq(Nat) : Chains(c, t, InactiveOf(t, l), first, last)

(* What is queued is in the list of its position, once; what is not        *)
(* active is in none.                                                      *)
Wheeled(t, l, w) ==
  /\ w \in [Positions -> Seq(1 .. l - 1)]
  /\ \A i \in Positions :
       /\ IsInjective(w[i])
       /\ \A s \in 1 .. l - 1 :
            Contains(w[i], s) <=> t[s].wheel_li = "queued" /\ t[s].wheel_idx = i
  /\ \A s \in 1 .. l - 1 : t[s].wheel_li = "queued" => t[s].state \in Kinds

(* The position the wheel comes to after that many ticks.                  *)
After(idx, ticks) ==
  IF idx + ticks < TIMER_WHEEL_SIZE THEN idx + ticks ELSE idx + ticks - TIMER_WHEEL_SIZE

Scheduled(t, l, idx, wt) ==
  /\ wt \in [Slots -> Positions]
  /\ \A s \in 1 .. l - 1 : t[s].wheel_li = "queued" => t[s].wheel_idx = After(idx, wt[s])

UsersOf(t, l, d) == {s \in 1 .. l - 1 : t[s].param_dbuf = d}

Counted(t, l, lk, own) ==
  /\ lk \in [Dbufs -> Nat]
  /\ \A s \in InactiveOf(t, l) : t[s].param_dbuf = NULL
  /\ \A d \in Dbufs :
       lk[d] = Cardinality(UsersOf(t, l, d)) + (IF d \in own THEN 1 ELSE 0)

(* Only a list that has grown has slots that were never cleared.           *)
Cleared(t, l) ==
  /\ l \in TIMER_DBUF_SIZE .. MaxSlots
  /\ \A s \in 1 .. l - 1 : t[s].wheel_li = "garbage" => l > TIMER_DBUF_SIZE

(* Between fire_timer's two halves the timer that fires is queued nowhere, *)
(* unless its slot has been taken by another.                              *)
Handling ==
  /\ where \in {"program", "tick", "handler"}
  /\ slot \in {"kept", "moved", "taken"}
  /\ halted \in {"no", "uninitialized", "dangling", "taken over"}
  /\ halted \in {"uninitialized", "dangling"} => timer_list_length > TIMER_DBUF_SIZE
  /\ IF where = "handler"
     THEN /\ firing \in Used
          /\ slot = "kept" => timers[firing].wheel_li = "null"
          /\ slot = "moved" => timer_list_length > TIMER_DBUF_SIZE
     ELSE firing = 0 /\ slot = "kept"

IInv ==
  /\ timers \in [Slots -> Timer]
  /\ timer_first_inactive \in Used /\ timer_last_inactive \in Used
  /\ timerwheel_idx \in Positions
  /\ owned \subseteq Dbufs
  /\ Cleared(timers, timer_list_length)
  /\ Chained(timers, timer_list_length, timer_first_inactive, timer_last_inactive)
  /\ Wheeled(timers, timer_list_length, timerwheel)
  /\ Scheduled(timers, timer_list_length, timerwheel_idx, wait)
  /\ Counted(timers, timer_list_length, lock, owned)
  /\ Handling

-----------------------------------------------------------------------------
(* Lists. *)

LEMMA ListFacts ==
  ASSUME NEW S, NEW s \in Seq(S)
  PROVE  /\ Len(s) \in Nat /\ DOMAIN s = 1 .. Len(s)
         /\ \A n \in 1 .. Len(s) : s[n] \in S /\ Contains(s, s[n])
         /\ \A g : Contains(s, g) => g \in S
<1>1. Len(s) \in Nat /\ DOMAIN s = 1 .. Len(s) /\ \A n \in 1 .. Len(s) : s[n] \in S
  BY LenProperties, ElementOfSeq
<1> QED BY <1>1 DEF Contains

(* A list whose items are those of s but the one at k: up leads back.      *)
LEMMA LessOne ==
  ASSUME NEW S, NEW s \in Seq(S), IsInjective(s), NEW k \in 1 .. Len(s),
         NEW r \in Seq(S), Len(r) = Len(s) - 1,
         \A n \in 1 .. Len(s) - 1 : r[n] = IF n < k THEN s[n] ELSE s[n + 1]
  PROVE  /\ IsInjective(r)
         /\ \A g : Contains(r, g) <=> Contains(s, g) /\ g # s[k]
<1> DEFINE up(n) == IF n < k THEN n ELSE n + 1
           down(n) == IF n < k THEN n ELSE n - 1
<1>1. /\ Len(s) \in Nat /\ DOMAIN s = 1 .. Len(s) /\ DOMAIN r = 1 .. Len(r)
      /\ Len(s) - 1 \in Nat
  BY ListFacts
<1>2. \A n \in 1 .. Len(r) : up(n) \in 1 .. Len(s) /\ up(n) # k /\ r[n] = s[up(n)]
  BY <1>1
<1>3. \A n \in 1 .. Len(s) : n # k => down(n) \in 1 .. Len(r) /\ up(down(n)) = n
  BY <1>1
<1>4. \A m, n \in 1 .. Len(r) : up(m) = up(n) => m = n
  BY <1>1
<1> HIDE DEF up, down
<1>5. IsInjective(r)
  BY <1>1, <1>2, <1>4 DEF IsInjective
<1>6. \A n \in 1 .. Len(s) : n # k => down(n) \in 1 .. Len(r) /\ r[down(n)] = s[n]
  BY <1>2, <1>3
<1>7. ASSUME NEW g PROVE Contains(r, g) <=> Contains(s, g) /\ g # s[k]
  <2>1. ASSUME Contains(r, g) PROVE Contains(s, g) /\ g # s[k]
    <3>1. PICK n \in 1 .. Len(r) : r[n] = g
      BY <2>1 DEF Contains
    <3>2. up(n) \in 1 .. Len(s) /\ up(n) # k /\ s[up(n)] = g
      BY <1>2, <3>1
    <3> QED BY <1>1, <3>2 DEF Contains, IsInjective
  <2>2. ASSUME Contains(s, g), g # s[k] PROVE Contains(r, g)
    BY <1>6, <2>2 DEF Contains
  <2> QED BY <2>1, <2>2
<1> QED BY <1>5, <1>7

(* lpop                                                                    *)
LEMMA PoppedFacts ==
  ASSUME NEW S, NEW s \in Seq(S), IsInjective(s), s # <<>>
  PROVE  /\ Head(s) \in S /\ Contains(s, Head(s)) /\ Head(s) = s[1] /\ 1 \in 1 .. Len(s)
         /\ Tail(s) \in Seq(S) /\ IsInjective(Tail(s)) /\ Len(Tail(s)) = Len(s) - 1
         /\ \A n \in 1 .. Len(s) - 1 : Tail(s)[n] = s[n + 1]
         /\ \A g : Contains(Tail(s), g) <=> Contains(s, g) /\ g # Head(s)
<1>1. /\ Head(s) \in S /\ Head(s) = s[1] /\ Tail(s) \in Seq(S)
      /\ Len(Tail(s)) = Len(s) - 1
      /\ \A n \in 1 .. Len(Tail(s)) : Tail(s)[n] = s[n + 1]
  BY HeadTailProperties
<1>2. Len(s) \in Nat \ {0}
  BY EmptySeq
<1>3. 1 \in 1 .. Len(s) /\ \A n \in 1 .. Len(s) - 1 : ~(n < 1)
  BY <1>2
<1>4. \A n \in 1 .. Len(s) - 1 : Tail(s)[n] = IF n < 1 THEN s[n] ELSE s[n + 1]
  BY <1>1, <1>3
<1>5. IsInjective(Tail(s)) /\ \A g : Contains(Tail(s), g) <=> Contains(s, g) /\ g # s[1]
  BY <1>1, <1>3, <1>4, LessOne
<1> QED BY <1>1, <1>3, <1>5 DEF Contains

(* ldelete                                                                 *)
LEMMA WithoutFacts ==
  ASSUME NEW S, NEW s \in Seq(S), IsInjective(s), NEW h, Contains(s, h)
  PROVE  /\ Without(s, h) \in Seq(S) /\ IsInjective(Without(s, h))
         /\ \A g : Contains(Without(s, h), g) <=> Contains(s, g) /\ g # h
<1> DEFINE k == CHOOSE n \in DOMAIN s : s[n] = h
           r == Without(s, h)
           a1 == SubSeq(s, 1, k - 1)
           a2 == SubSeq(s, k + 1, Len(s))
<1>1. Len(s) \in Nat /\ DOMAIN s = 1 .. Len(s) /\ \A n \in 1 .. Len(s) : s[n] \in S
  BY ListFacts
<1>2. k \in 1 .. Len(s) /\ s[k] = h
  BY <1>1 DEF Contains
<1>3. r = a1 \o a2
  BY Zenon DEF Without, RemoveAt
<1> HIDE DEF k, r
<1> DEFINE l == Len(s)
<1>4. l \in Nat /\ k \in 1 .. l /\ \A n \in 1 .. l : s[n] \in S
  BY <1>1, <1>2
<1>5. a1 = SubSeq(s, 1, k - 1) /\ a2 = SubSeq(s, k + 1, l)
  OBVIOUS
<1> HIDE DEF l, a1, a2
<1>6. /\ a1 \in Seq(S) /\ Len(a1) = k - 1
      /\ \A n \in 1 .. k - 1 : a1[n] = s[n]
  <2>1. k - 1 \in Int /\ 1 \in Int /\ \A n \in 1 .. k - 1 : s[n] \in S
    BY <1>4
  <2>2. /\ a1 \in Seq(S) /\ Len(a1) = IF 1 <= k - 1 THEN (k - 1) - 1 + 1 ELSE 0
        /\ \A n \in 1 .. (k - 1) - 1 + 1 : a1[n] = s[1 + n - 1]
    BY <1>5, <2>1, SubSeqProperties
  <2>3. Len(a1) = k - 1
    BY <1>4, <2>2
  <2>4. (k - 1) - 1 + 1 = k - 1 /\ \A n \in 1 .. k - 1 : 1 + n - 1 = n
    BY <1>4
  <2> QED BY <2>2, <2>3, <2>4
<1>7. /\ a2 \in Seq(S) /\ Len(a2) = l - k
      /\ \A n \in 1 .. l - k : a2[n] = s[n + k]
  <2>1. k + 1 \in Int /\ l \in Int /\ \A n \in k + 1 .. l : s[n] \in S
    BY <1>4
  <2>2. /\ a2 \in Seq(S) /\ Len(a2) = IF k + 1 <= l THEN l - (k + 1) + 1 ELSE 0
        /\ \A n \in 1 .. l - (k + 1) + 1 : a2[n] = s[(k + 1) + n - 1]
    BY <1>5, <2>1, SubSeqProperties
  <2>3. Len(a2) = l - k
    <3>1. CASE k + 1 <= l
      BY <1>4, <2>2, <3>1
    <3>2. CASE ~(k + 1 <= l)
      <4>1. l - k = 0
        BY <1>4, <3>2
      <4> QED BY <2>2, <3>2, <4>1
    <3> QED BY <3>1, <3>2
  <2>4. l - (k + 1) + 1 = l - k /\ \A n \in 1 .. l - k : (k + 1) + n - 1 = n + k
    BY <1>4
  <2> QED BY <2>2, <2>3, <2>4
<1>8. /\ r \in Seq(S) /\ Len(r) = l - 1
      /\ \A n \in 1 .. l - 1 : r[n] = IF n <= k - 1 THEN a1[n] ELSE a2[n - (k - 1)]
  <2>1. /\ a1 \o a2 \in Seq(S) /\ Len(a1 \o a2) = Len(a1) + Len(a2)
        /\ \A n \in 1 .. Len(a1) + Len(a2) :
             (a1 \o a2)[n] = IF n <= Len(a1) THEN a1[n] ELSE a2[n - Len(a1)]
    BY <1>6, <1>7, ConcatProperties
  <2>2. Len(a1) + Len(a2) = l - 1
    BY <1>4, <1>6, <1>7
  <2> QED BY <1>3, <1>6, <2>1, <2>2
<1>9. ASSUME NEW n \in 1 .. l - 1 PROVE r[n] = IF n < k THEN s[n] ELSE s[n + 1]
  <2>1. CASE n < k
    <3>1. n <= k - 1 /\ n \in 1 .. k - 1
      BY <1>4, <2>1
    <3> QED BY <1>6, <1>8, <2>1, <3>1
  <2>2. CASE ~(n < k)
    <3>1. ~(n <= k - 1) /\ n - (k - 1) \in 1 .. l - k /\ n - (k - 1) + k = n + 1
      BY <1>4, <2>2
    <3>2. r[n] = s[n - (k - 1) + k]
      BY <1>7, <1>8, <3>1
    <3> QED BY <2>2, <3>1, <3>2
  <2> QED BY <2>1, <2>2
<1>10. IsInjective(r) /\ \A g : Contains(r, g) <=> Contains(s, g) /\ g # h
  <2>1. k \in 1 .. Len(s) /\ Len(r) = Len(s) - 1
        /\ \A n \in 1 .. Len(s) - 1 : r[n] = IF n < k THEN s[n] ELSE s[n + 1]
    BY <1>2, <1>8, <1>9 DEF l
  <2>2. IsInjective(r) /\ \A g : Contains(r, g) <=> Contains(s, g) /\ g # s[k]
    BY <1>8, <2>1, LessOne
  <2> QED BY <1>2, <2>2
<1> QED BY <1>8, <1>10 DEF r

(* lpush                                                                   *)
LEMMA PushedFacts ==
  ASSUME NEW S, NEW s \in Seq(S), IsInjective(s), NEW h \in S, ~Contains(s, h)
  PROVE  /\ Pushed(s, h) \in Seq(S) /\ IsInjective(Pushed(s, h))
         /\ \A g : Contains(Pushed(s, h), g) <=> Contains(s, g) \/ g = h
<1> DEFINE r == <<h>> \o s
<1>1. Len(s) \in Nat /\ DOMAIN s = 1 .. Len(s)
  BY ListFacts
<1>2. <<h>> \in Seq(S) /\ Len(<<h>>) = 1 /\ <<h>>[1] = h
  OBVIOUS
<1>3. /\ r \in Seq(S) /\ Len(r) = Len(s) + 1
      /\ \A n \in 1 .. Len(r) : r[n] = IF n <= 1 THEN h ELSE s[n - 1]
  <2>1. /\ r \in Seq(S) /\ Len(r) = 1 + Len(s)
        /\ \A n \in 1 .. 1 + Len(s) : r[n] = IF n <= 1 THEN <<h>>[n] ELSE s[n - 1]
    BY <1>2, ConcatProperties
  <2> QED BY <1>1, <1>2, <2>1
<1>4. r = Pushed(s, h)
  BY DEF Pushed
<1> HIDE DEF r
<1>5. DOMAIN r = 1 .. Len(r)
  BY <1>3, ListFacts
<1>6. r[1] = h /\ 1 \in 1 .. Len(r)
  BY <1>1, <1>3
<1>7. \A n \in 1 .. Len(s) : n + 1 \in 1 .. Len(r) /\ r[n + 1] = s[n]
  BY <1>1, <1>3
<1>8. \A n \in 1 .. Len(r) : n # 1 => n - 1 \in 1 .. Len(s) /\ r[n] = s[n - 1]
  BY <1>1, <1>3
<1>9. \A n \in 1 .. Len(s) : s[n] # h
  BY DEF Contains
<1>10. IsInjective(r)
  <2>1. ASSUME NEW m \in 1 .. Len(r), NEW n \in 1 .. Len(r), r[m] = r[n] PROVE m = n
    <3>1. CASE m = 1 /\ n = 1
      BY <3>1
    <3>2. CASE m = 1 /\ n # 1
      BY <1>6, <1>8, <1>9, <2>1, <3>2
    <3>3. CASE m # 1 /\ n = 1
      BY <1>6, <1>8, <1>9, <2>1, <3>3
    <3>4. CASE m # 1 /\ n # 1
      <4>1. m - 1 = n - 1
        BY <1>1, <1>8, <2>1, <3>4 DEF IsInjective
      <4> QED BY <1>1, <1>3, <4>1
    <3> QED BY <3>1, <3>2, <3>3, <3>4
  <2> QED BY <1>5, <2>1 DEF IsInjective
<1>11. ASSUME NEW g PROVE Contains(r, g) <=> Contains(s, g) \/ g = h
  <2>1. ASSUME Contains(r, g), g # h PROVE Contains(s, g)
    BY <1>6, <1>8, <2>1 DEF Contains
  <2>2. ASSUME Contains(s, g) PROVE Contains(r, g)
    BY <1>7, <2>2 DEF Contains
  <2>3. Contains(r, h)
    BY <1>6 DEF Contains
  <2> QED BY <2>1, <2>2, <2>3
<1> QED BY <1>3, <1>4, <1>10, <1>11

-----------------------------------------------------------------------------
(* The chain of inactive slots. *)

LEMMA ChainFacts ==
  ASSUME NEW c, NEW t, NEW S, NEW first, NEW last, Chains(c, t, S, first, last)
  PROVE  /\ c \in Seq(Nat) /\ Len(c) \in Nat \ {0} /\ DOMAIN c = 1 .. Len(c)
         /\ first \in S /\ last \in S /\ S \subseteq Nat
         /\ \A n \in 1 .. Len(c) : c[n] \in S
<1>1. c \in Seq(Nat) /\ Len(c) \in Nat \ {0}
  BY DEF Chains
<1>2. DOMAIN c = 1 .. Len(c) /\ 1 \in 1 .. Len(c) /\ Len(c) \in 1 .. Len(c)
  BY <1>1, ListFacts
<1>3. \A n \in 1 .. Len(c) : c[n] \in S
  BY <1>1, ListFacts DEF Chains
<1>4. S \subseteq Nat
  BY <1>1, ListFacts DEF Chains
<1> QED BY <1>1, <1>2, <1>3, <1>4 DEF Chains

(* What else changes in the slots does not matter.                         *)
LEMMA ChainSame ==
  ASSUME NEW c, NEW t, NEW u, NEW S, NEW first, NEW last,
         Chains(c, t, S, first, last),
         \A s \in S : u[s].next_inactive_index = t[s].next_inactive_index
  PROVE  Chains(c, u, S, first, last)
<1>1. \A n \in 1 .. Len(c) : c[n] \in S
  BY ChainFacts
<1> QED BY <1>1 DEF Chains

(* The first slot is taken, and another one follows.                       *)
LEMMA ChainLosesFirst ==
  ASSUME NEW c, NEW t, NEW S, NEW first, NEW last,
         Chains(c, t, S, first, last), t[first].next_inactive_index # 0
  PROVE  Chains(Tail(c), t, S \ {first}, t[first].next_inactive_index, last)
<1> DEFINE r == Tail(c)
<1>1. /\ c \in Seq(Nat) /\ Len(c) \in Nat \ {0} /\ DOMAIN c = 1 .. Len(c)
      /\ \A n \in 1 .. Len(c) : c[n] \in S
  BY ChainFacts
<1>2. IsInjective(c) /\ c[1] = first /\ c[Len(c)] = last
      /\ \A s : Contains(c, s) <=> s \in S
  BY DEF Chains
<1>3. \A n \in 1 .. Len(c) :
        t[c[n]].next_inactive_index = IF n = Len(c) THEN 0 ELSE c[n + 1]
  BY DEF Chains
<1>4. 1 \in 1 .. Len(c) /\ Len(c) # 1
  <2>1. 1 \in 1 .. Len(c)
    BY <1>1
  <2>2. t[c[1]].next_inactive_index = IF 1 = Len(c) THEN 0 ELSE c[1 + 1]
    BY <1>3, <2>1
  <2> QED BY <1>2, <2>1, <2>2
<1>5. t[first].next_inactive_index = c[2]
  BY <1>2, <1>3, <1>4
<1>6. c # <<>>
  BY <1>1, EmptySeq
<1>7. /\ r \in Seq(Nat) /\ IsInjective(r) /\ Len(r) = Len(c) - 1
      /\ \A n \in 1 .. Len(c) - 1 : r[n] = c[n + 1]
      /\ \A g : Contains(r, g) <=> Contains(c, g) /\ g # Head(c)
      /\ Head(c) = c[1]
  BY <1>1, <1>2, <1>6, PoppedFacts
<1> HIDE DEF r
<1>8. Len(r) \in Nat \ {0}
  BY <1>1, <1>4, <1>7
<1>9. r[1] = c[2]
  BY <1>1, <1>4, <1>7
<1>10. r[Len(r)] = last
  <2>1. Len(c) - 1 \in 1 .. Len(c) - 1 /\ (Len(c) - 1) + 1 = Len(c)
    BY <1>1, <1>4
  <2> QED BY <1>2, <1>7, <2>1
<1>11. ASSUME NEW n \in 1 .. Len(r)
       PROVE  t[r[n]].next_inactive_index = IF n = Len(r) THEN 0 ELSE r[n + 1]
  <2> DEFINE l == Len(c)
  <2>1. l \in Nat \ {0} /\ Len(r) = l - 1 /\ n \in 1 .. l - 1
    BY <1>1, <1>7
  <2>2. r[n] = c[n + 1] /\ (n + 1 \in 1 .. l - 1 => r[n + 1] = c[(n + 1) + 1])
    BY <1>7, <2>1
  <2>3. n + 1 \in 1 .. l =>
          t[c[n + 1]].next_inactive_index = IF n + 1 = l THEN 0 ELSE c[(n + 1) + 1]
    BY <1>3
  <2> HIDE DEF l
  <2>4. n + 1 \in 1 .. l /\ (n + 1 = l <=> n = l - 1) /\ (n # l - 1 => n + 1 \in 1 .. l - 1)
    BY <2>1
  <2> QED BY <2>1, <2>2, <2>3, <2>4
<1>12. \A s : Contains(r, s) <=> s \in S \ {first}
  BY <1>2, <1>7
<1> QED BY <1>5, <1>7, <1>8, <1>9, <1>10, <1>11, <1>12 DEF r, Chains

(* The first slot is the last one too.                                     *)
LEMMA ChainOfOne ==
  ASSUME NEW c, NEW t, NEW S, NEW first, NEW last,
         Chains(c, t, S, first, last), t[first].next_inactive_index = 0, 0 \notin S
  PROVE  S = {first} /\ last = first
<1>1. /\ c \in Seq(Nat) /\ Len(c) \in Nat \ {0} /\ DOMAIN c = 1 .. Len(c)
      /\ \A n \in 1 .. Len(c) : c[n] \in S
  BY ChainFacts
<1>2. IsInjective(c) /\ c[1] = first /\ c[Len(c)] = last
      /\ (\A s : Contains(c, s) <=> s \in S)
      /\ \A n \in 1 .. Len(c) :
           t[c[n]].next_inactive_index = IF n = Len(c) THEN 0 ELSE c[n + 1]
  BY DEF Chains
<1>3. Len(c) = 1
  <2>1. SUFFICES ASSUME Len(c) # 1 PROVE FALSE
    OBVIOUS
  <2>2. 1 \in 1 .. Len(c) /\ 2 \in 1 .. Len(c) /\ 1 + 1 = 2
    BY <1>1, <2>1
  <2>3. c[2] = 0
    BY <1>2, <2>1, <2>2
  <2> QED BY <1>1, <2>2, <2>3
<1>4. \A s \in S : s = first
  BY <1>2, <1>3 DEF Contains
<1>5. first \in S
  BY ChainFacts
<1> QED BY <1>2, <1>3, <1>4, <1>5

(* A slot joins the end.                                                   *)
LinkedBehind(t, u, S, last, s) ==
  /\ s \in Nat \ S
  /\ u[s].next_inactive_index = 0 /\ u[last].next_inactive_index = s
  /\ \A x \in S \ {last} : u[x].next_inactive_index = t[x].next_inactive_index

LEMMA ChainGrows ==
  ASSUME NEW c, NEW t, NEW u, NEW S, NEW first, NEW last, NEW s,
         Chains(c, t, S, first, last), LinkedBehind(t, u, S, last, s)
  PROVE  Chains(Append(c, s), u, S \union {s}, first, s)
<1> DEFINE r == Append(c, s)
           l == Len(c)
<1> USE DEF LinkedBehind
<1>1. /\ c \in Seq(Nat) /\ l \in Nat \ {0} /\ DOMAIN c = 1 .. l
      /\ \A n \in 1 .. l : c[n] \in S
  BY ChainFacts
<1>2. IsInjective(c) /\ c[1] = first /\ c[l] = last
      /\ (\A x : Contains(c, x) <=> x \in S)
      /\ \A n \in 1 .. l :
           t[c[n]].next_inactive_index = IF n = l THEN 0 ELSE c[n + 1]
  BY DEF Chains
<1>3. /\ r \in Seq(Nat) /\ Len(r) = l + 1 /\ r[l + 1] = s
      /\ \A n \in 1 .. l : r[n] = c[n]
  BY <1>1, AppendProperties
<1>4. DOMAIN r = 1 .. l + 1
  BY <1>3, ListFacts
<1>5. Contains(c, s) <=> s \in S
  BY <1>2
<1>6. \A x : Contains(c, x) <=> \E n \in 1 .. l : c[n] = x
  BY DEF Contains
<1>7. \A x : Contains(r, x) <=> \E n \in 1 .. l + 1 : r[n] = x
  BY <1>3 DEF Contains
<1> HIDE DEF r, l
<1>8. \A n \in 1 .. l + 1 : n \in 1 .. l \/ n = l + 1
  BY <1>1
<1>9. l + 1 \in 1 .. l + 1 /\ (\A n \in 1 .. l : n \in 1 .. l + 1) /\ 1 \in 1 .. l /\ l \in 1 .. l
  BY <1>1
<1>10. IsInjective(r)
  <2>1. ASSUME NEW m \in 1 .. l + 1, NEW n \in 1 .. l + 1, r[m] = r[n] PROVE m = n
    <3>1. CASE m \in 1 .. l /\ n \in 1 .. l
      <4>1. c[m] = c[n]
        BY <1>3, <2>1, <3>1
      <4> QED BY <1>1, <1>2, <3>1, <4>1 DEF IsInjective
    <3>2. CASE m \in 1 .. l /\ n = l + 1
      BY <1>1, <1>3, <2>1, <3>2
    <3>3. CASE m = l + 1 /\ n \in 1 .. l
      BY <1>1, <1>3, <2>1, <3>3
    <3> QED BY <1>8, <3>1, <3>2, <3>3
  <2> QED BY <1>4, <2>1 DEF IsInjective
<1>11. ASSUME NEW x PROVE Contains(r, x) <=> x \in S \union {s}
  <2>1. ASSUME Contains(r, x) PROVE x \in S \union {s}
    BY <1>1, <1>3, <1>7, <1>8, <2>1
  <2>2. ASSUME x \in S PROVE Contains(r, x)
    BY <1>2, <1>3, <1>6, <1>7, <1>9, <2>2
  <2>3. Contains(r, s)
    BY <1>3, <1>7, <1>9
  <2> QED BY <2>1, <2>2, <2>3
<1>12. r[1] = first /\ r[Len(r)] = s
  BY <1>2, <1>3, <1>9
<1>13. ASSUME NEW n \in 1 .. Len(r)
       PROVE  u[r[n]].next_inactive_index = IF n = Len(r) THEN 0 ELSE r[n + 1]
  <2>1. CASE n = l + 1
    <3>1. n = Len(r) /\ r[n] = s
      BY <1>3, <2>1
    <3> QED BY <3>1
  <2>2. CASE n = l
    <3>1. r[n] = last /\ r[n + 1] = s /\ n # Len(r)
      BY <1>1, <1>2, <1>3, <1>9, <2>2
    <3> QED BY <3>1
  <2>3. CASE n \in 1 .. l /\ n # l
    <3>1. c[n] \in S /\ c[n] # last
      BY <1>1, <1>2, <1>9, <2>3 DEF IsInjective
    <3>2. n + 1 \in 1 .. l /\ n # Len(r)
      BY <1>1, <1>3, <2>3
    <3>3. t[c[n]].next_inactive_index = c[n + 1]
      BY <1>2, <2>3
    <3>4. u[c[n]].next_inactive_index = t[c[n]].next_inactive_index
      BY <3>1
    <3>5. r[n] = c[n] /\ r[n + 1] = c[n + 1]
      BY <1>3, <2>3, <3>2
    <3> QED BY <3>2, <3>3, <3>4, <3>5
  <2> QED BY <1>3, <1>8, <2>1, <2>2, <2>3
<1>14. Len(r) \in Nat \ {0}
  BY <1>1, <1>3
<1> QED BY <1>3, <1>10, <1>11, <1>12, <1>13, <1>14 DEF r, Chains

(* New slots, and those of init_timers: each leads to the next.            *)
LEMMA ChainOfNew ==
  ASSUME NEW t, NEW a \in Nat, NEW b \in Nat, a <= b,
         \A s \in a .. b : t[s].next_inactive_index = IF s = b THEN 0 ELSE s + 1
  PROVE  Chains([n \in 1 .. b - a + 1 |-> a + n - 1], t, a .. b, a, b)
<1> DEFINE c == [n \in 1 .. b - a + 1 |-> a + n - 1]
           l == b - a + 1
<1>1. l \in Nat \ {0} /\ \A n \in 1 .. l : a + n - 1 \in Nat
  OBVIOUS
<1>2. c \in Seq(Nat) /\ Len(c) = l /\ DOMAIN c = 1 .. l /\ \A n \in 1 .. l : c[n] = a + n - 1
  <2>1. c \in [1 .. l -> Nat]
    BY <1>1
  <2>2. l \in Nat
    BY <1>1
  <2> HIDE DEF l
  <2>3. c \in Seq(Nat) /\ DOMAIN c = 1 .. l
    BY <2>1, <2>2
  <2>4. Len(c) = l
    BY <2>2, <2>3
  <2> QED BY <2>3, <2>4 DEF l
<1> HIDE DEF c
<1>3. IsInjective(c)
  BY <1>2 DEF IsInjective
<1>4. ASSUME NEW s PROVE Contains(c, s) <=> s \in a .. b
  <2>1. ASSUME s \in a .. b PROVE Contains(c, s)
    <3>1. s - a + 1 \in 1 .. l /\ a + (s - a + 1) - 1 = s
      BY <2>1
    <3> QED BY <1>2, <3>1 DEF Contains
  <2>2. ASSUME Contains(c, s) PROVE s \in a .. b
    BY <1>1, <1>2, <2>2 DEF Contains
  <2> QED BY <2>1, <2>2
<1>5. c[1] = a /\ c[l] = b
  BY <1>1, <1>2
<1>6. ASSUME NEW n \in 1 .. l
      PROVE  t[c[n]].next_inactive_index = IF n = l THEN 0 ELSE c[n + 1]
  <2>1. c[n] = a + n - 1 /\ a + n - 1 \in a .. b /\ (a + n - 1 = b <=> n = l)
    BY <1>2
  <2>2. n # l => n + 1 \in 1 .. l /\ a + (n + 1) - 1 = (a + n - 1) + 1
    BY <1>1
  <2> HIDE DEF l
  <2> QED BY <1>2, <2>1, <2>2
<1> QED BY <1>1, <1>2, <1>3, <1>4, <1>5, <1>6 DEF c, Chains

-----------------------------------------------------------------------------
(* The wheel. *)

LEMMA Modulo ==
  ASSUME NEW i \in Positions, NEW n \in Positions
  PROVE  /\ (i + n) % TIMER_WHEEL_SIZE = After(i, n)
         /\ After(i, n) \in Positions
<1> DEFINE N == TIMER_WHEEL_SIZE
<1>1. N \in Nat \ {0} /\ i \in 0 .. N - 1 /\ n \in 0 .. N - 1
  BY SizeAssumption DEF Positions
<1>2. ASSUME i + n < N PROVE (i + n) % N = i + n
  <2>1. i + n \in 0 .. N - 1
    BY <1>1, <1>2
  <2> HIDE DEF N
  <2> QED BY <1>1, <2>1
<1>3. ASSUME ~(i + n < N) PROVE (i + n) % N = i + n - N
  <2> HIDE DEF N
  <2>1. i + n - N \in 0 .. N - 1
    BY <1>1, <1>3
  <2>2. \A d \in Nat \ {0} : \A r \in 0 .. d - 1 : (d + r) % d = r
    OBVIOUS
  <2>3. N + (i + n - N) = i + n
    BY <1>1
  <2> QED BY <1>1, <2>1, <2>2, <2>3
<1>4. (i + n) % N = After(i, n)
  BY <1>2, <1>3 DEF After
<1>5. After(i, n) \in Positions
  BY <1>1 DEF After, Positions
<1> QED BY <1>4, <1>5

LEMMA WheelFacts ==
  ASSUME NEW t, NEW l, NEW w, Wheeled(t, l, w), NEW i \in Positions
  PROVE  /\ w \in [Positions -> Seq(1 .. l - 1)]
         /\ w[i] \in Seq(1 .. l - 1) /\ IsInjective(w[i])
         /\ \A s : Contains(w[i], s) <=>
              s \in 1 .. l - 1 /\ t[s].wheel_li = "queued" /\ t[s].wheel_idx = i
         /\ \A s \in 1 .. l - 1 : t[s].wheel_li = "queued" => t[s].state \in Kinds
<1>1. w \in [Positions -> Seq(1 .. l - 1)]
  BY DEF Wheeled
<1>2. w[i] \in Seq(1 .. l - 1)
  BY <1>1
<1>3. \A s : Contains(w[i], s) => s \in 1 .. l - 1
  BY <1>2, ListFacts
<1> QED BY <1>1, <1>2, <1>3 DEF Wheeled

(* Slots change that are not queued, and there may be more of them.        *)
LEMMA WheelSame ==
  ASSUME NEW t, NEW u, NEW l \in Nat, NEW m \in Nat, l <= m, NEW w, Wheeled(t, l, w),
         \A s \in 1 .. m - 1 :
           u[s].wheel_li = "queued" =>
             /\ s \in 1 .. l - 1 /\ t[s].wheel_li = "queued"
             /\ u[s].wheel_idx = t[s].wheel_idx /\ u[s].state \in Kinds,
         \A s \in 1 .. l - 1 :
           t[s].wheel_li = "queued" =>
             u[s].wheel_li = "queued" /\ u[s].wheel_idx = t[s].wheel_idx
  PROVE  Wheeled(u, m, w)
<1>1. \A s \in 1 .. l - 1 : s \in 1 .. m - 1
  OBVIOUS
<1>2. w \in [Positions -> Seq(1 .. m - 1)]
  <2>1. w \in [Positions -> Seq(1 .. l - 1)]
    BY DEF Wheeled
  <2>2. \A i \in Positions : w[i] \in Seq(1 .. m - 1)
    <3>1. ASSUME NEW i \in Positions PROVE w[i] \in Seq(1 .. m - 1)
      <4>1. w[i] \in Seq(1 .. l - 1) /\ 1 .. l - 1 \subseteq 1 .. m - 1
        BY <1>1, <2>1
      <4> QED BY <4>1, SeqMonotonic
    <3> QED BY <3>1
  <2> QED BY <2>1, <2>2
<1>3. ASSUME NEW i \in Positions
      PROVE  /\ IsInjective(w[i])
             /\ \A s \in 1 .. m - 1 :
                  Contains(w[i], s) <=> u[s].wheel_li = "queued" /\ u[s].wheel_idx = i
  <2>1. /\ IsInjective(w[i])
        /\ \A s : Contains(w[i], s) <=>
             s \in 1 .. l - 1 /\ t[s].wheel_li = "queued" /\ t[s].wheel_idx = i
    BY WheelFacts
  <2> QED BY <1>1, <2>1
<1> QED BY <1>2, <1>3 DEF Wheeled

(* The slot s leaves the list of position i ...                            *)
SlotLeaves(t, u, l, s, i) ==
  /\ s \in 1 .. l - 1 /\ t[s].wheel_li = "queued" /\ t[s].wheel_idx = i
  /\ u[s].wheel_li # "queued"
  /\ \A x \in (1 .. l - 1) \ {s} :
       /\ u[x].wheel_li = t[x].wheel_li /\ u[x].wheel_idx = t[x].wheel_idx
       /\ u[x].state = t[x].state

(* ... for which r is left.                                                *)
LEMMA WheelLoses ==
  ASSUME NEW t, NEW u, NEW l \in Nat, NEW w, Wheeled(t, l, w),
         NEW s, NEW i \in Positions, SlotLeaves(t, u, l, s, i),
         NEW r \in Seq(1 .. l - 1), IsInjective(r),
         \A g : Contains(r, g) <=> Contains(w[i], g) /\ g # s
  PROVE  Wheeled(u, l, [w EXCEPT ![i] = r])
<1> DEFINE v == [w EXCEPT ![i] = r]
<1>1. w \in [Positions -> Seq(1 .. l - 1)]
  BY DEF Wheeled
<1>2. v \in [Positions -> Seq(1 .. l - 1)] /\ v[i] = r /\ \A j \in Positions \ {i} : v[j] = w[j]
  BY <1>1
<1> HIDE DEF v
<1>3. ASSUME NEW j \in Positions
      PROVE  /\ IsInjective(v[j])
             /\ \A x \in 1 .. l - 1 :
                  Contains(v[j], x) <=> u[x].wheel_li = "queued" /\ u[x].wheel_idx = j
  <2>1. /\ IsInjective(w[j])
        /\ \A x : Contains(w[j], x) <=>
             x \in 1 .. l - 1 /\ t[x].wheel_li = "queued" /\ t[x].wheel_idx = j
    BY WheelFacts
  <2>2. CASE j = i
    BY <1>2, <2>1, <2>2 DEF SlotLeaves
  <2>3. CASE j # i
    BY <1>2, <2>1, <2>3 DEF SlotLeaves
  <2> QED BY <2>2, <2>3
<1>4. \A x \in 1 .. l - 1 : u[x].wheel_li = "queued" => u[x].state \in Kinds
  BY DEF Wheeled, SlotLeaves
<1> QED BY <1>2, <1>3, <1>4 DEF v, Wheeled

(* The slot s joins the list of position i.                                *)
LEMMA WheelTakes ==
  ASSUME NEW t, NEW u, NEW l \in Nat, NEW w, Wheeled(t, l, w),
         NEW s \in 1 .. l - 1, NEW i \in Positions, t[s].wheel_li # "queued",
         u[s].wheel_li = "queued", u[s].wheel_idx = i, u[s].state \in Kinds,
         \A x \in (1 .. l - 1) \ {s} :
           /\ u[x].wheel_li = t[x].wheel_li /\ u[x].wheel_idx = t[x].wheel_idx
           /\ u[x].state = t[x].state
  PROVE  Wheeled(u, l, [w EXCEPT ![i] = Pushed(w[i], s)])
<1> DEFINE r == Pushed(w[i], s)
           v == [w EXCEPT ![i] = r]
<1>1. /\ w \in [Positions -> Seq(1 .. l - 1)]
      /\ w[i] \in Seq(1 .. l - 1) /\ IsInjective(w[i]) /\ ~Contains(w[i], s)
  BY WheelFacts
<1>2. /\ r \in Seq(1 .. l - 1) /\ IsInjective(r)
      /\ \A g : Contains(r, g) <=> Contains(w[i], g) \/ g = s
  BY <1>1, PushedFacts
<1> HIDE DEF r
<1>3. v \in [Positions -> Seq(1 .. l - 1)] /\ v[i] = r /\ \A j \in Positions \ {i} : v[j] = w[j]
  BY <1>1, <1>2
<1> HIDE DEF v
<1>4. ASSUME NEW j \in Positions
      PROVE  /\ IsInjective(v[j])
             /\ \A x \in 1 .. l - 1 :
                  Contains(v[j], x) <=> u[x].wheel_li = "queued" /\ u[x].wheel_idx = j
  <2>1. /\ IsInjective(w[j])
        /\ \A x : Contains(w[j], x) <=>
             x \in 1 .. l - 1 /\ t[x].wheel_li = "queued" /\ t[x].wheel_idx = j
    BY WheelFacts
  <2>2. CASE j = i
    BY <1>2, <1>3, <2>1, <2>2
  <2>3. CASE j # i
    BY <1>3, <2>1, <2>3
  <2> QED BY <2>2, <2>3
<1>5. \A x \in 1 .. l - 1 : u[x].wheel_li = "queued" => u[x].state \in Kinds
  BY DEF Wheeled
<1> QED BY <1>3, <1>4, <1>5 DEF v, r, Wheeled

-----------------------------------------------------------------------------
(* The buffers. *)

LEMMA UsersFinite ==
  ASSUME NEW t, NEW l \in Nat, NEW d
  PROVE  IsFiniteSet(UsersOf(t, l, d)) /\ Cardinality(UsersOf(t, l, d)) \in Nat
<1>1. IsFiniteSet(1 .. l - 1)
  BY FS_Interval
<1>2. UsersOf(t, l, d) \in SUBSET (1 .. l - 1)
  BY DEF UsersOf
<1>3. IsFiniteSet(UsersOf(t, l, d))
  BY <1>1, <1>2, FS_Subset
<1> QED BY <1>3, FS_CardinalityType

(* The slot s is given to a timer, in a list that may have grown.          *)
SlotTaken(t, u, l, m, s) ==
  /\ m \in Nat /\ l <= m /\ s \in 1 .. l - 1
  /\ t[s].param_dbuf = NULL /\ u[s].state \in Kinds
  /\ \A x \in (1 .. l - 1) \ {s} :
       u[x].param_dbuf = t[x].param_dbuf /\ u[x].state = t[x].state
  /\ \A x \in l .. m - 1 : u[x].param_dbuf = NULL

(* That timer takes a buffer or none.                                      *)
LEMMA CountTakes ==
  ASSUME NEW t, NEW u, NEW l \in Nat, NEW m, NEW lk, NEW own, NEW s,
         Counted(t, l, lk, own), SlotTaken(t, u, l, m, s),
         NEW lk2 \in [Dbufs -> Nat],
         \A b \in Dbufs : lk2[b] = IF b = u[s].param_dbuf THEN lk[b] + 1 ELSE lk[b]
  PROVE  Counted(u, m, lk2, own)
<1> DEFINE d == u[s].param_dbuf
<1>1. /\ m \in Nat /\ l <= m /\ s \in 1 .. l - 1
      /\ t[s].param_dbuf = NULL /\ u[s].state \in Kinds
      /\ \A x \in (1 .. l - 1) \ {s} :
           u[x].param_dbuf = t[x].param_dbuf /\ u[x].state = t[x].state
      /\ \A x \in l .. m - 1 : u[x].param_dbuf = NULL
  BY DEF SlotTaken
<1>2. /\ lk \in [Dbufs -> Nat]
      /\ \A x \in InactiveOf(t, l) : t[x].param_dbuf = NULL
      /\ \A b \in Dbufs :
           lk[b] = Cardinality(UsersOf(t, l, b)) + (IF b \in own THEN 1 ELSE 0)
  BY DEF Counted
<1>3. lk2 \in [Dbufs -> Nat]
  OBVIOUS
<1>4. \A x \in 1 .. m - 1 : x \in 1 .. l - 1 \/ x \in l .. m - 1
  BY <1>1
<1>5. \A x \in 1 .. l - 1 : x \in 1 .. m - 1
  BY <1>1
<1>6. \A x \in InactiveOf(u, m) : u[x].param_dbuf = NULL
  <2>1. ASSUME NEW x \in InactiveOf(u, m) PROVE u[x].param_dbuf = NULL
    <3>1. x \in 1 .. m - 1 /\ u[x].state = "TIMER_INACTIVE"
      BY DEF InactiveOf
    <3>2. x # s
      BY <1>1, <3>1 DEF Kinds
    <3> QED BY <1>1, <1>2, <1>4, <3>1, <3>2 DEF InactiveOf
  <2> QED BY <2>1
<1>7. ASSUME NEW b \in Dbufs
      PROVE  lk2[b] = Cardinality(UsersOf(u, m, b)) + (IF b \in own THEN 1 ELSE 0)
  <2>1. b # NULL
    BY NullAssumption
  <2>2. IsFiniteSet(UsersOf(t, l, b)) /\ Cardinality(UsersOf(t, l, b)) \in Nat
    BY UsersFinite
  <2>3. CASE b = d
    <3>1. UsersOf(u, m, b) = UsersOf(t, l, b) \union {s}
      BY <1>1, <1>4, <1>5, <2>1, <2>3 DEF UsersOf
    <3>2. s \notin UsersOf(t, l, b)
      BY <1>1, <2>1 DEF UsersOf
    <3>3. Cardinality(UsersOf(u, m, b)) = Cardinality(UsersOf(t, l, b)) + 1
      BY <2>2, <3>1, <3>2, FS_AddElement
    <3> QED BY <1>2, <2>2, <2>3, <3>3
  <2>4. CASE b # d
    <3>1. UsersOf(u, m, b) = UsersOf(t, l, b)
      BY <1>1, <1>4, <1>5, <2>1, <2>4 DEF UsersOf
    <3> QED BY <1>2, <2>4, <3>1
  <2> QED BY <2>3, <2>4
<1> QED BY <1>3, <1>6, <1>7 DEF Counted

(* The timer of slot s ends, and lets go of its buffer.                    *)
SlotLetsGo(t, u, l, s, d) ==
  /\ s \in 1 .. l - 1 /\ t[s].param_dbuf = d /\ u[s].param_dbuf = NULL
  /\ \A x \in (1 .. l - 1) \ {s} :
       u[x].param_dbuf = t[x].param_dbuf /\ u[x].state = t[x].state

LEMMA CountDrops ==
  ASSUME NEW t, NEW u, NEW l \in Nat, NEW lk, NEW own, NEW s, NEW d,
         Counted(t, l, lk, own), SlotLetsGo(t, u, l, s, d),
         NEW lk2, lk2 = [b \in Dbufs |-> IF b = d THEN lk[b] - 1 ELSE lk[b]]
  PROVE  Counted(u, l, lk2, own)
<1> USE DEF SlotLetsGo
<1>1. /\ lk \in [Dbufs -> Nat]
      /\ \A x \in InactiveOf(t, l) : t[x].param_dbuf = NULL
      /\ \A b \in Dbufs :
           lk[b] = Cardinality(UsersOf(t, l, b)) + (IF b \in own THEN 1 ELSE 0)
  BY DEF Counted
<1>2. \A x \in InactiveOf(u, l) : u[x].param_dbuf = NULL
  BY <1>1 DEF InactiveOf
<1>3. ASSUME NEW b \in Dbufs
      PROVE  /\ lk2[b] \in Nat
             /\ lk2[b] = Cardinality(UsersOf(u, l, b)) + (IF b \in own THEN 1 ELSE 0)
  <2>1. b # NULL
    BY NullAssumption
  <2>2. IsFiniteSet(UsersOf(t, l, b)) /\ Cardinality(UsersOf(t, l, b)) \in Nat
    BY UsersFinite
  <2>3. CASE b = d
    <3>1. UsersOf(u, l, b) = UsersOf(t, l, b) \ {s}
      BY <2>1, <2>3 DEF UsersOf
    <3>2. s \in UsersOf(t, l, b)
      BY <2>3 DEF UsersOf
    <3>3. Cardinality(UsersOf(u, l, b)) = Cardinality(UsersOf(t, l, b)) - 1
      BY <2>2, <3>1, <3>2, FS_RemoveElement
    <3>4. Cardinality(UsersOf(u, l, b)) \in Nat
      BY UsersFinite
    <3>5. lk2[b] = lk[b] - 1
      BY <2>3
    <3> QED BY <1>1, <2>2, <3>3, <3>4, <3>5
  <2>4. CASE b # d
    <3>1. UsersOf(u, l, b) = UsersOf(t, l, b)
      BY <2>1, <2>4 DEF UsersOf
    <3> QED BY <1>1, <2>4, <3>1
  <2> QED BY <2>3, <2>4
<1>4. lk2 \in [Dbufs -> Nat]
  BY <1>3
<1> QED BY <1>2, <1>3, <1>4 DEF Counted

-----------------------------------------------------------------------------
(* The steps. *)

LEMMA Sizes ==
  /\ Slots = 0 .. MaxSlots - 1 /\ MaxSlots \in Nat /\ TIMER_DBUF_SIZE \in Nat \ {0, 1}
  /\ TIMER_DBUF_SIZE <= MaxSlots /\ TIMER_WHEEL_SIZE \in Nat \ {0}
  /\ TIMER_DBUF_INCREMENT \in Nat \ {0}
  /\ 0 \in Slots /\ 0 \in Positions
<1>1. MaxSlots \in Nat /\ TIMER_DBUF_SIZE \in Nat \ {0, 1} /\ TIMER_DBUF_SIZE <= MaxSlots
      /\ TIMER_WHEEL_SIZE \in Nat \ {0} /\ TIMER_DBUF_INCREMENT \in Nat \ {0}
  BY SizeAssumption
<1>2. 0 \in Slots /\ 0 \in Positions
  BY <1>1 DEF Slots, Positions
<1> QED BY <1>1, <1>2 DEF Slots

LEMMA LengthFacts ==
  ASSUME NEW t, NEW l, Cleared(t, l)
  PROVE  l \in Nat /\ TIMER_DBUF_SIZE <= l /\ l <= MaxSlots
         /\ 1 .. l - 1 \subseteq Slots /\ 0 \notin 1 .. l - 1
<1>1. l \in TIMER_DBUF_SIZE .. MaxSlots
  BY DEF Cleared
<1> QED BY <1>1, Sizes

LEMMA Initially == Init => IInv
<1> SUFFICES ASSUME Init PROVE IInv
  OBVIOUS
<1> DEFINE N == TIMER_DBUF_SIZE
           next(s) == IF s \in 1 .. N - 2 THEN s + 1 ELSE 0
<1>1. /\ timer_list_length = N /\ timers = [s \in Slots |-> Fresh(next(s))]
      /\ timer_first_inactive = 1 /\ timer_last_inactive = N - 1
      /\ timerwheel = [i \in Positions |-> <<>>] /\ timerwheel_idx = 0
      /\ where = "program" /\ firing = 0 /\ slot = "kept" /\ halted = "no"
      /\ lock = [d \in Dbufs |-> 1] /\ owned = Dbufs
      /\ wait = [s \in Slots |-> 0]
  BY DEF Init, Positions
<1>2. N \in Nat \ {0, 1} /\ N <= MaxSlots /\ Slots = 0 .. MaxSlots - 1 /\ MaxSlots \in Nat
  BY Sizes
<1>3. \A s \in Slots : next(s) \in Slots
  BY <1>2
<1>4. \A s \in 1 .. N - 1 : s \in Slots /\ next(s) = IF s = N - 1 THEN 0 ELSE s + 1
  BY <1>2
<1> HIDE DEF next, N
<1>5. \A x \in Slots :
        /\ timers[x].state = "TIMER_INACTIVE" /\ timers[x].wheel_li = "null"
        /\ timers[x].param_dbuf = NULL /\ timers[x].next_inactive_index = next(x)
  BY <1>1 DEF Fresh
<1>6. timers \in [Slots -> Timer]
  <2>1. \A x \in Slots : Fresh(next(x)) \in Timer
    BY <1>3, Sizes DEF Fresh, Timer
  <2> QED BY <1>1, <2>1
<1>7. InactiveOf(timers, N) = 1 .. N - 1
  BY <1>4, <1>5 DEF InactiveOf
<1>8. Chained(timers, N, 1, N - 1)
  <2>1. 1 \in Nat /\ N - 1 \in Nat /\ 1 <= N - 1
    BY <1>2
  <2>2. \A s \in 1 .. N - 1 : timers[s].next_inactive_index = IF s = N - 1 THEN 0 ELSE s + 1
    BY <1>4, <1>5
  <2> DEFINE c == [n \in 1 .. (N - 1) - 1 + 1 |-> 1 + n - 1]
  <2>3. Chains(c, timers, 1 .. N - 1, 1, N - 1)
    BY <2>1, <2>2, ChainOfNew
  <2> HIDE DEF c
  <2>4. c \in Seq(Nat)
    BY <2>3 DEF Chains
  <2> QED BY <1>7, <2>3, <2>4 DEF Chained
<1>9. Wheeled(timers, N, timerwheel)
  <2>1. /\ <<>> \in Seq(1 .. N - 1) /\ IsInjective(<<>>) /\ \A s : ~Contains(<<>>, s)
    <3>1. <<>> \in Seq(1 .. N - 1) /\ Len(<<>>) = 0
      BY EmptySeq
    <3> QED BY <3>1, ListFacts DEF IsInjective, Contains
  <2> QED BY <1>1, <1>4, <1>5, <2>1 DEF Wheeled
<1>10. Scheduled(timers, N, 0, wait)
  BY <1>1, <1>4, <1>5, Sizes DEF Scheduled
<1>11. Counted(timers, N, lock, Dbufs)
  <2>1. ASSUME NEW d \in Dbufs
        PROVE  lock[d] = Cardinality(UsersOf(timers, N, d)) + (IF d \in Dbufs THEN 1 ELSE 0)
    <3>1. UsersOf(timers, N, d) = {}
      BY <1>4, <1>5, NullAssumption DEF UsersOf
    <3>2. Cardinality(UsersOf(timers, N, d)) = 0
      BY <3>1, FS_EmptySet
    <3> QED BY <1>1, <3>2
  <2>2. lock \in [Dbufs -> Nat]
    BY <1>1
  <2>3. \A s \in InactiveOf(timers, N) : timers[s].param_dbuf = NULL
    BY <1>4, <1>5, <1>7
  <2> QED BY <2>1, <2>2, <2>3 DEF Counted
<1>12. Cleared(timers, N)
  BY <1>2, <1>4, <1>5 DEF Cleared, N
<1>13. Handling
  BY <1>1 DEF Handling
<1>14. 1 \in Used /\ N - 1 \in Used
  BY <1>1, <1>2 DEF Used
<1> QED BY <1>1, <1>6, <1>8, <1>9, <1>10, <1>11, <1>12, <1>13, <1>14, Sizes DEF IInv

(* What timer_deactivate_internal writes.                                  *)
LEMMA DeactivateWrites ==
  ASSUME timers \in [Slots -> Timer], NEW s \in Slots, timer_last_inactive \in Slots,
         s # timer_last_inactive, Deactivate(s)
  PROVE  /\ timers' \in [Slots -> Timer]
         /\ timers'[s].state = "TIMER_INACTIVE" /\ timers'[s].param_dbuf = NULL
         /\ timers'[s].wheel_li = "null" /\ timers'[s].next_inactive_index = 0
         /\ timers'[timer_last_inactive].next_inactive_index = s
         /\ \A x \in Slots \ {s} :
              /\ timers'[x].state = timers[x].state
              /\ timers'[x].param_dbuf = timers[x].param_dbuf
              /\ timers'[x].wheel_li = timers[x].wheel_li
              /\ timers'[x].wheel_idx = timers[x].wheel_idx
         /\ \A x \in Slots \ {s, timer_last_inactive} : timers'[x] = timers[x]
<1> DEFINE last == timer_last_inactive
           a == [timers[last] EXCEPT !.next_inactive_index = s]
           b == [timers[s] EXCEPT !.param_dbuf = NULL, !.period = 0,
                             !.state = "TIMER_INACTIVE", !.next_inactive_index = 0,
                             !.wheel_li = "null", !.wheel_idx = 0]
<1>1. timers[s] \in Timer /\ timers[last] \in Timer
  OBVIOUS
<1>2. /\ a \in Timer /\ a.next_inactive_index = s /\ a.state = timers[last].state
      /\ a.param_dbuf = timers[last].param_dbuf /\ a.wheel_li = timers[last].wheel_li
      /\ a.wheel_idx = timers[last].wheel_idx
  BY <1>1 DEF Timer
<1>3. /\ b \in Timer /\ b.state = "TIMER_INACTIVE" /\ b.param_dbuf = NULL
      /\ b.wheel_li = "null" /\ b.next_inactive_index = 0
  BY <1>1, Sizes DEF Timer
<1>4. timers' = [x \in Slots |-> IF x = s THEN b ELSE IF x = last THEN a ELSE timers[x]]
  BY DEF Deactivate
<1> HIDE DEF a, b
<1>5. timers'[s] = b /\ timers'[last] = a /\ \A x \in Slots \ {s, last} : timers'[x] = timers[x]
  BY <1>4
<1>6. timers' \in [Slots -> Timer]
  BY <1>2, <1>3, <1>4
<1> QED BY <1>2, <1>3, <1>5, <1>6

LEMMA DeactivateKeeps ==
  ASSUME IInv, NEW s \in Used, timers[s].state \in Kinds, Deactivate(s),
         timer_list_length' = timer_list_length,
         timer_first_inactive' = timer_first_inactive, owned' = owned
  PROVE  /\ (timers \in [Slots -> Timer])'
         /\ (timer_first_inactive \in Used /\ timer_last_inactive \in Used)'
         /\ Cleared(timers, timer_list_length)'
         /\ Chained(timers, timer_list_length, timer_first_inactive, timer_last_inactive)'
         /\ Counted(timers, timer_list_length, lock, owned)'
         /\ timers'[s].wheel_li = "null"
         /\ \A x \in Used \ {s} :
              /\ timers'[x].state = timers[x].state
              /\ timers'[x].wheel_li = timers[x].wheel_li
              /\ timers'[x].wheel_idx = timers[x].wheel_idx
<1> DEFINE l == timer_list_length
           first == timer_first_inactive
           last == timer_last_inactive
           S == InactiveOf(timers, l)
<1>1. /\ timers \in [Slots -> Timer] /\ first \in 1 .. l - 1 /\ last \in 1 .. l - 1
      /\ Cleared(timers, l) /\ Chained(timers, l, first, last)
      /\ Counted(timers, l, lock, owned)
  BY DEF IInv, Used
<1>2. l \in Nat /\ 1 .. l - 1 \subseteq Slots /\ s \in 1 .. l - 1 /\ Used = 1 .. l - 1
      /\ Used \subseteq Nat
  BY <1>1, LengthFacts DEF Used
<1>3. PICK c \in Seq(Nat) : Chains(c, timers, S, first, last)
  BY <1>1 DEF Chained
<1>4. last \in S /\ first \in S /\ S \subseteq 1 .. l - 1 /\ s \notin S /\ s # last
  <2>1. last \in S /\ first \in S
    BY <1>3, ChainFacts
  <2>2. s \notin S
    BY DEF InactiveOf, Kinds
  <2> QED BY <2>1, <2>2 DEF InactiveOf
<1>5. /\ timers' \in [Slots -> Timer]
      /\ timers'[s].state = "TIMER_INACTIVE" /\ timers'[s].param_dbuf = NULL
      /\ timers'[s].wheel_li = "null" /\ timers'[s].next_inactive_index = 0
      /\ timers'[last].next_inactive_index = s
      /\ \A x \in Slots \ {s} :
           /\ timers'[x].state = timers[x].state
           /\ timers'[x].param_dbuf = timers[x].param_dbuf
           /\ timers'[x].wheel_li = timers[x].wheel_li
           /\ timers'[x].wheel_idx = timers[x].wheel_idx
      /\ \A x \in Slots \ {s, last} : timers'[x] = timers[x]
  <2>1. s \in Slots /\ last \in Slots /\ s # last /\ timers \in [Slots -> Timer]
    BY <1>1, <1>2, <1>4
  <2> QED BY <2>1, DeactivateWrites
<1>6. timer_last_inactive' = s
  BY DEF Deactivate
<1>7. InactiveOf(timers', l) = S \union {s}
  BY <1>2, <1>5 DEF InactiveOf
<1>8. Chained(timers', l, first, s)
  <2>1. LinkedBehind(timers, timers', S, last, s)
    BY <1>2, <1>4, <1>5 DEF LinkedBehind
  <2> HIDE DEF S, first, last
  <2>2. Chains(Append(c, s), timers', S \union {s}, first, s)
    BY <1>3, <2>1, ChainGrows
  <2>3. Append(c, s) \in Seq(Nat)
    BY <2>2 DEF Chains
  <2> QED BY <1>7, <2>2, <2>3 DEF Chained
<1>9. Counted(timers', l, lock', owned)
  <2> DEFINE d == timers[s].param_dbuf
  <2>1. lock' = [b \in Dbufs |-> IF b = d THEN lock[b] - 1 ELSE lock[b]]
    BY DEF Deactivate, Unlocked
  <2>2. SlotLetsGo(timers, timers', l, s, d)
    BY <1>2, <1>5 DEF SlotLetsGo
  <2>3. l \in Nat /\ Counted(timers, l, lock, owned)
    BY <1>1, <1>2
  <2> HIDE DEF l, d
  <2> QED BY <2>1, <2>2, <2>3, CountDrops
<1>10. Cleared(timers', l)
  BY <1>1, <1>2, <1>5 DEF Cleared
<1>11. first \in Used' /\ s \in Used'
  BY <1>1 DEF Used
<1> QED BY <1>2, <1>5, <1>6, <1>8, <1>9, <1>10, <1>11

(* Queueing writes nothing that the chain and the buffers depend on.       *)
LEMMA SlotsSame ==
  ASSUME NEW t, NEW u, NEW l, NEW first, NEW last, NEW lk, NEW own,
         \A x \in 1 .. l - 1 :
           /\ u[x].state = t[x].state /\ u[x].param_dbuf = t[x].param_dbuf
           /\ u[x].next_inactive_index = t[x].next_inactive_index
  PROVE  /\ Chained(t, l, first, last) => Chained(u, l, first, last)
         /\ Counted(t, l, lk, own) => Counted(u, l, lk, own)
<1>1. InactiveOf(u, l) = InactiveOf(t, l) /\ InactiveOf(t, l) \subseteq 1 .. l - 1
  BY DEF InactiveOf
<1>2. \A d : UsersOf(u, l, d) = UsersOf(t, l, d)
  BY DEF UsersOf
<1>3. ASSUME Chained(t, l, first, last) PROVE Chained(u, l, first, last)
  <2>1. PICK c \in Seq(Nat) : Chains(c, t, InactiveOf(t, l), first, last)
    BY <1>3 DEF Chained
  <2>2. \A x \in InactiveOf(t, l) : u[x].next_inactive_index = t[x].next_inactive_index
    BY <1>1
  <2>3. Chains(c, u, InactiveOf(t, l), first, last)
    BY <2>1, <2>2, ChainSame
  <2> QED BY <1>1, <2>3 DEF Chained
<1>4. ASSUME Counted(t, l, lk, own) PROVE Counted(u, l, lk, own)
  BY <1>1, <1>2, <1>4 DEF Counted
<1> QED BY <1>3, <1>4

(* timer_enqueue_internal: a timer that is in no list is put into one, or  *)
(* stays in none.                                                          *)
LEMMA EnqueueKeeps ==
  ASSUME NEW u \in [Slots -> Timer], NEW l, Cleared(u, l), NEW s \in 1 .. l - 1,
         NEW ticks \in Nat, u[s].wheel_li # "queued", u[s].state \in Kinds,
         timerwheel_idx \in Positions, Wheeled(u, l, timerwheel),
         Scheduled(u, l, timerwheel_idx, wait), Enqueue(u, s, ticks)
  PROVE  /\ timers' \in [Slots -> Timer] /\ Cleared(timers', l)
         /\ Wheeled(timers', l, timerwheel') /\ Scheduled(timers', l, timerwheel_idx, wait')
         /\ \A x \in 1 .. l - 1 :
              /\ timers'[x].state = u[x].state /\ timers'[x].param_dbuf = u[x].param_dbuf
              /\ timers'[x].next_inactive_index = u[x].next_inactive_index
         /\ \A x \in (1 .. l - 1) \ {s} : timers'[x] = u[x]
<1>1. CASE ticks >= TIMER_WHEEL_SIZE
  <2>1. timers' = u /\ timerwheel' = timerwheel /\ wait' = wait
    BY <1>1 DEF Enqueue
  <2> QED BY <2>1
<1>2. CASE ~(ticks >= TIMER_WHEEL_SIZE)
  <2>1. ticks \in Positions
    BY <1>2, Sizes DEF Positions
  <2>2. PICK at : at = After(timerwheel_idx, ticks)
    OBVIOUS
  <2>3. (timerwheel_idx + ticks) % TIMER_WHEEL_SIZE = at /\ at \in Positions
    BY <2>1, <2>2, Modulo
  <2> DEFINE r == [u[s] EXCEPT !.wheel_li = "queued", !.wheel_idx = at]
             v == [u EXCEPT ![s].wheel_li = "queued", ![s].wheel_idx = at]
  <2>4. /\ timers' = v /\ timerwheel' = [timerwheel EXCEPT ![at] = Pushed(@, s)]
        /\ wait' = [wait EXCEPT ![s] = ticks]
    BY <1>2, <2>3 DEF Enqueue
  <2>5. l \in Nat /\ 1 .. l - 1 \subseteq Slots /\ s \in Slots
    BY LengthFacts
  <2>6. /\ r \in Timer /\ r.state = u[s].state /\ r.param_dbuf = u[s].param_dbuf
        /\ r.next_inactive_index = u[s].next_inactive_index
        /\ r.wheel_li = "queued" /\ r.wheel_idx = at
    <3>1. u[s] \in Timer
      BY <2>5
    <3> QED BY <2>3, <3>1 DEF Timer
  <2>7. v = [x \in Slots |-> IF x = s THEN r ELSE u[x]]
    BY <2>5
  <2> HIDE DEF r, v
  <2>8. v \in [Slots -> Timer] /\ v[s] = r /\ \A x \in Slots \ {s} : v[x] = u[x]
    BY <2>5, <2>6, <2>7
  <2>9. \A x \in (1 .. l - 1) \ {s} : v[x] = u[x]
    BY <2>5, <2>8
  <2>10. Cleared(v, l)
    BY <2>6, <2>8, <2>9 DEF Cleared
  <2>11. Wheeled(v, l, [timerwheel EXCEPT ![at] = Pushed(timerwheel[at], s)])
    <3>1. v[s].wheel_li = "queued" /\ v[s].wheel_idx = at /\ v[s].state \in Kinds
      BY <2>6, <2>8
    <3>2. \A x \in (1 .. l - 1) \ {s} :
            /\ v[x].wheel_li = u[x].wheel_li /\ v[x].wheel_idx = u[x].wheel_idx
            /\ v[x].state = u[x].state
      BY <2>9
    <3> QED BY <2>3, <2>5, <3>1, <3>2, WheelTakes
  <2>12. Scheduled(v, l, timerwheel_idx, wait')
    <3>1. wait \in [Slots -> Positions]
      BY DEF Scheduled
    <3>2. /\ wait' \in [Slots -> Positions] /\ wait'[s] = ticks
          /\ \A x \in Slots \ {s} : wait'[x] = wait[x]
      BY <2>1, <2>4, <2>5, <3>1
    <3>3. ASSUME NEW x \in 1 .. l - 1, v[x].wheel_li = "queued"
          PROVE  v[x].wheel_idx = After(timerwheel_idx, wait'[x])
      <4>1. CASE x = s
        BY <2>2, <2>6, <2>8, <3>2, <4>1
      <4>2. CASE x # s
        BY <2>5, <2>9, <3>2, <3>3, <4>2 DEF Scheduled
      <4> QED BY <4>1, <4>2
    <3> QED BY <3>2, <3>3 DEF Scheduled
  <2> QED BY <2>4, <2>6, <2>8, <2>9, <2>10, <2>11, <2>12
<1> QED BY <1>1, <1>2

(* What expand_timer_list writes.                                          *)
LEMMA ExpandWrites ==
  ASSUME timers \in [Slots -> Timer], NEW last \in Slots, last < timer_list_length,
         timer_list_length \in Nat \ {0},
         timer_list_length + TIMER_DBUF_INCREMENT <= MaxSlots,
         NEW t, t = Expand(last), NEW m, m = timer_list_length + TIMER_DBUF_INCREMENT
  PROVE  /\ t \in [Slots -> Timer] /\ m - 1 \in Nat /\ timer_list_length <= m - 1
         /\ t[last].next_inactive_index = timer_list_length
         /\ t[last].wheel_li = timers[last].wheel_li
         /\ t[last].wheel_idx = timers[last].wheel_idx
         /\ t[last].param_dbuf = timers[last].param_dbuf
         /\ \A x \in (1 .. timer_list_length - 1) \ {last} : t[x] = timers[x]
         /\ \A x \in timer_list_length .. m - 1 :
              /\ t[x].state = "TIMER_INACTIVE" /\ t[x].wheel_li = "garbage"
              /\ t[x].param_dbuf = NULL
              /\ t[x].next_inactive_index = IF x = m - 1 THEN 0 ELSE x + 1
<1> DEFINE l == timer_list_length
           a == [timers[last] EXCEPT !.next_inactive_index = l]
           f(n) == [Fresh(n) EXCEPT !.wheel_li = "garbage"]
           next(x) == IF x = m - 1 THEN 0 ELSE x + 1
<1>1. /\ l \in Nat \ {0} /\ m = l + TIMER_DBUF_INCREMENT /\ m <= MaxSlots
      /\ TIMER_DBUF_INCREMENT \in Nat \ {0} /\ MaxSlots \in Nat
      /\ Slots = 0 .. MaxSlots - 1
  BY Sizes
<1>2. m - 1 \in Nat /\ l <= m - 1
  BY <1>1
<1>3. l \in Slots /\ (\A x \in 1 .. l - 1 : x \in Slots /\ x \notin l .. m - 1)
      /\ last \notin l .. m - 1
  BY <1>1
<1>4. \A x \in l .. m - 1 : x \in Slots /\ next(x) \in Slots
  BY <1>1
<1>5. t = [x \in Slots |-> IF x \in l .. m - 1 THEN f(next(x))
                          ELSE IF x = last THEN a ELSE timers[x]]
  BY DEF Expand
<1>6. /\ a \in Timer /\ a.next_inactive_index = l /\ a.wheel_li = timers[last].wheel_li
      /\ a.wheel_idx = timers[last].wheel_idx /\ a.param_dbuf = timers[last].param_dbuf
  <2>1. timers[last] \in Timer
    OBVIOUS
  <2> HIDE DEF l
  <2> QED BY <1>3, <2>1 DEF Timer
<1>7. ASSUME NEW n \in Slots
      PROVE  /\ f(n) \in Timer /\ f(n).state = "TIMER_INACTIVE" /\ f(n).wheel_li = "garbage"
             /\ f(n).param_dbuf = NULL /\ f(n).next_inactive_index = n
  BY Sizes DEF Fresh, Timer
<1> HIDE DEF l, a, f, next
<1>8. t \in [Slots -> Timer]
  <2>1. ASSUME NEW x \in Slots
        PROVE  (IF x \in l .. m - 1 THEN f(next(x)) ELSE IF x = last THEN a ELSE timers[x])
                 \in Timer
    BY <1>4, <1>6, <1>7
  <2> QED BY <1>5, <2>1
<1>9. t[last] = a
  BY <1>3, <1>5
<1>10. \A x \in (1 .. l - 1) \ {last} : t[x] = timers[x]
  BY <1>3, <1>5
<1>11. \A x \in l .. m - 1 : t[x] = f(next(x))
  BY <1>4, <1>5
<1>12. \A x \in l .. m - 1 :
         /\ t[x].state = "TIMER_INACTIVE" /\ t[x].wheel_li = "garbage"
         /\ t[x].param_dbuf = NULL
         /\ t[x].next_inactive_index = next(x)
  BY <1>4, <1>7, <1>11
<1> QED BY <1>2, <1>6, <1>8, <1>9, <1>10, <1>12 DEF l, next

(* What start_timer writes into the slot it has taken.                     *)
Started(t, s, kind, d, p) ==
  [t EXCEPT ![s].state = kind, ![s].param_dbuf = d,
            ![s].next_inactive_index = 0, ![s].period = p]

LEMMA StartWrites ==
  ASSUME NEW t \in [Slots -> Timer], NEW s \in Slots, NEW kind \in Kinds,
         NEW d \in Dbufs \union {NULL}, NEW p \in Intervals \union {0},
         NEW u, u = Started(t, s, kind, d, p)
  PROVE  /\ u \in [Slots -> Timer]
         /\ u[s].state = kind /\ u[s].param_dbuf = d
         /\ u[s].wheel_li = t[s].wheel_li /\ u[s].wheel_idx = t[s].wheel_idx
         /\ \A x \in Slots \ {s} : u[x] = t[x]
<1> DEFINE r == [t[s] EXCEPT !.state = kind, !.param_dbuf = d,
                             !.next_inactive_index = 0, !.period = p]
<1>1. /\ r \in Timer /\ r.state = kind /\ r.param_dbuf = d
      /\ r.wheel_li = t[s].wheel_li /\ r.wheel_idx = t[s].wheel_idx
  <2>1. t[s] \in Timer
    OBVIOUS
  <2> QED BY <2>1, Sizes DEF Timer
<1>2. u = [x \in Slots |-> IF x = s THEN r ELSE t[x]]
  BY DEF Started
<1> HIDE DEF r
<1> QED BY <1>1, <1>2

(* Another slot is left for the next timer.                                *)
LEMMA GrabOfMany ==
  ASSUME IInv, NEW s, s = timer_first_inactive, timers[s].next_inactive_index # 0,
         NEW u, u[s].state \in Kinds,
         \A x \in (1 .. timer_list_length - 1) \ {s} : u[x] = timers[x]
  PROVE  /\ timers[s].next_inactive_index \in Used
         /\ Chained(u, timer_list_length, timers[s].next_inactive_index, timer_last_inactive)
<1> DEFINE l == timer_list_length
           last == timer_last_inactive
           next == timers[s].next_inactive_index
           S == InactiveOf(timers, l)
<1>1. Chained(timers, l, s, last)
  BY DEF IInv
<1>2. PICK c \in Seq(Nat) : Chains(c, timers, S, s, last)
  BY <1>1 DEF Chained
<1>3. Chains(Tail(c), timers, S \ {s}, next, last)
  BY <1>2, ChainLosesFirst
<1>4. \A x \in S \ {s} : u[x].next_inactive_index = timers[x].next_inactive_index
  BY DEF InactiveOf
<1>5. S \ {s} = InactiveOf(u, l)
  BY DEF InactiveOf, Kinds
<1>6. next \in S \ {s} /\ S \ {s} \subseteq 1 .. l - 1
  <2>1. next \in S \ {s}
    BY <1>3, ChainFacts
  <2> QED BY <2>1 DEF InactiveOf
<1> HIDE DEF next, S, l
<1>7. Chains(Tail(c), u, S \ {s}, next, last)
  BY <1>3, <1>4, ChainSame
<1>8. Tail(c) \in Seq(Nat)
  BY <1>7 DEF Chains
<1>9. Chained(u, l, next, last)
  BY <1>5, <1>7, <1>8 DEF Chained
<1> QED BY <1>6, <1>9 DEF next, l, Used

(* The last slot is taken, and the list has grown before.                  *)
LEMMA GrabOfLast ==
  ASSUME IInv, NEW s, s = timer_first_inactive, timers[s].next_inactive_index = 0,
         NEW m \in Nat, timer_list_length <= m - 1,
         NEW u, u[s].state \in Kinds,
         \A x \in (1 .. timer_list_length - 1) \ {s} : u[x] = timers[x],
         \A x \in timer_list_length .. m - 1 :
           /\ u[x].state = "TIMER_INACTIVE"
           /\ u[x].next_inactive_index = IF x = m - 1 THEN 0 ELSE x + 1
  PROVE  s = timer_last_inactive /\ Chained(u, m, timer_list_length, m - 1)
<1> DEFINE l == timer_list_length
           S == InactiveOf(timers, l)
<1>1. Chained(timers, l, s, timer_last_inactive) /\ l \in Nat /\ 0 \notin S /\ l # 0
  BY LengthFacts, Sizes DEF IInv, InactiveOf
<1>2. PICK c \in Seq(Nat) : Chains(c, timers, S, s, timer_last_inactive)
  BY <1>1 DEF Chained
<1>3. S = {s} /\ s = timer_last_inactive
  BY <1>1, <1>2, ChainOfOne
<1>4. InactiveOf(u, m) = l .. m - 1
  <2>1. ASSUME NEW x \in 1 .. l - 1 PROVE u[x].state # "TIMER_INACTIVE"
    <3>1. CASE x = s
      BY <3>1 DEF Kinds
    <3>2. CASE x # s
      BY <1>3, <3>2 DEF InactiveOf
    <3> QED BY <3>1, <3>2
  <2>2. \A x \in 1 .. m - 1 : x \in 1 .. l - 1 \/ x \in l .. m - 1
    BY <1>1
  <2>3. \A x \in l .. m - 1 : x \in 1 .. m - 1
    BY <1>1
  <2> QED BY <2>1, <2>2, <2>3 DEF InactiveOf
<1> DEFINE b == m - 1
           e == [n \in 1 .. b - l + 1 |-> l + n - 1]
<1>5. b \in Nat /\ l <= b /\ \A x \in l .. b : u[x].next_inactive_index = IF x = b THEN 0 ELSE x + 1
  BY <1>1
<1> HIDE DEF S, l, b
<1>6. Chains(e, u, l .. b, l, b)
  BY <1>1, <1>5, ChainOfNew
<1> HIDE DEF e
<1>7. e \in Seq(Nat)
  BY <1>6 DEF Chains
<1>8. Chained(u, m, l, b)
  BY <1>4, <1>6, <1>7 DEF Chained, b
<1> QED BY <1>3, <1>8 DEF l, b

(* The ticks of an interval are a number, whether or not they wrap.        *)
LEMMA WholeTicks ==
  ASSUME NEW msec \in Nat
  PROVE  Ticks(msec) \in Nat
<1>1. msec * TIMER_WHEEL_TICKS_PER_SEC \in Nat
  BY SizeAssumption
<1> DEFINE n == msec * TIMER_WHEEL_TICKS_PER_SEC
<1>2. Ticks(msec) = (n % UINT32) \div 1000
  BY DEF Ticks
<1> HIDE DEF n
<1>3. n % UINT32 \in Nat
  BY <1>1, SizeAssumption DEF n
<1> QED BY <1>2, <1>3

LEMMA StartTimerKeeps ==
  ASSUME IInv, NEW interval \in Intervals, NEW kind \in Kinds,
         NEW d \in Dbufs \union {NULL}, StartTimer(interval, kind, d)
  PROVE  IInv'
<1> DEFINE l == timer_list_length
           m == timer_list_length'
           p == IF kind = "TIMER_PERIODIC" THEN interval ELSE 0
           ticks == Ticks(interval)
<1>1. PICK s \in Slots, t \in {timers, Expand(timer_first_inactive)} :
        /\ Grab(s, t)
        /\ Enqueue(Started(t, s, kind, d, p), s, ticks)
  BY DEF StartTimer, Started
<1>2. /\ Running /\ lock' = Locked(d)
      /\ UNCHANGED <<timerwheel_idx, where, firing, halted, owned>>
  BY DEF StartTimer
<1>3. PICK u : u = Started(t, s, kind, d, p)
  OBVIOUS
<1>4. /\ timers \in [Slots -> Timer]
      /\ timer_first_inactive \in Used /\ timer_last_inactive \in Used
      /\ timerwheel_idx \in Positions /\ owned \subseteq Dbufs
      /\ Cleared(timers, l) /\ Chained(timers, l, timer_first_inactive, timer_last_inactive)
      /\ Wheeled(timers, l, timerwheel) /\ Scheduled(timers, l, timerwheel_idx, wait)
      /\ Counted(timers, l, lock, owned) /\ Handling
  BY DEF IInv
<1>5. /\ l \in Nat /\ TIMER_DBUF_SIZE <= l /\ l <= MaxSlots /\ 1 .. l - 1 \subseteq Slots
      /\ Used = 1 .. l - 1 /\ l # 0
  BY <1>4, LengthFacts, Sizes DEF Used
<1>6. s = timer_first_inactive /\ s \in 1 .. l - 1 /\ s \in InactiveOf(timers, l)
  <2>1. s = timer_first_inactive
    BY <1>1 DEF Grab
  <2>2. PICK c \in Seq(Nat) :
          Chains(c, timers, InactiveOf(timers, l), timer_first_inactive, timer_last_inactive)
    BY <1>4 DEF Chained
  <2>3. timer_first_inactive \in InactiveOf(timers, l)
    BY <2>2, ChainFacts
  <2> QED BY <2>1, <2>3 DEF InactiveOf
<1>7. p \in Intervals \union {0} /\ ticks \in Nat /\ kind # "TIMER_INACTIVE"
  <2>1. ticks \in Nat
    BY IntervalsAssumption, WholeTicks
  <2> HIDE DEF ticks
  <2> QED BY <2>1 DEF Kinds
<1> HIDE DEF ticks
<1>8. timers[s].param_dbuf = NULL /\ timers[s].wheel_li # "queued"
  <2>1. timers[s].state = "TIMER_INACTIVE"
    BY <1>6 DEF InactiveOf
  <2>2. timers[s].param_dbuf = NULL
    BY <1>4, <1>6 DEF Counted
  <2> QED BY <1>4, <1>6, <2>1, <2>2 DEF Wheeled, Kinds
(* Whether the list grows or not, the slot is taken ...                    *)
<1> DEFINE Taken ==
      /\ m \in Nat /\ l <= m /\ m \in TIMER_DBUF_SIZE .. MaxSlots
      /\ u \in [Slots -> Timer] /\ u[s].state = kind /\ u[s].param_dbuf = d
      /\ u[s].wheel_li = timers[s].wheel_li
      /\ \A x \in (1 .. l - 1) \ {s} : u[x] = timers[x]
      /\ \A x \in l .. m - 1 :
           u[x].param_dbuf = NULL /\ u[x].wheel_li # "queued"
      /\ \A x \in 1 .. m - 1 : u[x].wheel_li = "garbage" => m > TIMER_DBUF_SIZE
      /\ timer_first_inactive' \in 1 .. m - 1 /\ timer_last_inactive' \in 1 .. m - 1
      /\ Chained(u, m, timer_first_inactive', timer_last_inactive')
      /\ \/ m = l /\ slot' = IF s = firing /\ slot = "kept" THEN "taken" ELSE slot
         \/ m > l /\ slot' = IF where = "handler" THEN "moved" ELSE "kept"
<1>9. ASSUME timers[s].next_inactive_index # 0 PROVE Taken
  <2>1. /\ t = timers /\ m = l /\ timer_last_inactive' = timer_last_inactive
        /\ timer_first_inactive' = timers[s].next_inactive_index
        /\ slot' = IF s = firing /\ slot = "kept" THEN "taken" ELSE slot
    BY <1>1, <1>9 DEF Grab
  <2>2. /\ u \in [Slots -> Timer] /\ u[s].state = kind /\ u[s].param_dbuf = d
        /\ u[s].wheel_li = timers[s].wheel_li
        /\ \A x \in Slots \ {s} : u[x] = timers[x]
    <3> HIDE DEF p
    <3>1. t \in [Slots -> Timer] /\ p \in Intervals \union {0}
      BY <1>4, <1>7, <2>1
    <3>2. /\ u \in [Slots -> Timer] /\ u[s].state = kind /\ u[s].param_dbuf = d
          /\ u[s].wheel_li = t[s].wheel_li
          /\ \A x \in Slots \ {s} : u[x] = t[x]
      BY <1>3, <3>1, StartWrites
    <3> QED BY <2>1, <3>2
  <2>3. \A x \in (1 .. l - 1) \ {s} : u[x] = timers[x]
    BY <1>5, <2>2
  <2>4. /\ timers[s].next_inactive_index \in Used
        /\ Chained(u, l, timers[s].next_inactive_index, timer_last_inactive)
    BY <1>6, <1>9, <2>2, <2>3, GrabOfMany
  <2>5. \A x \in 1 .. l - 1 : u[x].wheel_li = "garbage" => l > TIMER_DBUF_SIZE
    BY <1>4, <1>6, <2>2, <2>3 DEF Cleared
  <2>6. l \in TIMER_DBUF_SIZE .. MaxSlots /\ \A x \in l .. l - 1 : FALSE
    BY <1>4, <1>5 DEF Cleared
  <2>7. timer_first_inactive' \in 1 .. l - 1 /\ timer_last_inactive' \in 1 .. l - 1
    BY <1>4, <1>5, <2>1, <2>4
  <2> QED BY <1>5, <2>1, <2>2, <2>3, <2>4, <2>5, <2>6, <2>7
<1>10. ASSUME timers[s].next_inactive_index = 0 PROVE Taken
  <2>1. /\ t = Expand(s) /\ m = l + TIMER_DBUF_INCREMENT /\ m <= MaxSlots
        /\ timer_last_inactive' = m - 1
        /\ timer_first_inactive' = t[s].next_inactive_index
        /\ slot' = IF where = "handler" THEN "moved" ELSE "kept"
    BY <1>1, <1>10 DEF Grab
  <2>2. /\ t \in [Slots -> Timer] /\ m - 1 \in Nat /\ l <= m - 1
        /\ t[s].next_inactive_index = l /\ t[s].wheel_li = timers[s].wheel_li
        /\ \A x \in (1 .. l - 1) \ {s} : t[x] = timers[x]
        /\ \A x \in l .. m - 1 :
             /\ t[x].state = "TIMER_INACTIVE" /\ t[x].wheel_li = "garbage"
             /\ t[x].param_dbuf = NULL
             /\ t[x].next_inactive_index = IF x = m - 1 THEN 0 ELSE x + 1
    <3>1. s < l /\ l \in Nat \ {0}
      BY <1>5, <1>6
    <3> QED BY <1>4, <2>1, <3>1, ExpandWrites
  <2>3. /\ u \in [Slots -> Timer] /\ u[s].state = kind /\ u[s].param_dbuf = d
        /\ u[s].wheel_li = t[s].wheel_li
        /\ \A x \in Slots \ {s} : u[x] = t[x]
    <3> HIDE DEF p
    <3>1. t \in [Slots -> Timer] /\ p \in Intervals \union {0}
      BY <1>7, <2>2
    <3> QED BY <1>3, <3>1, StartWrites
  <2>4. m \in Nat /\ \A x \in l .. m - 1 : x \in Slots /\ x # s
    BY <1>5, <1>6, <2>1, <2>2, Sizes
  <2>5. \A x \in (1 .. l - 1) \ {s} : u[x] = timers[x]
    BY <1>5, <2>2, <2>3
  <2>6. \A x \in l .. m - 1 :
          /\ u[x].state = "TIMER_INACTIVE" /\ u[x].wheel_li = "garbage"
          /\ u[x].param_dbuf = NULL
          /\ u[x].next_inactive_index = IF x = m - 1 THEN 0 ELSE x + 1
    BY <2>2, <2>3, <2>4
  <2>7. Chained(u, m, l, m - 1)
    BY <1>6, <1>10, <2>2, <2>3, <2>4, <2>5, <2>6, GrabOfLast
  <2>8. /\ m > l /\ m > TIMER_DBUF_SIZE /\ m \in TIMER_DBUF_SIZE .. MaxSlots
        /\ l \in 1 .. m - 1 /\ m - 1 \in 1 .. m - 1
    BY <1>5, <2>1, <2>2, <2>4, Sizes
  <2>9. l <= m /\ timer_first_inactive' = l
    BY <1>5, <2>1, <2>2, <2>4
  <2> QED BY <2>1, <2>2, <2>3, <2>4, <2>5, <2>6, <2>7, <2>8, <2>9
<1>11. Taken
  BY <1>9, <1>10
(* ... and what is known of the lists holds before the timer is queued.    *)
<1>12. m \in Nat /\ l <= m /\ \A x \in 1 .. l - 1 : x \in 1 .. m - 1
  <2>1. m \in Nat /\ l <= m
    BY <1>11
  <2> HIDE DEF l, m
  <2> QED BY <1>5, <2>1
<1>13. Cleared(u, m) /\ s \in 1 .. m - 1 /\ u[s].wheel_li # "queued" /\ u[s].state \in Kinds
  <2>1. m \in TIMER_DBUF_SIZE .. MaxSlots
        /\ \A x \in 1 .. m - 1 : u[x].wheel_li = "garbage" => m > TIMER_DBUF_SIZE
    BY <1>11
  <2>2. u[s].wheel_li # "queued" /\ u[s].state \in Kinds
    BY <1>8, <1>11
  <2>3. s \in 1 .. m - 1
    BY <1>6, <1>12
  <2> HIDE DEF m
  <2> QED BY <2>1, <2>2, <2>3 DEF Cleared
<1>14. \A x \in 1 .. m - 1 : x \in 1 .. l - 1 \/ x \in l .. m - 1
  <2>1. l \in Nat /\ m \in Nat
    BY <1>5, <1>12
  <2> HIDE DEF l, m
  <2> QED BY <2>1
<1>15. \A x \in 1 .. m - 1 :
         u[x].wheel_li = "queued" =>
           x \in 1 .. l - 1 /\ x # s /\ u[x] = timers[x]
  BY <1>8, <1>11, <1>14
<1>16. Wheeled(u, m, timerwheel)
  <2>1. \A x \in 1 .. m - 1 :
          u[x].wheel_li = "queued" =>
            /\ x \in 1 .. l - 1 /\ timers[x].wheel_li = "queued"
            /\ u[x].wheel_idx = timers[x].wheel_idx /\ u[x].state \in Kinds
    BY <1>4, <1>15 DEF Wheeled
  <2>2. \A x \in 1 .. l - 1 :
          timers[x].wheel_li = "queued" =>
            u[x].wheel_li = "queued" /\ u[x].wheel_idx = timers[x].wheel_idx
    BY <1>8, <1>11
  <2>3. l \in Nat /\ m \in Nat /\ l <= m /\ Wheeled(timers, l, timerwheel)
    BY <1>4, <1>5, <1>11
  <2> HIDE DEF l, m
  <2> QED BY <2>1, <2>2, <2>3, WheelSame
<1>17. Scheduled(u, m, timerwheel_idx, wait)
  BY <1>4, <1>15 DEF Scheduled
<1>18. Counted(u, m, lock', owned)
  <2>1. \A x \in (1 .. l - 1) \ {s} :
          u[x].param_dbuf = timers[x].param_dbuf /\ u[x].state = timers[x].state
    BY <1>11
  <2>2. /\ lock' \in [Dbufs -> Nat]
        /\ \A b \in Dbufs :
             lock'[b] = IF b = u[s].param_dbuf THEN lock[b] + 1 ELSE lock[b]
    BY <1>2, <1>4, <1>11 DEF Locked, Counted
  <2>3. SlotTaken(timers, u, l, m, s)
    BY <1>6, <1>8, <1>11, <2>1 DEF SlotTaken
  <2> HIDE DEF l, m
  <2> QED BY <1>4, <1>5, <2>2, <2>3, CountTakes
(* Then it is queued.                                                      *)
<1>19. /\ timers' \in [Slots -> Timer] /\ Cleared(timers', m)
       /\ Wheeled(timers', m, timerwheel') /\ Scheduled(timers', m, timerwheel_idx, wait')
       /\ \A x \in 1 .. m - 1 :
            /\ timers'[x].state = u[x].state /\ timers'[x].param_dbuf = u[x].param_dbuf
            /\ timers'[x].next_inactive_index = u[x].next_inactive_index
       /\ \A x \in (1 .. m - 1) \ {s} : timers'[x] = u[x]
  <2>1. Enqueue(u, s, ticks) /\ u \in [Slots -> Timer]
    BY <1>1, <1>3, <1>11 DEF ticks
  <2> HIDE DEF m
  <2> QED BY <1>4, <1>7, <1>13, <1>16, <1>17, <2>1, EnqueueKeeps
<1>20. /\ Chained(timers', m, timer_first_inactive', timer_last_inactive')
       /\ Counted(timers', m, lock', owned)
  <2>1. Chained(u, m, timer_first_inactive', timer_last_inactive')
    BY <1>11
  <2> HIDE DEF m, Taken
  <2> QED BY <1>18, <1>19, <2>1, SlotsSame
<1>21. Handling'
  <2>1. CASE where = "handler"
    <3>1. firing \in 1 .. l - 1 /\ firing \in 1 .. m - 1
          /\ (slot = "kept" => timers[firing].wheel_li = "null")
          /\ (slot = "moved" => l > TIMER_DBUF_SIZE)
      BY <1>4, <1>5, <1>12, <2>1 DEF Handling
    <3>2. slot' = "kept" => timers'[firing].wheel_li = "null"
      <4>1. ASSUME slot' = "kept" PROVE timers'[firing].wheel_li = "null"
        <5>1. slot = "kept" /\ firing # s
          BY <1>11, <2>1, <4>1
        <5>2. u[firing] = timers[firing]
          BY <1>11, <3>1, <5>1
        <5>3. timers'[firing] = u[firing]
          BY <1>19, <3>1, <5>1
        <5> QED BY <3>1, <5>1, <5>2, <5>3
      <4> QED BY <4>1
    <3>3. slot' = "moved" => m > TIMER_DBUF_SIZE
      <4>1. CASE m = l
        BY <1>11, <2>1, <3>1, <4>1
      <4>2. CASE m > l
        <5>1. m \in Nat
          BY <1>11
        <5> HIDE DEF l, m
        <5> QED BY <1>5, <4>2, <5>1, Sizes
      <4> QED BY <1>11, <4>1, <4>2
    <3>4. slot' \in {"kept", "moved", "taken"}
      BY <1>4, <1>11 DEF Handling
    <3>5. halted = "no"
      BY <1>2 DEF Running
    <3> QED BY <1>2, <2>1, <3>1, <3>2, <3>3, <3>4, <3>5 DEF Handling, Used
  <2>2. CASE where # "handler"
    <3>1. firing = 0 /\ slot = "kept" /\ where \in {"program", "tick", "handler"}
          /\ halted = "no"
      BY <1>2, <1>4, <2>2 DEF Handling, Running
    <3>2. slot' = "kept"
      BY <1>6, <1>11, <2>2, <3>1
    <3> QED BY <1>2, <2>2, <3>1, <3>2 DEF Handling
  <2> QED BY <2>1, <2>2
<1>22. (timer_first_inactive \in Used /\ timer_last_inactive \in Used)'
  BY <1>11 DEF Used
<1> HIDE DEF m
<1>23. /\ timerwheel_idx' \in Positions /\ owned' \subseteq Dbufs
       /\ timerwheel_idx' = timerwheel_idx /\ owned' = owned
  BY <1>2, <1>4
<1> QED BY <1>19, <1>20, <1>21, <1>22, <1>23 DEF IInv, m

LEMMA InvFacts ==
  ASSUME IInv
  PROVE  /\ timers \in [Slots -> Timer] /\ Used = 1 .. timer_list_length - 1
         /\ timer_list_length \in Nat /\ Used \subseteq Slots /\ 0 \notin Used
         /\ TIMER_DBUF_SIZE <= timer_list_length
         /\ timer_first_inactive \in Used /\ timer_last_inactive \in Used
         /\ timerwheel_idx \in Positions /\ owned \subseteq Dbufs
         /\ Cleared(timers, timer_list_length)
         /\ Chained(timers, timer_list_length, timer_first_inactive, timer_last_inactive)
         /\ Wheeled(timers, timer_list_length, timerwheel)
         /\ Scheduled(timers, timer_list_length, timerwheel_idx, wait)
         /\ Counted(timers, timer_list_length, lock, owned)
         /\ Handling
         /\ \A s \in Used : Belongs(s) <=> timers[s].wheel_li = "queued"
<1>1. Cleared(timers, timer_list_length) /\ Wheeled(timers, timer_list_length, timerwheel)
      /\ timers \in [Slots -> Timer]
  BY DEF IInv
<1>2. /\ timer_list_length \in Nat /\ Used \subseteq Slots /\ 0 \notin Used
      /\ TIMER_DBUF_SIZE <= timer_list_length
  BY <1>1, LengthFacts DEF Used
<1>3. ASSUME NEW s \in Used PROVE Belongs(s) <=> timers[s].wheel_li = "queued"
  <2>1. timers[s].wheel_idx \in Positions
    BY <1>1, <1>2 DEF Timer
  <2>2. Contains(timerwheel[timers[s].wheel_idx], s) <=> timers[s].wheel_li = "queued"
    BY <1>1, <2>1 DEF Wheeled, Used
  <2> QED BY <2>2 DEF Belongs
<1> QED BY <1>1, <1>2, <1>3 DEF IInv, Used

(* A timer that is in no list any more is deactivated: w and wt are what   *)
(* is left of the wheel.                                                   *)
LEMMA EndKeeps ==
  ASSUME IInv, NEW s \in Used, timers[s].state \in Kinds, Deactivate(s),
         UNCHANGED <<timer_list_length, timer_first_inactive, timerwheel_idx, owned>>,
         \/ timers[s].wheel_li # "queued" /\ UNCHANGED <<timerwheel, wait>>
         \/ /\ timers[s].wheel_li = "queued"
            /\ timerwheel' = [timerwheel EXCEPT ![timers[s].wheel_idx] = Without(@, s)]
            /\ wait' = [wait EXCEPT ![s] = 0],
         Handling'
  PROVE  IInv'
<1> DEFINE l == timer_list_length
<1>1. /\ timer_list_length' = l /\ timer_first_inactive' = timer_first_inactive
      /\ timerwheel_idx' = timerwheel_idx /\ owned' = owned
  OBVIOUS
<1>2. /\ timers \in [Slots -> Timer] /\ Used = 1 .. l - 1 /\ l \in Nat /\ Used \subseteq Slots
      /\ timerwheel_idx \in Positions /\ owned \subseteq Dbufs
      /\ Wheeled(timers, l, timerwheel) /\ Scheduled(timers, l, timerwheel_idx, wait)
  BY InvFacts
<1>3. /\ (timers \in [Slots -> Timer])'
      /\ (timer_first_inactive \in Used /\ timer_last_inactive \in Used)'
      /\ Cleared(timers', l) /\ Chained(timers', l, timer_first_inactive', timer_last_inactive')
      /\ Counted(timers', l, lock', owned')
      /\ timers'[s].wheel_li = "null"
      /\ \A x \in Used \ {s} :
           /\ timers'[x].state = timers[x].state
           /\ timers'[x].wheel_li = timers[x].wheel_li
           /\ timers'[x].wheel_idx = timers[x].wheel_idx
  BY <1>1, DeactivateKeeps
<1>4. Wheeled(timers', l, timerwheel') /\ Scheduled(timers', l, timerwheel_idx, wait')
  <2>1. CASE timers[s].wheel_li # "queued" /\ UNCHANGED <<timerwheel, wait>>
    <3>1. \A x \in 1 .. l - 1 :
            timers'[x].wheel_li = "queued" =>
              /\ x \in 1 .. l - 1 /\ timers[x].wheel_li = "queued"
              /\ timers'[x].wheel_idx = timers[x].wheel_idx /\ timers'[x].state \in Kinds
      BY <1>2, <1>3 DEF Wheeled
    <3>2. \A x \in 1 .. l - 1 :
            timers[x].wheel_li = "queued" =>
              timers'[x].wheel_li = "queued" /\ timers'[x].wheel_idx = timers[x].wheel_idx
      BY <1>2, <1>3, <2>1
    <3>3. Wheeled(timers', l, timerwheel)
      <4>1. l <= l
        BY <1>2
      <4> HIDE DEF l
      <4> QED BY <1>2, <3>1, <3>2, <4>1, WheelSame
    <3>4. Scheduled(timers', l, timerwheel_idx, wait)
      BY <1>2, <3>1 DEF Scheduled
    <3> QED BY <2>1, <3>3, <3>4
  <2>2. CASE /\ timers[s].wheel_li = "queued"
             /\ timerwheel' = [timerwheel EXCEPT ![timers[s].wheel_idx] = Without(@, s)]
             /\ wait' = [wait EXCEPT ![s] = 0]
    <3>1. PICK i : i = timers[s].wheel_idx
      OBVIOUS
    <3>2. s \in 1 .. l - 1 /\ timers[s] \in Timer
      BY <1>2
    <3>3. i \in Positions
      BY <3>1, <3>2 DEF Timer
    <3>4. /\ timerwheel[i] \in Seq(1 .. l - 1) /\ IsInjective(timerwheel[i])
          /\ Contains(timerwheel[i], s)
      <4> HIDE DEF l
      <4> QED BY <1>2, <2>2, <3>1, <3>2, <3>3, WheelFacts
    <3> DEFINE r == Without(timerwheel[i], s)
    <3>5. /\ r \in Seq(1 .. l - 1) /\ IsInjective(r)
          /\ \A g : Contains(r, g) <=> Contains(timerwheel[i], g) /\ g # s
      BY <3>4, WithoutFacts
    <3>6. timerwheel' = [timerwheel EXCEPT ![i] = r]
      BY <2>2, <3>1
    <3> HIDE DEF r
    <3>7. Wheeled(timers', l, [timerwheel EXCEPT ![i] = r])
      <4>1. SlotLeaves(timers, timers', l, s, i)
        BY <1>2, <1>3, <2>2, <3>1, <3>2 DEF SlotLeaves
      <4> HIDE DEF l
      <4> QED BY <1>2, <3>3, <3>5, <4>1, WheelLoses
    <3>8. Scheduled(timers', l, timerwheel_idx, wait')
      <4>1. wait' \in [Slots -> Positions] /\ \A x \in Slots \ {s} : wait'[x] = wait[x]
        BY <1>2, <2>2, Sizes DEF Scheduled
      <4>2. \A x \in 1 .. l - 1 :
              timers'[x].wheel_li = "queued" =>
                timers'[x].wheel_idx = After(timerwheel_idx, wait'[x])
        BY <1>2, <1>3, <4>1 DEF Scheduled
      <4> QED BY <4>1, <4>2 DEF Scheduled
    <3> QED BY <3>6, <3>7, <3>8
  <2> QED BY <2>1, <2>2
<1>5. timerwheel_idx' \in Positions /\ owned' \subseteq Dbufs
  BY <1>1, <1>2
<1> QED BY <1>1, <1>3, <1>4, <1>5 DEF IInv

LEMMA StopTimerKeeps == ASSUME IInv, NEW s \in Slots, StopTimer(s) PROVE IInv'
<1>1. /\ Running /\ s \in Used /\ timers[s].state \in Kinds
      /\ UNCHANGED <<timer_list_length, timer_first_inactive, timerwheel_idx, tick, owned>>
  BY DEF StopTimer
<1>2. UNCHANGED <<where, firing, slot>>
  BY <1>1 DEF tick
<1>3. /\ Belongs(s) <=> timers[s].wheel_li = "queued"
      /\ Handling /\ Cleared(timers, timer_list_length) /\ timers \in [Slots -> Timer]
  BY <1>1, InvFacts
<1>4. ASSUME Deactivate(s), UNCHANGED halted PROVE Handling'
  <2>1. /\ timers'[s].wheel_li = "null"
        /\ \A x \in Used \ {s} : timers'[x].wheel_li = timers[x].wheel_li
    BY <1>1, <1>4, DeactivateKeeps
  <2>2. Used' = Used
    BY <1>1 DEF Used
  <2> QED BY <1>1, <1>2, <1>3, <1>4, <2>1, <2>2 DEF Handling
<1>5. CASE /\ timers[s].wheel_li \in {"null", "garbage"}
           /\ Deactivate(s)
           /\ UNCHANGED <<timerwheel, wait, halted>>
  BY <1>1, <1>4, <1>5, EndKeeps
<1>6. CASE /\ Belongs(s)
           /\ timerwheel' = [timerwheel EXCEPT ![timers[s].wheel_idx] = Without(@, s)]
           /\ Deactivate(s)
           /\ wait' = [wait EXCEPT ![s] = 0]
           /\ UNCHANGED halted
  BY <1>1, <1>3, <1>4, <1>6, EndKeeps
<1>7. CASE /\ timers[s].wheel_li # "null"
           /\ ~Belongs(s)
           /\ halted' = IF timers[s].wheel_li = "garbage" THEN "uninitialized" ELSE "deleted twice"
           /\ UNCHANGED <<timers, timer_last_inactive, timerwheel, wait, lock>>
  <2>1. timers[s].wheel_li = "garbage"
    <3>1. s \in Slots /\ timers[s] \in Timer
      BY <1>3
    <3> QED BY <1>3, <1>7, <3>1 DEF Timer
  <2>2. timer_list_length > TIMER_DBUF_SIZE
    BY <1>1, <1>3, <2>1 DEF Cleared, Used
  <2>3. Handling'
    BY <1>1, <1>2, <1>3, <1>7, <2>1, <2>2 DEF Handling, Used
  <2> QED BY <1>1, <1>7, <2>3 DEF IInv, Used
<1> QED BY <1>5, <1>6, <1>7 DEF StopTimer

LEMMA OwnerUnlocksKeeps == ASSUME IInv, NEW d \in Dbufs, OwnerUnlocks(d) PROVE IInv'
<1>1. /\ d \in owned /\ owned' = owned \ {d} /\ lock' = Unlocked(d)
      /\ UNCHANGED <<slots, wheel, tick, halted, wait>>
  BY DEF OwnerUnlocks
<1>2. /\ UNCHANGED <<timers, timer_list_length, timer_first_inactive, timer_last_inactive>>
      /\ UNCHANGED <<timerwheel, timerwheel_idx, where, firing, slot, halted, wait>>
  BY <1>1 DEF slots, wheel, tick
<1> DEFINE l == timer_list_length
<1>3. Counted(timers, l, lock, owned) /\ l \in Nat /\ owned \subseteq Dbufs
  BY InvFacts
<1>4. Counted(timers, l, lock', owned')
  <2>1. ASSUME NEW b \in Dbufs
        PROVE  /\ lock'[b] \in Nat
               /\ lock'[b] = Cardinality(UsersOf(timers, l, b)) + (IF b \in owned' THEN 1 ELSE 0)
    <3>1. /\ lock[b] = Cardinality(UsersOf(timers, l, b)) + (IF b \in owned THEN 1 ELSE 0)
          /\ lock[b] \in Nat
      BY <1>3 DEF Counted
    <3>2. Cardinality(UsersOf(timers, l, b)) \in Nat
      BY <1>3, UsersFinite
    <3>3. lock'[b] = IF b = d THEN lock[b] - 1 ELSE lock[b]
      BY <1>1 DEF Unlocked
    <3> HIDE DEF l
    <3>4. CASE b = d
      BY <1>1, <3>1, <3>2, <3>3, <3>4
    <3>5. CASE b # d
      BY <1>1, <3>1, <3>2, <3>3, <3>5
    <3> QED BY <3>4, <3>5
  <2>2. lock' \in [Dbufs -> Nat]
    BY <1>1, <2>1 DEF Unlocked
  <2> QED BY <1>3, <2>1, <2>2 DEF Counted
<1>5. Handling'
  BY <1>2 DEF Handling, IInv, Used
<1> QED BY <1>1, <1>2, <1>3, <1>4, <1>5 DEF IInv, Used

LEMMA CheckTimersKeeps == ASSUME IInv, CheckTimers PROVE IInv'
<1>1. /\ where = "program" /\ where' = "tick" /\ halted = "no"
      /\ UNCHANGED <<timers, timer_list_length, timer_first_inactive, timer_last_inactive>>
      /\ UNCHANGED <<timerwheel, timerwheel_idx, firing, slot, halted, lock, owned, wait>>
  BY DEF CheckTimers, slots, wheel, bufs
<1>2. Handling'
  BY <1>1 DEF Handling, IInv
<1> QED BY <1>1, <1>2 DEF IInv, Used

LEMMA StutterKeeps == ASSUME IInv, UNCHANGED vars PROVE IInv'
<1>1. /\ UNCHANGED <<timers, timer_list_length, timer_first_inactive, timer_last_inactive>>
      /\ UNCHANGED <<timerwheel, timerwheel_idx, where, firing, slot>>
      /\ UNCHANGED <<halted, lock, owned, wait>>
  BY DEF vars, slots, wheel, tick, bufs
<1> QED BY <1>1 DEF IInv, Handling, Used

(* What lpop and the lines after it write.                                 *)
Unlisted(t, s) == [t EXCEPT ![s].wheel_li = "null", ![s].wheel_idx = 0]

LEMMA FireWrites ==
  ASSUME NEW t \in [Slots -> Timer], NEW s \in Slots, NEW u, u = Unlisted(t, s)
  PROVE  /\ u \in [Slots -> Timer] /\ u[s].wheel_li = "null"
         /\ \A x \in Slots :
              /\ u[x].state = t[x].state /\ u[x].param_dbuf = t[x].param_dbuf
              /\ u[x].next_inactive_index = t[x].next_inactive_index
         /\ \A x \in Slots \ {s} : u[x] = t[x]
<1> DEFINE r == [t[s] EXCEPT !.wheel_li = "null", !.wheel_idx = 0]
<1>1. /\ r \in Timer /\ r.wheel_li = "null" /\ r.state = t[s].state
      /\ r.param_dbuf = t[s].param_dbuf /\ r.next_inactive_index = t[s].next_inactive_index
  <2>1. t[s] \in Timer
    OBVIOUS
  <2> QED BY <2>1, Sizes DEF Timer
<1>2. u = [x \in Slots |-> IF x = s THEN r ELSE t[x]]
  BY DEF Unlisted
<1> HIDE DEF r
<1>3. u[s] = r /\ \A x \in Slots \ {s} : u[x] = t[x]
  BY <1>2
<1>4. u \in [Slots -> Timer]
  BY <1>1, <1>2
<1> QED BY <1>1, <1>3, <1>4

LEMMA FireKeeps == ASSUME IInv, Fire PROVE IInv'
<1> DEFINE l == timer_list_length
           i == timerwheel_idx
           q == timerwheel[i]
           s == Head(q)
<1>1. /\ timers \in [Slots -> Timer] /\ Used = 1 .. l - 1 /\ l \in Nat /\ Used \subseteq Slots
      /\ timer_first_inactive \in Used /\ timer_last_inactive \in Used
      /\ i \in Positions /\ owned \subseteq Dbufs /\ Cleared(timers, l)
      /\ Chained(timers, l, timer_first_inactive, timer_last_inactive)
      /\ Wheeled(timers, l, timerwheel) /\ Scheduled(timers, l, i, wait)
      /\ Counted(timers, l, lock, owned)
  BY InvFacts
<1>2. /\ halted = "no" /\ q # <<>> /\ firing' = s /\ where' = "handler" /\ slot' = "kept"
      /\ timerwheel' = [timerwheel EXCEPT ![i] = Tail(q)]
      /\ timers' = Unlisted(timers, s)
      /\ halted' = IF timers[s].state \in Kinds THEN "no" ELSE "fired inactive"
      /\ UNCHANGED <<timer_list_length, timer_first_inactive, timer_last_inactive>>
      /\ UNCHANGED <<timerwheel_idx, lock, owned, wait>>
  BY DEF Fire, bufs, Popped, Unlisted
<1>3. /\ q \in Seq(1 .. l - 1) /\ IsInjective(q)
      /\ \A x : Contains(q, x) <=>
           x \in 1 .. l - 1 /\ timers[x].wheel_li = "queued" /\ timers[x].wheel_idx = i
      /\ \A x \in 1 .. l - 1 : timers[x].wheel_li = "queued" => timers[x].state \in Kinds
  <2> HIDE DEF l, i
  <2> QED BY <1>1, WheelFacts DEF i
<1>4. /\ Contains(q, s) /\ Tail(q) \in Seq(1 .. l - 1) /\ IsInjective(Tail(q))
      /\ \A g : Contains(Tail(q), g) <=> Contains(q, g) /\ g # s
  <2> HIDE DEF l, q
  <2> QED BY <1>2, <1>3, PoppedFacts
<1>5. s \in 1 .. l - 1 /\ timers[s].wheel_li = "queued" /\ timers[s].wheel_idx = i
      /\ timers[s].state \in Kinds /\ s \in Slots
  BY <1>1, <1>3, <1>4
<1> HIDE DEF s, q
<1>6. /\ timers' \in [Slots -> Timer] /\ timers'[s].wheel_li = "null"
      /\ \A x \in Slots :
           /\ timers'[x].state = timers[x].state
           /\ timers'[x].param_dbuf = timers[x].param_dbuf
           /\ timers'[x].next_inactive_index = timers[x].next_inactive_index
      /\ \A x \in Slots \ {s} : timers'[x] = timers[x]
  BY <1>1, <1>2, <1>5, FireWrites
<1>7. Wheeled(timers', l, timerwheel')
  <2>1. SlotLeaves(timers, timers', l, s, i)
    BY <1>1, <1>5, <1>6 DEF SlotLeaves
  <2>2. \A g : Contains(Tail(q), g) <=> Contains(timerwheel[i], g) /\ g # s
    BY <1>4 DEF q
  <2>3. PICK r : r = Tail(q)
    OBVIOUS
  <2>4. r \in Seq(1 .. l - 1) /\ IsInjective(r)
        /\ \A g : Contains(r, g) <=> Contains(timerwheel[i], g) /\ g # s
    BY <1>4, <2>2, <2>3
  <2> HIDE DEF l, i
  <2>5. Wheeled(timers', l, [timerwheel EXCEPT ![i] = r])
    BY <1>1, <2>1, <2>4, WheelLoses
  <2> QED BY <1>2, <2>3, <2>5
<1>8. /\ Chained(timers', l, timer_first_inactive, timer_last_inactive)
      /\ Counted(timers', l, lock, owned)
  <2>1. \A x \in 1 .. l - 1 :
          /\ timers'[x].state = timers[x].state
          /\ timers'[x].param_dbuf = timers[x].param_dbuf
          /\ timers'[x].next_inactive_index = timers[x].next_inactive_index
    BY <1>1, <1>6
  <2> HIDE DEF l
  <2> QED BY <1>1, <2>1, SlotsSame
<1>9. Scheduled(timers', l, i, wait) /\ Cleared(timers', l)
  <2>1. \A x \in 1 .. l - 1 : timers'[x].wheel_li \in {"queued", "garbage"} => timers'[x] = timers[x]
    BY <1>1, <1>6
  <2> QED BY <1>1, <2>1 DEF Scheduled, Cleared
<1>10. Handling'
  BY <1>1, <1>2, <1>5, <1>6 DEF Handling, Used
<1> QED BY <1>1, <1>2, <1>6, <1>7, <1>8, <1>9, <1>10 DEF IInv, Used

LEMMA HandlerReturnsKeeps == ASSUME IInv, HandlerReturns PROVE IInv'
<1> DEFINE l == timer_list_length
<1>1. /\ timers \in [Slots -> Timer] /\ Used = 1 .. l - 1 /\ l \in Nat /\ Used \subseteq Slots
      /\ timer_first_inactive \in Used /\ timer_last_inactive \in Used
      /\ timerwheel_idx \in Positions /\ owned \subseteq Dbufs /\ Cleared(timers, l)
      /\ Chained(timers, l, timer_first_inactive, timer_last_inactive)
      /\ Wheeled(timers, l, timerwheel) /\ Scheduled(timers, l, timerwheel_idx, wait)
      /\ Counted(timers, l, lock, owned) /\ Handling
      /\ \A s \in Used : Belongs(s) <=> timers[s].wheel_li = "queued"
  BY InvFacts
<1>2. /\ halted = "no" /\ where = "handler" /\ where' = "tick" /\ firing' = 0 /\ slot' = "kept"
      /\ UNCHANGED <<timer_list_length, timer_first_inactive, timerwheel_idx, owned>>
  BY DEF HandlerReturns
<1>3. /\ firing \in Used /\ slot \in {"kept", "moved", "taken"}
      /\ slot = "kept" => timers[firing].wheel_li = "null"
      /\ slot = "moved" => l > TIMER_DBUF_SIZE
  BY <1>1, <1>2 DEF Handling
<1>4. Used' = Used /\ timer_list_length' = l
  BY <1>2 DEF Used
<1>5. ASSUME \/ halted' \in {"no", "taken over"}
             \/ halted' = "dangling" /\ l > TIMER_DBUF_SIZE
      PROVE  Handling'
  BY <1>2, <1>4, <1>5 DEF Handling
<1>6. ASSUME UNCHANGED <<timers, timer_last_inactive, timerwheel, wait, lock>>, Handling'
      PROVE  IInv'
  BY <1>1, <1>2, <1>4, <1>6 DEF IInv
<1>7. CASE /\ slot = "moved"
           /\ halted' = "dangling"
           /\ UNCHANGED <<timers, timer_last_inactive, timerwheel, wait, lock>>
  BY <1>3, <1>5, <1>6, <1>7
<1>8. CASE /\ slot = "taken" /\ Belongs(firing)
           /\ halted' = "taken over"
           /\ UNCHANGED <<timers, timer_last_inactive, timerwheel, wait, lock>>
  BY <1>5, <1>6, <1>8
<1>9. CASE slot # "moved" /\ (slot = "taken" => ~Belongs(firing))
  <2>1. timers[firing].wheel_li # "queued" /\ ~Belongs(firing)
    BY <1>1, <1>3, <1>9
  <2>2. CASE /\ timers[firing].state = "TIMER_ONETIME"
             /\ Deactivate(firing)
             /\ halted' = IF Belongs(firing) THEN "still queued" ELSE "no"
             /\ UNCHANGED <<timerwheel, wait>>
    <3>1. Handling'
      BY <1>5, <2>1, <2>2
    <3>2. timers[firing].state \in Kinds
      BY <2>2 DEF Kinds
    <3> QED BY <1>2, <1>3, <2>1, <2>2, <3>1, <3>2, EndKeeps
  <2>3. CASE /\ timers[firing].state = "TIMER_PERIODIC"
             /\ Enqueue(timers, firing, Ticks(timers[firing].period))
             /\ UNCHANGED <<timer_last_inactive, lock, halted>>
    <3>1. firing \in 1 .. l - 1 /\ Ticks(timers[firing].period) \in Nat
          /\ timers[firing].state \in Kinds
      <4>1. timers[firing] \in Timer
        BY <1>1, <1>3
      <4>2. timers[firing].period \in Intervals \union {0}
        BY <4>1 DEF Timer
      <4>3. timers[firing].period \in Nat
        BY <4>2, IntervalsAssumption
      <4>4. Ticks(timers[firing].period) \in Nat
        BY <4>3, WholeTicks
      <4> QED BY <1>1, <1>3, <2>3, <4>4 DEF Kinds
    <3>2. /\ timers' \in [Slots -> Timer] /\ Cleared(timers', l)
          /\ Wheeled(timers', l, timerwheel')
          /\ Scheduled(timers', l, timerwheel_idx, wait')
          /\ \A x \in 1 .. l - 1 :
               /\ timers'[x].state = timers[x].state
               /\ timers'[x].param_dbuf = timers[x].param_dbuf
               /\ timers'[x].next_inactive_index = timers[x].next_inactive_index
      <4> HIDE DEF l
      <4> QED BY <1>1, <2>1, <2>3, <3>1, EnqueueKeeps
    <3>3. /\ Chained(timers', l, timer_first_inactive, timer_last_inactive)
          /\ Counted(timers', l, lock, owned)
      <4> HIDE DEF l
      <4> QED BY <1>1, <3>2, SlotsSame
    <3>4. Handling'
      BY <1>2, <1>5, <2>3
    <3> QED BY <1>1, <1>2, <1>4, <2>3, <3>2, <3>3, <3>4 DEF IInv
  <2>4. CASE /\ timers[firing].state = "TIMER_INACTIVE"
             /\ UNCHANGED <<timers, timer_last_inactive, timerwheel, wait, lock, halted>>
    BY <1>2, <1>5, <1>6, <2>4
  <2> QED BY <1>9, <2>2, <2>3, <2>4 DEF HandlerReturns
<1> QED BY <1>7, <1>8, <1>9 DEF HandlerReturns

(* The wheel turns from its last position to its first.                    *)
LEMMA Turns ==
  ASSUME timerwheel_idx \in Positions
  PROVE  /\ Turn \in Positions
         /\ Turn = IF timerwheel_idx + 1 < TIMER_WHEEL_SIZE THEN timerwheel_idx + 1 ELSE 0
<1> DEFINE N == TIMER_WHEEL_SIZE
           i == timerwheel_idx
<1>1. N \in Nat \ {0} /\ i \in 0 .. N - 1
  BY Sizes DEF Positions
<1>2. Turn = (i + 1) % N
  BY DEF Turn
<1> HIDE DEF i, N
<1>3. CASE i + 1 < N
  <2>1. i + 1 \in 0 .. N - 1
    BY <1>1, <1>3
  <2> QED BY <1>1, <1>2, <1>3, <2>1 DEF Positions, N, i
<1>4. CASE ~(i + 1 < N)
  <2>1. i + 1 = N /\ 0 \in 0 .. N - 1
    BY <1>1, <1>4
  <2>2. N % N = 0
    BY <1>1
  <2> QED BY <1>2, <1>4, <2>1, <2>2 DEF Positions, N, i
<1> QED BY <1>3, <1>4

LEMMA TickEndsKeeps == ASSUME IInv, TickEnds PROVE IInv'
<1> DEFINE l == timer_list_length
           i == timerwheel_idx
<1>1. /\ timers \in [Slots -> Timer] /\ Used = 1 .. l - 1 /\ l \in Nat /\ Used \subseteq Slots
      /\ i \in Positions /\ Wheeled(timers, l, timerwheel) /\ Scheduled(timers, l, i, wait)
  BY InvFacts
<1>2. /\ halted = "no" /\ where = "tick" /\ timerwheel[i] = <<>> /\ timerwheel_idx' = Turn
      /\ wait' = [s \in Slots |-> IF wait[s] > 0 THEN wait[s] - 1 ELSE 0]
      /\ where' = "program"
      /\ UNCHANGED <<timers, timer_list_length, timer_first_inactive, timer_last_inactive>>
      /\ UNCHANGED <<timerwheel, firing, slot, halted, lock, owned>>
  BY DEF TickEnds, slots, bufs
<1>3. /\ Turn \in Positions
      /\ Turn = IF i + 1 < TIMER_WHEEL_SIZE THEN i + 1 ELSE 0
  BY <1>1, Turns
<1>4. TIMER_WHEEL_SIZE \in Nat \ {0} /\ i \in 0 .. TIMER_WHEEL_SIZE - 1
      /\ Positions = 0 .. TIMER_WHEEL_SIZE - 1
  BY <1>1, Sizes DEF Positions
<1>5. wait \in [Slots -> Positions] /\ wait' \in [Slots -> Positions]
  BY <1>1, <1>2, <1>4 DEF Scheduled
<1>6. ASSUME NEW s \in 1 .. l - 1, timers[s].wheel_li = "queued"
      PROVE  timers[s].wheel_idx = After(Turn, wait'[s])
  <2>1. timers[s].wheel_idx = After(i, wait[s]) /\ s \in Slots /\ wait[s] \in Positions
    BY <1>1, <1>5, <1>6 DEF Scheduled
  <2>2. timers[s].wheel_idx # i
    <3>1. ~Contains(<<>>, s)
      BY EmptySeq DEF Contains
    <3>2. Contains(timerwheel[i], s) <=>
            timers[s].wheel_li = "queued" /\ timers[s].wheel_idx = i
      BY <1>1 DEF Wheeled
    <3> QED BY <1>2, <1>6, <3>1, <3>2
  <2>3. PICK w : w = wait[s]
    OBVIOUS
  <2>4. w \in 0 .. TIMER_WHEEL_SIZE - 1 /\ After(i, w) # i
    BY <1>4, <2>1, <2>2, <2>3
  <2>5. w > 0
    BY <1>4, <2>4 DEF After
  <2>6. wait'[s] = w - 1
    BY <1>2, <2>1, <2>3, <2>5
  <2>7. After(i, w) = After(Turn, w - 1)
    <3> HIDE DEF i
    <3> QED BY <1>3, <1>4, <2>4, <2>5 DEF After
  <2> QED BY <2>1, <2>3, <2>6, <2>7
<1>7. Scheduled(timers, l, Turn, wait')
  BY <1>5, <1>6 DEF Scheduled
<1>8. Handling'
  BY <1>2 DEF Handling, IInv
<1> QED BY <1>2, <1>3, <1>7, <1>8 DEF IInv, Used

LEMMA Inductive == IInv /\ [Next]_vars => IInv'
<1> SUFFICES ASSUME IInv, [Next]_vars PROVE IInv'
  OBVIOUS
<1>1. CASE \E n \in Intervals, kind \in Kinds, d \in Dbufs \union {NULL} :
             StartTimer(n, kind, d)
  BY <1>1, StartTimerKeeps
<1>2. CASE \E s \in Slots : StopTimer(s)
  BY <1>2, StopTimerKeeps
<1>3. CASE \E d \in Dbufs : OwnerUnlocks(d)
  BY <1>3, OwnerUnlocksKeeps
<1>4. CASE CheckTimers
  BY <1>4, CheckTimersKeeps
<1>5. CASE Fire
  BY <1>5, FireKeeps
<1>6. CASE HandlerReturns
  BY <1>6, HandlerReturnsKeeps
<1>7. CASE TickEnds
  BY <1>7, TickEndsKeeps
<1>8. CASE Halted \/ UNCHANGED vars
  BY <1>8, StutterKeeps DEF Halted
<1> QED BY <1>1, <1>2, <1>3, <1>4, <1>5, <1>6, <1>7, <1>8 DEF Next

(* The inductive invariant: slots, chain, wheel, schedule and buffers of   *)
(* lib_timers.c, and what a handler may have changed for fire_timer.       *)
THEOREM Invariance == Spec => []IInv
<1>1. Init => IInv
  BY Initially
<1>2. IInv /\ [Next]_vars => IInv'
  BY Inductive
<1> QED BY <1>1, <1>2, PTL DEF Spec

-----------------------------------------------------------------------------
(* The properties. *)

LEMMA TypesHold == IInv => TypeOK
<1> SUFFICES ASSUME IInv PROVE TypeOK
  OBVIOUS
<1>1. /\ timers \in [Slots -> Timer] /\ Used = 1 .. timer_list_length - 1
      /\ timer_first_inactive \in Used /\ timer_last_inactive \in Used
      /\ timerwheel_idx \in Positions /\ owned \subseteq Dbufs /\ Handling
  BY InvFacts
<1>2. timers \in [Slots ->
        [state : Kinds \union {"TIMER_INACTIVE"}, period : Intervals \union {0},
         wheel_idx : 0 .. TIMER_WHEEL_SIZE - 1,
         wheel_li : {"null", "queued", "garbage"},
         param_dbuf : Dbufs \union {NULL}, next_inactive_index : Slots]]
  BY <1>1 DEF Timer, Positions
<1>3. timer_list_length \in TIMER_DBUF_SIZE .. MaxSlots
  BY DEF IInv, Cleared
<1>4. timerwheel \in [0 .. TIMER_WHEEL_SIZE - 1 -> Seq(Used)]
  BY <1>1 DEF IInv, Wheeled, Positions
<1>5. lock \in [Dbufs -> Nat]
  BY DEF IInv, Counted
<1>6. wait \in [Slots -> Nat]
  <2>1. wait \in [Slots -> Positions] /\ Positions \subseteq Nat
    BY Sizes DEF IInv, Scheduled, Positions
  <2> QED BY <2>1
<1>7. /\ where \in {"program", "tick", "handler"} /\ slot \in {"kept", "moved", "taken"}
      /\ firing \in IF where = "handler" THEN Used ELSE {0}
      /\ halted \in {"no", "uninitialized", "dangling", "deleted twice",
                     "fired inactive", "still queued", "taken over"}
  BY <1>1 DEF Handling
<1>8. timerwheel_idx \in 0 .. TIMER_WHEEL_SIZE - 1
  BY <1>1 DEF Positions
<1> QED BY <1>1, <1>2, <1>3, <1>4, <1>5, <1>6, <1>7, <1>8 DEF TypeOK

(* Every variable of lib_timers.c ranges over what is stored in it.        *)
THEOREM TypeCorrect == Spec => []TypeOK
<1>1. IInv => TypeOK
  BY TypesHold
<1> QED BY <1>1, Invariance, PTL

(* A chain is no longer than there are slots: it has none twice.           *)
LEMMA ChainBounded ==
  ASSUME NEW c, NEW t, NEW l, NEW first, NEW last, Cleared(t, l),
         Chains(c, t, InactiveOf(t, l), first, last)
  PROVE  Len(c) \in 1 .. MaxSlots
<1>1. /\ c \in Seq(Nat) /\ Len(c) \in Nat \ {0} /\ DOMAIN c = 1 .. Len(c)
      /\ \A n \in 1 .. Len(c) : c[n] \in InactiveOf(t, l)
  BY ChainFacts
<1>2. l \in Nat /\ l <= MaxSlots /\ MaxSlots \in Nat /\ l \in TIMER_DBUF_SIZE .. MaxSlots
  BY LengthFacts, Sizes DEF Cleared
<1>3. c \in Injection(1 .. Len(c), 1 .. l - 1)
  <2>1. c \in [1 .. Len(c) -> Nat]
    BY <1>1, LenProperties
  <2>2. c \in [1 .. Len(c) -> 1 .. l - 1]
    BY <1>1, <2>1 DEF InactiveOf
  <2>3. \A m, n \in 1 .. Len(c) : c[m] = c[n] => m = n
    BY <1>1 DEF Chains, IsInjective
  <2> QED BY <2>2, <2>3 DEF Injection, IsInjective
<1>4. IsFiniteSet(1 .. l - 1) /\ Cardinality(1 .. l - 1) <= l
  <2>1. /\ IsFiniteSet(1 .. l - 1)
        /\ Cardinality(1 .. l - 1) = IF 1 > l - 1 THEN 0 ELSE (l - 1) - 1 + 1
    BY <1>2, FS_Interval
  <2> QED BY <1>2, <2>1
<1>5. Cardinality(1 .. Len(c)) <= Cardinality(1 .. l - 1) /\ Cardinality(1 .. Len(c)) = Len(c)
  BY <1>1, <1>3, <1>4, FS_Injection, FS_Interval
<1>6. Cardinality(1 .. l - 1) \in Nat
  BY <1>4, FS_CardinalityType
<1> QED BY <1>1, <1>2, <1>4, <1>5, <1>6

(* No slot of the timer list is lost or used twice, however often it       *)
(* grows.                                                                  *)
THEOREM SlotsStayAccountedFor == Spec => []SlotsAccountedFor
<1>1. IInv => SlotsAccountedFor
  <2> SUFFICES ASSUME IInv PROVE SlotsAccountedFor
    OBVIOUS
  <2> DEFINE l == timer_list_length
  <2>1. /\ timers \in [Slots -> Timer] /\ Used = 1 .. l - 1 /\ Used \subseteq Slots
        /\ Chained(timers, l, timer_first_inactive, timer_last_inactive)
        /\ Wheeled(timers, l, timerwheel) /\ Cleared(timers, l)
    BY InvFacts
  <2>2. PICK c \in Seq(Nat) :
          Chains(c, timers, InactiveOf(timers, l), timer_first_inactive, timer_last_inactive)
    BY <2>1 DEF Chained
  <2>3. Inactive = InactiveOf(timers, l)
    BY <2>1 DEF Inactive, InactiveOf
  <2>4. \E n \in 1 .. MaxSlots : \E chain \in [1 .. n -> Inactive] : IsChain(chain)
    <3>1. Len(c) \in 1 .. MaxSlots
      BY <2>1, <2>2, ChainBounded
    <3>2. /\ DOMAIN c = 1 .. Len(c) /\ \A n \in 1 .. Len(c) : c[n] \in Inactive
      BY <2>2, <2>3, ChainFacts
    <3>3. c \in [1 .. Len(c) -> Inactive]
      <4>1. c \in [1 .. Len(c) -> Nat]
        BY LenProperties
      <4> QED BY <3>2, <4>1
    <3>4. ToSet(c) = Inactive
      <4>1. \A s : Contains(c, s) <=> s \in Inactive
        BY <2>2, <2>3 DEF Chains
      <4> QED BY <3>2, <4>1 DEF ToSet, Contains
    <3>5. IsChain(c)
      BY <2>2, <3>4 DEF Chains, IsChain, Last
    <3> QED BY <3>1, <3>3, <3>5
  <2>5. DOMAIN timerwheel = Positions
    BY <2>1 DEF Wheeled
  <2>6. ASSUME NEW s \in Used
        PROVE  /\ {i \in DOMAIN timerwheel : Contains(timerwheel[i], s)}
                  = IF timers[s].wheel_li = "queued" THEN {timers[s].wheel_idx} ELSE {}
               /\ timers[s].wheel_li = "queued" => timers[s].state \in Kinds
    <3>1. timers[s].wheel_idx \in Positions
      BY <2>1 DEF Timer
    <3>2. \A i \in Positions :
            Contains(timerwheel[i], s) <=>
              timers[s].wheel_li = "queued" /\ timers[s].wheel_idx = i
      BY <2>1 DEF Wheeled
    <3>3. timers[s].wheel_li = "queued" => timers[s].state \in Kinds
      BY <2>1 DEF Wheeled
    <3> QED BY <2>5, <3>1, <3>2, <3>3
  <2>7. \A i \in DOMAIN timerwheel : IsInjective(timerwheel[i])
    BY <2>1, <2>5 DEF Wheeled
  <2> QED BY <2>4, <2>6, <2>7, TypesHold DEF SlotsAccountedFor
<1> QED BY <1>1, Invariance, PTL

(* Every queued timer is where the wheel comes to after its ticks, for     *)
(* any wheel.                                                              *)
THEOREM TimersStayOnSchedule == Spec => []OnSchedule
<1>1. IInv => OnSchedule
  <2> SUFFICES ASSUME IInv, NEW s \in Used, timers[s].wheel_li = "queued"
               PROVE  timers[s].wheel_idx = (timerwheel_idx + wait[s]) % TIMER_WHEEL_SIZE
    BY DEF OnSchedule
  <2>1. /\ timerwheel_idx \in Positions /\ Used = 1 .. timer_list_length - 1
        /\ Scheduled(timers, timer_list_length, timerwheel_idx, wait) /\ Used \subseteq Slots
    BY InvFacts
  <2>2. wait[s] \in Positions /\ timers[s].wheel_idx = After(timerwheel_idx, wait[s])
    BY <2>1 DEF Scheduled
  <2> QED BY <2>1, <2>2, Modulo
<1> QED BY <1>1, Invariance, PTL

(* The assertions of lib_timers.c fail in no way but those three.          *)
THEOREM AssertionsStayTrue == Spec => []AssertionsHold
<1>1. IInv => AssertionsHold
  BY DEF IInv, Handling, AssertionsHold
<1> QED BY <1>1, Invariance, PTL

(* A buffer has as many locks as timers and owners that still hold it.     *)
THEOREM BuffersStayCounted == Spec => []BuffersCounted
<1>1. IInv => BuffersCounted
  <2> SUFFICES ASSUME IInv PROVE BuffersCounted
    OBVIOUS
  <2>1. Counted(timers, timer_list_length, lock, owned) /\ Used = 1 .. timer_list_length - 1
    BY InvFacts
  <2> QED BY <2>1 DEF Counted, UsersOf, BuffersCounted
<1> QED BY <1>1, Invariance, PTL
=============================================================================
