----------------------------- MODULE SmeeProofs -----------------------------
(***************************************************************************)
(* Proofs about Smee, for any frames, any configuration, any MaxBackoff    *)
(* and any number of unread frames.                                        *)
(***************************************************************************)
EXTENDS Smee, FiniteSetTheorems, SequenceTheorems, WellFoundedInduction, TLAPS

-----------------------------------------------------------------------------
(* Numbers.                                                                *)

\* A set of naturals that is not empty has a least element.
LEMMA Least ==
  ASSUME NEW T, T \subseteq Nat, T # {}
  PROVE  \E x \in T : \A y \in T : x <= y
<1>1. PICK x \in T : \A y \in T : ~ (<<y, x>> \in OpToRel(<, Nat))
  BY NatLessThanWellFounded, WFMin
<1>2. \A y \in T : ~ (y < x)
  BY <1>1 DEF OpToRel
<1>3. QED  BY <1>2

\* What holds of 0 and is passed on up to N holds up to N.
LEMMA UpTo ==
  ASSUME NEW N \in Nat, NEW S, 0 \in S, \A n \in 0..N : n < N /\ n \in S => n + 1 \in S
  PROVE  0..N \subseteq S
<1> SUFFICES ASSUME (0..N) \ S # {} PROVE FALSE
  OBVIOUS
<1> DEFINE T == (0..N) \ S
<1>1. PICK x \in T : \A y \in T : x <= y
  <2>1. T \subseteq Nat /\ T # {}
    OBVIOUS
  <2> HIDE DEF T
  <2>2. QED  BY <2>1, Least
<1>2. x # 0 /\ x - 1 \in 0..N
  BY <1>1
<1>3. x - 1 \in S
  BY <1>1, <1>2
<1>4. QED  BY <1>1, <1>2, <1>3

\* The recursive definition of the delays defines a function.
LEMMA DelaysDef ==
  /\ Delays[0] = 1
  /\ \A n \in 1..MaxBackoff : Delays[n] = 2 * Delays[n - 1]
<1> USE SmeeAssumption
<1> DEFINE Doubling(N, f) == f \in [0..N -> Nat] /\ f[0] = 1 /\ \A n \in 1..N : f[n] = 2 * f[n - 1]
           S == {N \in Nat : \E f : Doubling(N, f)}
<1>1. 0 \in S
  <2>1. Doubling(0, [i \in 0..0 |-> 1])
    OBVIOUS
  <2>2. QED  BY <2>1
<1>2. ASSUME NEW n \in Nat, n \in S PROVE n + 1 \in S
  <2>1. PICK f : Doubling(n, f)
    BY <1>2
  <2> DEFINE g == [i \in 0..(n + 1) |-> IF i <= n THEN f[i] ELSE 2 * f[n]]
  <2>2. Doubling(n + 1, g)
    BY <2>1
  <2>3. \E h : Doubling(n + 1, h)
    <3> HIDE DEF g, Doubling
    <3>1. QED  BY <2>2
  <2>4. n + 1 \in Nat
    OBVIOUS
  <2> HIDE DEF Doubling
  <2>5. QED  BY <2>3, <2>4
<1>3. MaxBackoff \in S
  <2> HIDE DEF S
  <2>1. 0..MaxBackoff \subseteq S
    BY <1>1, <1>2, UpTo
  <2>2. QED  BY <2>1
<1> DEFINE Rec(f) == f = [n \in 0..MaxBackoff |-> IF n = 0 THEN 1 ELSE 2 * f[n - 1]]
<1>4. \E f : Rec(f)
  <2>1. PICK f : Doubling(MaxBackoff, f)
    BY <1>3
  <2>2. Rec(f)
    BY <2>1
  <2>3. QED  BY <2>2
<1>5. Rec(CHOOSE f : Rec(f))
  <2> HIDE DEF Rec
  <2>1. QED  BY <1>4, Zenon
<1>6. Rec(Delays)
  BY <1>5 DEF Delays
<1>7. QED  BY <1>6

\* The delays are naturals and grow.
LEMMA DelaysGrow ==
  /\ \A n \in 0..MaxBackoff : Delays[n] \in Nat /\ Delays[n] >= n + 1
  /\ \A m, n \in 0..MaxBackoff : m <= n => Delays[m] <= Delays[n]
<1> USE SmeeAssumption
<1> DEFINE S == {n \in 0..MaxBackoff : Delays[n] \in Nat /\ Delays[n] >= n + 1}
<1>1. 0..MaxBackoff \subseteq S
  <2>1. 0 \in S
    BY DelaysDef
  <2>2. ASSUME NEW n \in 0..MaxBackoff, n < MaxBackoff, n \in S PROVE n + 1 \in S
    <3>1. Delays[n + 1] = 2 * Delays[n]
      BY <2>2, DelaysDef
    <3>2. QED  BY <2>2, <3>1
  <2> HIDE DEF S
  <2>3. QED  BY <2>1, <2>2, UpTo
<1>2. ASSUME NEW m \in 0..MaxBackoff
      PROVE  \A n \in 0..MaxBackoff : m <= n => Delays[m] <= Delays[n]
  <2> DEFINE T == {n \in 0..MaxBackoff : m <= n => Delays[m] <= Delays[n]}
  <2>1. 0 \in T
    BY <1>1
  <2>2. ASSUME NEW n \in 0..MaxBackoff, n < MaxBackoff, n \in T PROVE n + 1 \in T
    <3>1. Delays[n + 1] = 2 * Delays[n] /\ Delays[n] \in Nat /\ Delays[m] \in Nat
      BY <1>1, <2>2, DelaysDef
    <3>2. QED  BY <2>2, <3>1
  <2>3. 0..MaxBackoff \subseteq T
    <3> HIDE DEF T
    <3>1. QED  BY <2>1, <2>2, UpTo
  <2>4. QED  BY <2>3
<1>3. QED  BY <1>1, <1>2

\* The entries of a growing sequence that are below a limit are the first ones.
LEMMA Prefix ==
  ASSUME NEW s, NEW N \in Nat, NEW M \in Nat, \A i \in 1..N : s[i] \in Nat,
         \A i, k \in 1..N : i <= k => s[i] <= s[k]
  PROVE  \E m \in 0..N : \A i \in 1..N : s[i] < M <=> i <= m
<1> DEFINE T == {i \in 1..N : s[i] >= M}
<1>1. CASE T = {}
  <2>1. \A i \in 1..N : s[i] < M <=> i <= N
    BY <1>1
  <2>2. QED  BY <2>1
<1>2. CASE T # {}
  <2>1. PICK x \in T : \A y \in T : x <= y
    <3>1. T \subseteq Nat
      OBVIOUS
    <3> HIDE DEF T
    <3>2. QED  BY <1>2, <3>1, Least
  <2>2. x \in 1..N /\ s[x] >= M /\ \A i \in 1..N : i < x => s[i] < M
    BY <2>1
  <2>3. \A i \in 1..N : s[i] < M <=> i <= x - 1
    BY <2>2
  <2>4. x - 1 \in 0..N
    BY <2>2
  <2>5. QED  BY <2>3, <2>4
<1>3. QED  BY <1>1, <1>2

-----------------------------------------------------------------------------
(* The back-off.                                                           *)

\* What Run's delays and the ages of the recent attempts have to do with each
\* other.  Seen from the newest attempt, the k-th one is at least Delays[k - 1] - 1
\* seconds older, as after k - 1 delays that began with one second.  While an
\* attempt lasts, the delay that is to follow is at least as long as that of a
\* streak of all recent attempts, or is at its limit; after it (phase "top") the
\* next attempt may be made, since all the others are old enough for it.
ClockInv ==
  /\ phase \in {"top", "dialing", "reading", "dispatching", "sleeping", "stopped"}
  /\ backoff \in 1..MaxBackoff /\ wait \in 0..backoff /\ age \in 0..MaxBackoff
  /\ recent \in Seq(0..MaxBackoff) /\ Len(recent) <= MaxBackoff + 1
  /\ \A i, k \in 1..Len(recent) : i <= k => recent[i] <= recent[k]
  /\ Len(recent) > 0 => recent[1] = age
  /\ \A k \in 1..Len(recent) : recent[k] >= recent[1] + Delays[k - 1] - 1
  /\ phase \in {"dialing", "reading", "dispatching", "sleeping"} =>
       \A k \in 1..Len(recent) : backoff >= Delays[k - 1] \/ backoff = MaxBackoff
  /\ phase = "sleeping" => age + wait >= backoff
  /\ phase = "top" =>
       /\ Len(recent) <= MaxBackoff
       /\ \A k \in 1..Len(recent) : recent[k] >= Delays[k] - 1
       /\ \A k \in 0..Len(recent) : backoff >= Delays[k] \/ backoff = MaxBackoff

\* The assumption on the limit alone.
LEMMA Limit == MaxBackoff \in Nat /\ MaxBackoff >= 1
BY SmeeAssumption

\* The ages of the recent attempts.
LEMMA Ages ==
  ASSUME ClockInv
  PROVE  /\ Len(recent) \in Nat /\ DOMAIN recent = 1..Len(recent)
         /\ \A i \in 1..Len(recent) : recent[i] \in 0..MaxBackoff
BY ElementOfSeq, LenProperties DEF ClockInv

\* A streak of delays, the last of which has been waited for.
LEMMA Doubled ==
  ASSUME NEW d \in Int, NEW b \in Int, NEW c \in Int, NEW x \in Int, NEW y \in Int,
         b >= d, x >= b, y >= x + d - 1, c >= 2 * b \/ c = MaxBackoff
  PROVE  y >= 2 * d - 1 /\ (c >= 2 * d \/ c = MaxBackoff)
OBVIOUS

\* Run waits for the delay, and then doubles it.
LEMMA WakeKeeps == ClockInv /\ Wake => ClockInv'
<1> SUFFICES ASSUME ClockInv, Wake PROVE ClockInv'
  OBVIOUS
<1>1. /\ phase = "sleeping" /\ phase' = "top" /\ wait = 0
      /\ backoff' = Capped(2 * backoff) /\ UNCHANGED <<wait, age, recent>>
  BY DEF Wake
<1>2. /\ backoff \in 1..MaxBackoff /\ age \in 0..MaxBackoff /\ age >= backoff
      /\ recent \in Seq(0..MaxBackoff) /\ Len(recent) \in Nat /\ Len(recent) <= MaxBackoff + 1
  BY <1>1, Limit DEF ClockInv
<1>3. backoff' \in 1..MaxBackoff /\ (backoff' >= 2 * backoff \/ backoff' = MaxBackoff)
  BY <1>1, <1>2, Limit DEF Capped
<1>4. ASSUME NEW k \in 1..Len(recent)
      PROVE  /\ k - 1 \in 0..MaxBackoff /\ Delays[k - 1] \in Nat /\ Delays[k - 1] >= k
             /\ recent[k] \in 0..MaxBackoff /\ recent[k] >= age + Delays[k - 1] - 1
             /\ backoff >= Delays[k - 1]
  <2>1. k - 1 \in 0..MaxBackoff
    BY <1>2, Limit
  <2>2. Delays[k - 1] \in Nat /\ Delays[k - 1] >= (k - 1) + 1
    BY <2>1, DelaysGrow
  <2>3. recent[k] \in 0..MaxBackoff
    BY Ages
  <2>4. recent[k] >= recent[1] + Delays[k - 1] - 1 /\ recent[1] = age
    BY <1>2 DEF ClockInv
  <2>5. backoff >= Delays[k - 1] \/ backoff = MaxBackoff
    BY <1>1 DEF ClockInv
  <2>6. backoff >= Delays[k - 1]
    BY <1>2, <2>2, <2>3, <2>4, <2>5, Limit
  <2>7. QED  BY <2>1, <2>2, <2>3, <2>4, <2>6
<1>5. ASSUME NEW k \in 1..Len(recent)
      PROVE  k <= MaxBackoff /\ Delays[k] = 2 * Delays[k - 1]
  <2>1. k <= MaxBackoff
    BY <1>2, <1>4, Limit
  <2>2. QED  BY <1>2, <2>1, DelaysDef, Limit
<1>6. Len(recent) <= MaxBackoff
  BY <1>2, <1>5, Limit
<1>7. ASSUME NEW k \in 1..Len(recent)
      PROVE  recent[k] >= Delays[k] - 1 /\ (backoff' >= Delays[k] \/ backoff' = MaxBackoff)
  <2>1. /\ Delays[k - 1] \in Nat /\ Delays[k] = 2 * Delays[k - 1]
        /\ recent[k] \in 0..MaxBackoff /\ recent[k] >= age + Delays[k - 1] - 1
        /\ backoff >= Delays[k - 1]
    BY <1>4, <1>5
  <2>2. age \in Int /\ backoff \in Int /\ backoff' \in Int /\ recent[k] \in Int /\ age >= backoff
    <3>1. age \in Int /\ backoff \in Int /\ age >= backoff
      BY <1>2, Limit
    <3>2. backoff' \in Int
      BY <1>3, Limit
    <3>3. recent[k] \in Int
      BY <2>1, Limit
    <3>4. QED  BY <3>1, <3>2, <3>3
  <2>3. Delays[k - 1] \in Int
    BY <2>1
  <2>4. recent[k] >= 2 * Delays[k - 1] - 1 /\ (backoff' >= 2 * Delays[k - 1] \/ backoff' = MaxBackoff)
    BY <1>3, <2>1, <2>2, <2>3, Doubled
  <2>5. QED  BY <2>1, <2>4
<1>8. \A k \in 0..Len(recent) : backoff' >= Delays[k] \/ backoff' = MaxBackoff
  <2>1. backoff' >= Delays[0]
    BY <1>3, DelaysDef, Limit
  <2>2. QED  BY <1>2, <1>7, <2>1
<1>9. wait' \in 0..backoff'
  BY <1>1, <1>3, Limit
<1>10. QED  BY <1>1, <1>3, <1>6, <1>7, <1>8, <1>9 DEF ClockInv

\* An attempt is made.
LEMMA DialKeeps == ClockInv /\ Dial => ClockInv'
<1> SUFFICES ASSUME ClockInv, Dial PROVE ClockInv'
  OBVIOUS
<1>1. /\ phase = "top" /\ phase' = "dialing" /\ age' = 0
      /\ recent' = <<0>> \o recent /\ UNCHANGED <<backoff, wait>>
  BY DEF Dial
<1>2. /\ backoff \in 1..MaxBackoff /\ wait \in 0..backoff
      /\ recent \in Seq(0..MaxBackoff) /\ Len(recent) \in Nat /\ Len(recent) <= MaxBackoff
      /\ \A i \in 1..Len(recent) : recent[i] \in 0..MaxBackoff
  BY <1>1, Ages DEF ClockInv
<1>3. /\ recent' \in Seq(0..MaxBackoff) /\ Len(recent') = Len(recent) + 1
      /\ recent'[1] = 0 /\ \A i \in 2..Len(recent') : recent'[i] = recent[i - 1]
  BY <1>1, <1>2, Limit
<1>4. \A k \in 1..Len(recent') : recent'[k] >= recent'[1] + Delays[k - 1] - 1
  <2>1. ASSUME NEW k \in 2..Len(recent') PROVE recent'[k] >= Delays[k - 1] - 1
    <3>1. k - 1 \in 1..Len(recent)
      BY <1>2, <1>3
    <3>2. recent[k - 1] >= Delays[k - 1] - 1
      BY <1>1, <3>1 DEF ClockInv
    <3>3. QED  BY <1>3, <3>2
  <2>2. \A k \in 2..Len(recent') : Delays[k - 1] \in Nat
    <3>1. \A k \in 2..Len(recent') : k - 1 \in 0..MaxBackoff
      BY <1>2, <1>3, Limit
    <3>2. QED  BY <3>1, DelaysGrow
  <2>3. QED  BY <1>2, <1>3, <2>1, <2>2, DelaysDef
<1>5. \A k \in 1..Len(recent') : backoff >= Delays[k - 1] \/ backoff = MaxBackoff
  <2>1. \A k \in 1..Len(recent') : k - 1 \in 0..Len(recent)
    BY <1>2, <1>3
  <2>2. \A n \in 0..Len(recent) : backoff >= Delays[n] \/ backoff = MaxBackoff
    BY <1>1 DEF ClockInv
  <2>3. QED  BY <2>1, <2>2
<1>6. \A i, k \in 1..Len(recent') : i <= k => recent'[i] <= recent'[k]
  <2> SUFFICES ASSUME NEW i \in 1..Len(recent'), NEW k \in 1..Len(recent'), i <= k
               PROVE  recent'[i] <= recent'[k]
    OBVIOUS
  <2>1. CASE i = 1
    BY <1>2, <1>3, <2>1
  <2>2. CASE i # 1
    <3>1. i - 1 \in 1..Len(recent) /\ k - 1 \in 1..Len(recent) /\ i - 1 <= k - 1
      BY <1>2, <1>3, <2>2
    <3>2. recent[i - 1] <= recent[k - 1]
      BY <3>1 DEF ClockInv
    <3>3. recent'[i] = recent[i - 1] /\ recent'[k] = recent[k - 1]
      BY <1>2, <1>3, <2>2
    <3>4. QED  BY <3>2, <3>3
  <2>3. QED  BY <2>1, <2>2
<1>7. Len(recent') <= MaxBackoff + 1 /\ 0 \in 0..MaxBackoff
  BY <1>2, <1>3, Limit
<1>8. QED  BY <1>1, <1>2, <1>3, <1>4, <1>5, <1>6, <1>7 DEF ClockInv

\* An attempt ends; a connection of MaxBackoff seconds has outlived all attempts
\* but its own, so that the delay may be one second again.
LEMMA ReturnKeeps == ClockInv /\ ConnectReturns => ClockInv'
<1> SUFFICES ASSUME ClockInv, ConnectReturns PROVE ClockInv'
  OBVIOUS
<1>1. /\ phase \in {"dialing", "reading"} /\ phase' = "sleeping"
      /\ backoff' = Delay /\ wait' = Delay /\ UNCHANGED <<age, recent>>
  BY DEF ConnectReturns
<1>2. /\ backoff \in 1..MaxBackoff /\ age \in 0..MaxBackoff
      /\ recent \in Seq(0..MaxBackoff) /\ Len(recent) \in Nat
  BY DEF ClockInv
<1>3. Delay \in 1..MaxBackoff
  BY <1>2, Limit DEF Delay
<1>4. \A k \in 1..Len(recent) : Delay >= Delays[k - 1] \/ Delay = MaxBackoff
  <2>1. CASE age < MaxBackoff
    <3>1. Delay = backoff
      BY <1>2, <2>1, Limit DEF Delay
    <3>2. QED  BY <1>1, <3>1 DEF ClockInv
  <2>2. CASE age = MaxBackoff
    <3>1. Delay = 1
      BY <2>2, Limit DEF Delay
    <3>2. Len(recent) <= 1
      <4> SUFFICES ASSUME Len(recent) >= 2 PROVE FALSE
        BY <1>2
      <4>1. recent[2] >= recent[1] + Delays[2 - 1] - 1 /\ recent[1] = age
        BY <1>2 DEF ClockInv
      <4>2. Delays[1] = 2
        BY DelaysDef, Limit
      <4>3. recent[2] \in 0..MaxBackoff
        BY <1>2, Ages
      <4>4. QED  BY <2>2, <4>1, <4>2, <4>3, Limit
    <3>3. QED  BY <1>2, <3>1, <3>2, DelaysDef
  <2>3. QED  BY <1>2, <2>1, <2>2, Limit
<1>5. age + Delay >= Delay /\ Delay \in 0..Delay
  BY <1>2, <1>3, Limit
<1>6. QED  BY <1>1, <1>3, <1>4, <1>5 DEF ClockInv

\* Time passes.
LEMMA TickKeeps == ClockInv /\ Tick => ClockInv'
<1> SUFFICES ASSUME ClockInv, Tick PROVE ClockInv'
  OBVIOUS
<1>1. /\ age' = IF age < MaxBackoff THEN age + 1 ELSE age
      /\ wait' = IF wait > 0 THEN wait - 1 ELSE 0
      /\ recent' = [i \in {i \in DOMAIN recent : recent[i] < MaxBackoff} |-> recent[i] + 1]
      /\ UNCHANGED <<phase, backoff>>
  BY DEF Tick
<1>2. /\ backoff \in 1..MaxBackoff /\ wait \in 0..backoff /\ age \in 0..MaxBackoff
      /\ recent \in Seq(0..MaxBackoff) /\ Len(recent) \in Nat
      /\ DOMAIN recent = 1..Len(recent)
      /\ \A i \in 1..Len(recent) : recent[i] \in 0..MaxBackoff
  BY Ages DEF ClockInv
<1>3. PICK m \in 0..Len(recent) : {i \in 1..Len(recent) : recent[i] < MaxBackoff} = 1..m
  <2>1. \A i, k \in 1..Len(recent) : i <= k => recent[i] <= recent[k]
    BY DEF ClockInv
  <2>2. \A i \in 1..Len(recent) : recent[i] \in Nat
    BY <1>2
  <2>3. PICK m \in 0..Len(recent) : \A i \in 1..Len(recent) : recent[i] < MaxBackoff <=> i <= m
    BY <1>2, <2>1, <2>2, Prefix, Limit
  <2>4. {i \in 1..Len(recent) : recent[i] < MaxBackoff} = 1..m
    BY <1>2, <2>3
  <2>5. QED  BY <2>4
<1>4. \A i \in 1..m : i \in 1..Len(recent) /\ recent[i] < MaxBackoff
  BY <1>3
<1>5. recent' = [i \in 1..m |-> recent[i] + 1]
  BY <1>1, <1>2, <1>3
<1>6. /\ recent' \in Seq(0..MaxBackoff) /\ Len(recent') = m
      /\ \A i \in 1..m : recent'[i] = recent[i] + 1
  BY <1>2, <1>4, <1>5, Limit
<1>7. age' \in 0..MaxBackoff /\ wait' \in 0..backoff /\ m <= Len(recent)
  BY <1>1, <1>2, <1>3, Limit
<1>8. m > 0 => recent'[1] = age'
  <2>1. m > 0 => 1 \in 1..m /\ Len(recent) > 0
    BY <1>2, <1>3
  <2>2. m > 0 => recent[1] = age /\ age < MaxBackoff
    BY <1>4, <2>1 DEF ClockInv
  <2>3. QED  BY <1>1, <1>6, <2>1, <2>2
<1>9. phase = "sleeping" => age' + wait' >= backoff
  BY <1>1, <1>2, Limit DEF ClockInv
<1>10. \A i, k \in 1..m : i <= k => recent'[i] <= recent'[k]
  BY <1>2, <1>4, <1>6 DEF ClockInv
<1>11. \A k \in 1..m : k - 1 \in 0..MaxBackoff /\ (phase = "top" => k \in 0..MaxBackoff)
  BY <1>2, <1>3, Limit DEF ClockInv
<1>12. ASSUME NEW k \in 1..m
       PROVE  /\ recent'[k] >= recent'[1] + Delays[k - 1] - 1
              /\ phase = "top" => recent'[k] >= Delays[k] - 1
  <2>1. k \in 1..Len(recent) /\ 1 \in 1..m /\ 1 \in 1..Len(recent)
    BY <1>3, <1>4
  <2>2. recent[k] >= recent[1] + Delays[k - 1] - 1 /\ (phase = "top" => recent[k] >= Delays[k] - 1)
    BY <2>1 DEF ClockInv
  <2>3. Delays[k - 1] \in Nat /\ (phase = "top" => Delays[k] \in Nat)
    BY <1>11, DelaysGrow
  <2>4. recent'[k] = recent[k] + 1 /\ recent'[1] = recent[1] + 1 /\ recent[k] \in Nat /\ recent[1] \in Nat
    BY <1>2, <1>6, <2>1
  <2>5. recent'[k] >= recent'[1] + Delays[k - 1] - 1
    BY <2>2, <2>3, <2>4
  <2>6. phase = "top" => recent'[k] >= Delays[k] - 1
    BY <2>2, <2>3, <2>4
  <2>7. QED  BY <2>5, <2>6
<1>13. \A k \in 0..m : k \in 0..Len(recent)
  BY <1>2, <1>3
<1>14. /\ phase \in {"dialing", "reading", "dispatching", "sleeping"} =>
            \A k \in 1..m : backoff >= Delays[k - 1] \/ backoff = MaxBackoff
       /\ phase = "top" => \A k \in 0..m : backoff >= Delays[k] \/ backoff = MaxBackoff
  BY <1>4, <1>13 DEF ClockInv
<1>15. m <= MaxBackoff + 1 /\ (phase = "top" => m <= MaxBackoff)
  BY <1>2, <1>3, Limit DEF ClockInv
<1>16. QED
  BY <1>1, <1>2, <1>6, <1>7, <1>8, <1>9, <1>10, <1>12, <1>14, <1>15 DEF ClockInv

\* The invariant of the back-off holds at the start ...
LEMMA ClockInit == Init => ClockInv
<1> SUFFICES ASSUME Init PROVE ClockInv
  OBVIOUS
<1>1. phase = "top" /\ backoff = 1 /\ wait = 0 /\ age = 0 /\ recent = <<>>
  BY DEF Init
<1>2. recent \in Seq(0..MaxBackoff) /\ Len(recent) = 0
  BY <1>1
<1>3. \A k \in 0..Len(recent) : backoff >= Delays[k]
  BY <1>1, <1>2, DelaysDef
<1>4. QED  BY <1>1, <1>2, <1>3, Limit DEF ClockInv

\* ... and every step keeps it.
LEMMA ClockStep == ClockInv /\ [Next]_vars => ClockInv'
<1> SUFFICES ASSUME ClockInv, [Next]_vars PROVE ClockInv'
  OBVIOUS
<1>1. ASSUME UNCHANGED clock,
             \/ phase' \in {phase, "stopped"}
             \/ phase = "dialing" /\ phase' = "reading"
             \/ phase = "reading" /\ phase' = "dispatching"
             \/ phase = "dispatching" /\ phase' = "reading"
      PROVE  ClockInv'
  BY <1>1 DEF ClockInv, clock
<1>2. CASE Connected \/ Stop \/ DispatchReturns \/ Cancel \/ UNCHANGED vars
  BY <1>1, <1>2 DEF Connected, Stop, DispatchReturns, Cancel, vars
<1>3. ASSUME NEW f \in Frames, Send(f) PROVE ClockInv'
  BY <1>1, <1>3 DEF Send
<1>4. CASE ReadLine
  BY <1>1, <1>4 DEF ReadLine, ReadEvent, ReadData, ReadOther, Flush
<1>5. QED
  BY <1>2, <1>3, <1>4, WakeKeeps, DialKeeps, ReturnKeeps, TickKeeps DEF Next

\* The back-off protects the server, whatever its limit: no window of MaxBackoff
\* seconds sees more attempts than a run of failures from a delay of one second
\* on, although connections succeed and are cut as they please and the delay
\* is reset in between (Run, client.go:59-71).
THEOREM ServerIsSpared == Spec => []NoHammering
<1>1. ClockInv => NoHammering
  <2> SUFFICES ASSUME ClockInv PROVE NoHammering
    OBVIOUS
  <2> DEFINE L == Len(recent)
             short == {n \in 0..MaxBackoff : Delays[n] - 1 <= MaxBackoff}
  <2>1. /\ L \in Nat /\ L <= MaxBackoff + 1
        /\ \A k \in 1..L : recent[k] \in 0..MaxBackoff
    BY Ages DEF ClockInv
  <2>2. ASSUME NEW n \in 0..(L - 1) PROVE n \in short
    <3>1. n \in 0..MaxBackoff /\ n + 1 \in 1..L /\ 1 \in 1..L
      BY <2>1, Limit
    <3>2. recent[n + 1] >= recent[1] + Delays[(n + 1) - 1] - 1
      BY <3>1 DEF ClockInv
    <3>3. Delays[n] \in Nat /\ (n + 1) - 1 = n
      BY <3>1, DelaysGrow
    <3>4. QED  BY <2>1, <3>1, <3>2, <3>3, Limit
  <2>3. IsFiniteSet(short) /\ Cardinality(short) \in Nat
    <3>1. IsFiniteSet(0..MaxBackoff) /\ short \subseteq 0..MaxBackoff
      BY FS_Interval, Limit
    <3> HIDE DEF short
    <3>2. QED  BY <3>1, FS_Subset, FS_CardinalityType
  <2>4. Cardinality(0..(L - 1)) = L
    <3> HIDE DEF L
    <3>1. 0 \in Int /\ L - 1 \in Int
      BY <2>1
    <3>2. Cardinality(0..(L - 1)) = IF 0 > L - 1 THEN 0 ELSE (L - 1) - 0 + 1
      BY <3>1, FS_Interval
    <3>3. QED  BY <2>1, <3>2
  <2>5. Cardinality(0..(L - 1)) <= Cardinality(short)
    <3>1. 0..(L - 1) \subseteq short
      BY <2>2
    <3> HIDE DEF short
    <3>2. QED  BY <2>3, <3>1, FS_Subset
  <2>6. QED  BY <2>4, <2>5 DEF NoHammering
<1>2. QED  BY <1>1, ClockInit, ClockStep, PTL DEF Spec

-----------------------------------------------------------------------------
(* Frames and their parsing.                                               *)

AllLines == UNION {{f.lines[i] : i \in DOMAIN f.lines} : f \in Frames}
Values   == {l.value : l \in AllLines}

\* e and d are what the first k lines of a frame leave in event and data; each
\* fragment of d is that of a line.
Parsed(e, d, lines, k) ==
  /\ IsEvent(e, lines, k)
  /\ d \in Seq(Values) /\ IsData(d, lines, k)
  /\ \A n \in 1..Len(d) : \E i \in Payload(lines, k) : Rank(Payload(lines, k), i) = n

\* A frame is a sequence of lines that ends with its only empty one.
LEMMA FrameShape ==
  ASSUME NEW f \in Frames
  PROVE  /\ f.lines \in Seq(AllLines) /\ Len(f.lines) \in Nat /\ Len(f.lines) > 0
         /\ \A i \in 1..Len(f.lines) : /\ f.lines[i] \in AllLines
                                       /\ f.lines[i] = Blank <=> i = Len(f.lines)
<1> DEFINE S == {f.lines[i] : i \in DOMAIN f.lines}
<1>1. f.lines # <<>> /\ f.lines \in Seq(S) /\ \A i \in DOMAIN f.lines : f.lines[i] = Blank <=> i = Len(f.lines)
  BY SmeeAssumption DEF IsFrame
<1>2. S \subseteq AllLines
  BY DEF AllLines
<1> HIDE DEF S
<1>3. f.lines \in Seq(AllLines)
  BY <1>1, <1>2, SeqMonotonic
<1>4. Len(f.lines) \in Nat /\ Len(f.lines) > 0 /\ DOMAIN f.lines = 1..Len(f.lines)
  BY <1>1, <1>3, EmptySeq, LenProperties
<1>5. \A i \in 1..Len(f.lines) : f.lines[i] \in AllLines
  BY <1>3, ElementOfSeq
<1>6. QED  BY <1>1, <1>3, <1>4, <1>5

\* Sets of line numbers, counted.
LEMMA Ranks ==
  ASSUME NEW k \in Nat, NEW P, P \subseteq 1..k
  PROVE  /\ IsFiniteSet(P) /\ Cardinality(P) \in Nat
         /\ \A i \in P : Rank(P, i) \in 1..Cardinality(P)
         /\ LET Q == P \cup {k + 1} IN
            /\ Cardinality(Q) = Cardinality(P) + 1
            /\ \A i \in P : Rank(Q, i) = Rank(P, i)
            /\ Rank(Q, k + 1) = Cardinality(P) + 1
<1> DEFINE Q == P \cup {k + 1}
<1>1. IsFiniteSet(P) /\ Cardinality(P) \in Nat
  <2>1. IsFiniteSet(1..k)
    BY FS_Interval
  <2>2. QED  BY <2>1, FS_Subset, FS_CardinalityType
<1>2. ASSUME NEW i \in P PROVE Rank(P, i) \in 1..Cardinality(P)
  <2> DEFINE T == {j \in P : j <= i}
  <2>1. T \subseteq P /\ i \in T
    OBVIOUS
  <2> HIDE DEF T
  <2>2. IsFiniteSet(T) /\ Cardinality(T) \in Nat /\ Cardinality(T) <= Cardinality(P)
    BY <1>1, <2>1, FS_Subset, FS_CardinalityType
  <2>3. Cardinality(T) # 0
    BY <2>1, <2>2, FS_EmptySet
  <2>4. Cardinality(T) \in 1..Cardinality(P)
    BY <1>1, <2>2, <2>3
  <2>5. QED  BY <2>4 DEF Rank, T
<1>3. k + 1 \notin P
  OBVIOUS
<1>4. Cardinality(Q) = Cardinality(P) + 1
  BY <1>1, <1>3, FS_AddElement
<1>5. ASSUME NEW i \in P PROVE Rank(Q, i) = Rank(P, i)
  <2>1. {j \in Q : j <= i} = {j \in P : j <= i}
    OBVIOUS
  <2>2. QED  BY <2>1 DEF Rank
<1>6. Rank(Q, k + 1) = Cardinality(P) + 1
  <2>1. \A j \in Q : j <= k + 1
    OBVIOUS
  <2>2. {j \in Q : j <= k + 1} = Q
    BY <2>1
  <2>3. QED  BY <1>4, <2>2 DEF Rank
<1>7. QED  BY <1>1, <1>2, <1>4, <1>5, <1>6

\* One more line adds to the payload, or does not.
LEMMA PayloadStep ==
  ASSUME NEW lines, NEW k \in Nat
  PROVE  Payload(lines, k + 1) =
           IF /\ lines[k + 1].field = "data"
              /\ lines[k + 1].value # "" \/ Payload(lines, k) # {}
           THEN Payload(lines, k) \cup {k + 1}
           ELSE Payload(lines, k)
<1> DEFINE Full(j) == lines[j].field = "data" /\ lines[j].value # ""
           In(i) == lines[i].field = "data" /\ \E j \in 1..i : Full(j)
           More == lines[k + 1].field = "data" /\ (lines[k + 1].value # "" \/ Payload(lines, k) # {})
<1>1. Payload(lines, k) = {i \in 1..k : In(i)} /\ Payload(lines, k + 1) = {i \in 1..(k + 1) : In(i)}
  BY DEF Payload
<1>2. \A i : i \in 1..(k + 1) <=> i \in 1..k \/ i = k + 1
  OBVIOUS
<1>3. Payload(lines, k) # {} <=> \E j \in 1..k : Full(j)
  <2>1. ASSUME NEW j \in 1..k, Full(j) PROVE In(j)
    <3>1. j \in 1..j
      OBVIOUS
    <3>2. QED  BY <2>1, <3>1
  <2>2. ASSUME NEW i \in 1..k, In(i) PROVE \E j \in 1..k : Full(j)
    <3>1. PICK j \in 1..i : Full(j)
      BY <2>2
    <3>2. j \in 1..k
      OBVIOUS
    <3>3. QED  BY <3>1, <3>2
  <2> HIDE DEF In, Full
  <2>3. QED  BY <1>1, <2>1, <2>2
<1>4. In(k + 1) <=> More
  <2>1. (\E j \in 1..(k + 1) : Full(j)) <=> Full(k + 1) \/ \E j \in 1..k : Full(j)
    <3> HIDE DEF Full
    <3>1. QED  BY <1>2
  <2>2. QED  BY <1>3, <2>1
<1> HIDE DEF In
<1>5. CASE More
  BY <1>1, <1>2, <1>4, <1>5
<1>6. CASE ~More
  BY <1>1, <1>2, <1>4, <1>6
<1>7. QED  BY <1>5, <1>6

\* Before the first line: parseStream's locals as flush leaves them.
LEMMA ParsedStart ==
  ASSUME NEW lines
  PROVE  Parsed("message", <<>>, lines, 0)
<1>1. Payload(lines, 0) = {} /\ IsEvent("message", lines, 0)
  BY DEF Payload, IsEvent
<1>2. <<>> \in Seq(Values) /\ Len(<<>>) = 0
  BY EmptySeq
<1>3. Cardinality({}) = 0
  BY FS_EmptySet
<1>4. QED  BY <1>1, <1>2, <1>3 DEF Parsed, IsData

\* The locals after one more line.
LEMMA ParsedStep ==
  ASSUME NEW f \in Frames, NEW k \in Nat, k < Len(f.lines), NEW e, NEW d, Parsed(e, d, f.lines, k)
  PROVE  LET l == f.lines[k + 1] IN
         /\ l.field = "event" => Parsed(l.value, d, f.lines, k + 1)
         /\ l.field = "data" =>
              Parsed(e, IF d = <<>> /\ l.value = "" THEN <<>> ELSE Append(d, l.value), f.lines, k + 1)
         /\ l.field \notin {"event", "data"} => Parsed(e, d, f.lines, k + 1)
<1> DEFINE lines == f.lines
           l == lines[k + 1]
           P == Payload(lines, k)
           Q == Payload(lines, k + 1)
<1>1. /\ IsEvent(e, lines, k) /\ d \in Seq(Values) /\ Len(d) = Cardinality(P) /\ Len(d) \in Nat
      /\ \A i \in P : d[Rank(P, i)] = lines[i].value
      /\ \A n \in 1..Len(d) : \E i \in P : Rank(P, i) = n
  BY LenProperties DEF Parsed, IsData
<1>2. P \subseteq 1..k
  BY DEF Payload
<1>3. l \in AllLines /\ l.value \in Values
  BY FrameShape DEF Values
<1>4. l.field = "event" => IsEvent(l.value, lines, k + 1)
  BY DEF IsEvent
<1>5. l.field # "event" => IsEvent(e, lines, k + 1)
  BY <1>1 DEF IsEvent
<1>6. d = <<>> <=> P = {}
  <2>1. d = <<>> <=> Len(d) = 0
    BY <1>1, EmptySeq
  <2>2. P = {} <=> Cardinality(P) = 0
    BY <1>2, Ranks, FS_EmptySet
  <2>3. QED  BY <1>1, <2>1, <2>2
<1>7. ASSUME NEW x, IsEvent(x, lines, k + 1), Q = P PROVE Parsed(x, d, lines, k + 1)
  <2> HIDE DEF lines
  <2>1. QED  BY <1>1, <1>7 DEF Parsed, IsData
<1>8. l.field # "data" => Q = P
  BY PayloadStep
<1>9. CASE l.field = "data" /\ d = <<>> /\ l.value = ""
  <2>1. Q = P
    BY <1>6, <1>9, PayloadStep
  <2>2. QED  BY <1>5, <1>7, <1>9, <2>1
<1>10. CASE l.field = "data" /\ ~ (d = <<>> /\ l.value = "")
  <2> DEFINE a == Append(d, l.value)
  <2>1. Q = P \cup {k + 1}
    BY <1>6, <1>10, PayloadStep
  <2>2. /\ Cardinality(P) \in Nat /\ Cardinality(Q) = Cardinality(P) + 1
        /\ \A i \in P : Rank(P, i) \in 1..Cardinality(P)
        /\ \A i \in P : Rank(Q, i) = Rank(P, i)
        /\ Rank(Q, k + 1) = Cardinality(P) + 1
    <3> HIDE DEF P, Q
    <3>1. QED  BY <1>2, <2>1, Ranks
  <2>3. /\ a \in Seq(Values) /\ Len(a) = Len(d) + 1 /\ a[Len(d) + 1] = l.value
        /\ \A n \in 1..Len(d) : a[n] = d[n]
    BY <1>1, <1>3, AppendProperties
  <2>4. \A i \in Q : a[Rank(Q, i)] = lines[i].value
    <3> HIDE DEF a, P, Q
    <3>1. \A i \in P : a[Rank(Q, i)] = lines[i].value
      BY <1>1, <2>2, <2>3
    <3>2. a[Rank(Q, k + 1)] = lines[k + 1].value
      BY <1>1, <2>2, <2>3
    <3>3. QED  BY <2>1, <3>1, <3>2
  <2>5. \A n \in 1..Len(a) : \E i \in Q : Rank(Q, i) = n
    <3> HIDE DEF a, P, Q
    <3>1. \A n \in 1..Len(a) : n \in 1..Len(d) \/ n = Len(d) + 1
      BY <1>1, <2>3
    <3>2. QED  BY <1>1, <2>1, <2>2, <2>3, <3>1
  <2>6. Parsed(e, a, lines, k + 1)
    <3>1. IsEvent(e, lines, k + 1) /\ Len(a) = Cardinality(Q)
      BY <1>1, <1>5, <1>10, <2>2, <2>3
    <3> HIDE DEF a, lines
    <3>2. QED  BY <2>3, <2>4, <2>5, <3>1 DEF Parsed, IsData
  <2>7. QED  BY <1>10, <2>6
<1>11. QED  BY <1>4, <1>5, <1>7, <1>8, <1>9, <1>10

\* At most one entry of the configuration is asked for.
LEMMA AskedOnce ==
  ASSUME NEW m, NEW i \in Dispatch(cfg, m), NEW k \in Dispatch(cfg, m)
  PROVE  i = k
<1> HIDE DEF cfg
<1>1. /\ i \in Nat \ {0} /\ k \in Nat \ {0} /\ i \in DOMAIN cfg.repos /\ k \in DOMAIN cfg.repos
      /\ cfg.repos[i].name = m.repo /\ cfg.repos[k].name = m.repo
      /\ \A j \in 1..(i - 1) : cfg.repos[j].name # m.repo
      /\ \A j \in 1..(k - 1) : cfg.repos[j].name # m.repo
  BY SmeeAssumption DEF Dispatch, RepoByName
<1>2. i \in 1..(k - 1) \/ k \in 1..(i - 1) \/ i = k
  BY <1>1
<1>3. QED  BY <1>1, <1>2

\* What the lines of a frame leave behind asks for the call of that frame.
LEMMA ParsedAsks ==
  ASSUME NEW f \in Frames, NEW e, NEW d, Parsed(e, d, f.lines, Len(f.lines))
  PROVE  LET asked == IF e = "message" /\ d # <<>> /\ d \in DOMAIN Content
                        THEN Dispatch(cfg, Content[d]) ELSE {} IN
         /\ asked = {} => f.asks = NoCall
         /\ \A i \in asked : f.asks = Call(i) /\ f.asks # NoCall
<1> DEFINE lines == f.lines
           N == Len(lines)
           P == Payload(lines, N)
           messages == {x \in DOMAIN Content : x # <<>> /\ IsEvent("message", lines, N) /\ IsData(x, lines, N)}
           asked == IF e = "message" /\ d # <<>> /\ d \in DOMAIN Content
                      THEN Dispatch(cfg, Content[d]) ELSE {}
<1>1. N \in Nat
  BY FrameShape
<1>2. IsEvent("message", lines, N) <=> e = "message"
  <2>1. IsEvent(e, lines, N)
    BY DEF Parsed
  <2> HIDE DEF N, lines
  <2>2. ASSUME NEW x, NEW y, IsEvent(x, lines, N), IsEvent(y, lines, N) PROVE x = y
    <3>1. CASE \A i \in 1..N : lines[i].field # "event"
      BY <2>2, <3>1 DEF IsEvent
    <3>2. CASE ~ \A i \in 1..N : lines[i].field # "event"
      <4>1. PICK i \in 1..N : /\ lines[i].field = "event" /\ lines[i].value = x
                              /\ \A j \in (i + 1)..N : lines[j].field # "event"
        BY <2>2, <3>2 DEF IsEvent
      <4>2. PICK k \in 1..N : /\ lines[k].field = "event" /\ lines[k].value = y
                              /\ \A j \in (k + 1)..N : lines[j].field # "event"
        BY <2>2, <3>2 DEF IsEvent
      <4>3. i \in (k + 1)..N \/ k \in (i + 1)..N \/ i = k
        BY <1>1
      <4>4. QED  BY <4>1, <4>2, <4>3
    <3>3. QED  BY <3>1, <3>2
  <2>3. QED  BY <2>1, <2>2
<1>3. ASSUME NEW x \in DOMAIN Content, IsData(x, lines, N) PROVE x = d
  <2>1. /\ Len(x) = Cardinality(P) /\ Len(d) = Cardinality(P) /\ Len(d) \in Nat /\ d \in Seq(Values)
        /\ \A i \in P : x[Rank(P, i)] = lines[i].value /\ d[Rank(P, i)] = lines[i].value
        /\ \A n \in 1..Len(d) : \E i \in P : Rank(P, i) = n
    BY <1>3, LenProperties DEF Parsed, IsData
  <2>2. \A n \in 1..Len(d) : x[n] = d[n]
    BY <2>1
  <2>3. x \in Seq({x[i] : i \in DOMAIN x})
    BY SmeeAssumption
  <2>4. x \in Seq({x[i] : i \in DOMAIN x} \cup Values) /\ d \in Seq({x[i] : i \in DOMAIN x} \cup Values)
    BY <2>1, <2>3, SeqMonotonic
  <2>5. QED  BY <2>1, <2>2, <2>4, SeqEqual
<1>4. messages = IF e = "message" /\ d # <<>> /\ d \in DOMAIN Content THEN {d} ELSE {}
  <2>1. IsData(d, lines, N)
    BY DEF Parsed
  <2> HIDE DEF lines, N
  <2>2. QED  BY <1>2, <1>3, <2>1
<1>5. UNION {Dispatch(cfg, Content[x]) : x \in messages} = asked
  BY <1>4
<1>6. Asks(lines) = {Call(i) : i \in asked}
  <2>1. Asks(lines) = {Call(i) : i \in UNION {Dispatch(cfg, Content[x]) : x \in messages}}
    BY DEF Asks
  <2>2. QED  BY <1>5, <2>1
<1>7. f.asks \in IF Asks(lines) = {} THEN {NoCall} ELSE Asks(lines)
  BY SmeeAssumption
<1>8. \A i \in asked : Call(i) # NoCall
  BY SmeeAssumption DEF Dispatch, RepoByName
<1>9. \A i, k \in asked : i = k
  BY AskedOnce
<1> HIDE DEF asked, lines
<1>10. asked = {} => f.asks = NoCall
  BY <1>6, <1>7
<1>11. \A i \in asked : f.asks = Call(i) /\ f.asks # NoCall
  BY <1>6, <1>7, <1>8, <1>9
<1>12. QED  BY <1>10, <1>11 DEF asked

-----------------------------------------------------------------------------
(* The stream.                                                             *)

\* The lines of l are those of w from x on, up to y; those before w are gone.
Fits(l, x, y, w) ==
  /\ y = x + Len(l) /\ y <= Len(w)
  /\ \A k \in 1..Len(l) : x + k > 0 => w[x + k] = l[k]

\* The lines of the frames fs are those of w, the first frame's perhaps in part:
\* at[i] is where the lines of the i-th one begin, counted from the next line.
Laid(fs, at, w) ==
  /\ at \in [1..(Len(fs) + 1) -> Int]
  /\ at[1] <= 0 /\ at[Len(fs) + 1] = Len(w)
  /\ \A i \in 1..Len(fs) : Fits(fs[i].lines, at[i], at[i + 1], w)

\* The parser has what the lines before have left behind.
Begun(fs, at, e, d) ==
  IF Len(fs) = 0
  THEN e = "message" /\ d = <<>>
  ELSE at[1] + Len(fs[1].lines) > 0 /\ Parsed(e, d, fs[1].lines, 0 - at[1])

\* The calls the frames fs ask for.
AllAsks(fs) == [i \in 1..Len(fs) |-> fs[i].asks]

\* The frames fs are on the wire.
OnWire(fs, at) == due = AllAsks(fs) /\ Laid(fs, at, wire) /\ Begun(fs, at, event, data)

StreamInv ==
  /\ wire \in Seq(AllLines) /\ Len(due) <= MaxUnread
  /\ call # NoCall <=> phase = "dispatching"
  /\ phase \in {"reading", "dispatching"} => \E fs \in Seq(Frames) : \E at : OnWire(fs, at)
  /\ phase \notin {"reading", "dispatching"} => wire = <<>> /\ due = <<>>
  /\ cancelled \in BOOLEAN

\* Where a line of a frame may be.
LEMMA Inside ==
  ASSUME NEW p \in Int, NEW n \in Nat, NEW L \in Nat, p + n <= L, NEW k \in 1..n, p + k > 0
  PROVE  p + k \in 1..L
OBVIOUS

\* The types of the parts of a layout.
LEMMA LaidTypes ==
  ASSUME NEW fs \in Seq(Frames), NEW at, NEW w, Laid(fs, at, w)
  PROVE  /\ Len(fs) \in Nat /\ 1 \in 1..(Len(fs) + 1) /\ Len(fs) + 1 \in 1..(Len(fs) + 1)
         /\ \A i \in 1..(Len(fs) + 1) : at[i] \in Int
         /\ \A i \in 1..Len(fs) : /\ i \in 1..(Len(fs) + 1) /\ i + 1 \in 1..(Len(fs) + 1)
                                  /\ at[i] \in Int /\ at[i + 1] \in Int
                                  /\ fs[i] \in Frames
                                  /\ Len(fs[i].lines) \in Nat /\ Len(fs[i].lines) > 0
<1>1. Len(fs) \in Nat
  BY LenProperties
<1>2. /\ 1 \in 1..(Len(fs) + 1) /\ Len(fs) + 1 \in 1..(Len(fs) + 1)
      /\ \A i \in 1..Len(fs) : i \in 1..(Len(fs) + 1) /\ i + 1 \in 1..(Len(fs) + 1)
  BY <1>1
<1>3. \A i \in 1..(Len(fs) + 1) : at[i] \in Int
  BY DEF Laid
<1>4. \A i \in 1..Len(fs) : fs[i] \in Frames
  BY ElementOfSeq
<1>5. \A i \in 1..Len(fs) : Len(fs[i].lines) \in Nat /\ Len(fs[i].lines) > 0
  BY <1>4, FrameShape
<1>6. QED  BY <1>1, <1>2, <1>3, <1>4, <1>5

\* The reader is at a line of the first frame; it is the empty one if and only if
\* it is the last of the frame.
LEMMA NextLine ==
  ASSUME NEW w \in Seq(AllLines), w # <<>>, NEW fs \in Seq(Frames), NEW at, NEW e, NEW d,
         Laid(fs, at, w), Begun(fs, at, e, d)
  PROVE  /\ 1 \in 1..Len(fs)
         /\ 0 - at[1] \in Nat /\ 0 - at[1] < Len(fs[1].lines)
         /\ Parsed(e, d, fs[1].lines, 0 - at[1])
         /\ Head(w) = fs[1].lines[(0 - at[1]) + 1]
         /\ Head(w) = Blank <=> (0 - at[1]) + 1 = Len(fs[1].lines)
<1> DEFINE p == (0 - at[1]) + 1
<1>1. Len(w) \in Nat /\ Len(w) > 0 /\ Head(w) = w[1]
  BY EmptySeq, LenProperties
<1>2. Len(fs) \in Nat /\ at[1] \in Int /\ at[1] <= 0 /\ at[Len(fs) + 1] = Len(w)
  <2>1. at[1] <= 0 /\ at[Len(fs) + 1] = Len(w)
    BY DEF Laid
  <2>2. Len(fs) \in Nat /\ at[1] \in Int
    BY LaidTypes
  <2>3. QED  BY <2>1, <2>2
<1>3. 1 \in 1..Len(fs) /\ Len(fs) # 0
  BY <1>1, <1>2
<1>4. fs[1] \in Frames /\ Len(fs[1].lines) \in Nat
  BY <1>3, LaidTypes
<1>5. at[1] + Len(fs[1].lines) > 0 /\ Parsed(e, d, fs[1].lines, 0 - at[1])
  BY <1>3 DEF Begun
<1>6. p \in 1..Len(fs[1].lines) /\ at[1] + p = 1
  BY <1>2, <1>4, <1>5
<1>7. w[1] = fs[1].lines[p]
  <2>1. \A k \in 1..Len(fs[1].lines) : at[1] + k > 0 => w[at[1] + k] = fs[1].lines[k]
    BY <1>3 DEF Laid, Fits
  <2> HIDE DEF p
  <2>2. at[1] + p > 0
    BY <1>6
  <2>3. w[at[1] + p] = fs[1].lines[p]
    BY <1>6, <2>1, <2>2
  <2>4. QED  BY <1>6, <2>3
<1>8. w[1] = Blank <=> p = Len(fs[1].lines)
  <2> HIDE DEF p
  <2>1. QED  BY <1>4, <1>6, <1>7, FrameShape
<1>9. 0 - at[1] \in Nat /\ 0 - at[1] < Len(fs[1].lines)
  BY <1>2, <1>4, <1>6
<1>10. QED  BY <1>1, <1>3, <1>5, <1>7, <1>8, <1>9

\* One line less.
LEMMA Shorter ==
  ASSUME NEW w \in Seq(AllLines), w # <<>>
  PROVE  /\ Len(w) \in Nat /\ Tail(w) \in Seq(AllLines) /\ Len(Tail(w)) = Len(w) - 1
         /\ \A i \in 1..Len(Tail(w)) : Tail(w)[i] = w[i + 1]
BY HeadTailProperties, LenProperties

\* A frame's lines in the shorter stream.
LEMMA ShorterFrame ==
  ASSUME NEW w \in Seq(AllLines), w # <<>>, NEW fs \in Seq(Frames), NEW at, Laid(fs, at, w),
         NEW i \in 1..Len(fs)
  PROVE  Fits(fs[i].lines, at[i] - 1, at[i + 1] - 1, Tail(w))
<1> DEFINE n == Len(fs[i].lines)
           x == at[i] - 1
           y == at[i + 1] - 1
<1>1. n \in Nat /\ at[i] \in Int /\ at[i + 1] \in Int
  BY LaidTypes
<1>2. /\ at[i + 1] = at[i] + n /\ at[i + 1] <= Len(w)
      /\ \A k \in 1..n : at[i] + k > 0 => w[at[i] + k] = fs[i].lines[k]
  BY DEF Laid, Fits
<1>3. /\ Len(w) \in Nat /\ Len(Tail(w)) = Len(w) - 1
      /\ \A j \in 1..Len(Tail(w)) : Tail(w)[j] = w[j + 1]
  BY Shorter
<1> HIDE DEF n
<1>4. y = x + n /\ y <= Len(Tail(w))
  BY <1>1, <1>2, <1>3
<1>5. ASSUME NEW k \in 1..n, x + k > 0 PROVE Tail(w)[x + k] = fs[i].lines[k]
  <2>1. x \in Int /\ k \in Int /\ Len(Tail(w)) \in Nat
    BY <1>1, Shorter, LenProperties
  <2>2. x + k \in 1..Len(Tail(w))
    BY <1>1, <1>4, <1>5, <2>1, Inside
  <2>3. (x + k) + 1 = at[i] + k /\ at[i] + k > 0
    BY <1>1, <1>5, <2>1
  <2>4. Tail(w)[x + k] = w[at[i] + k]
    BY <1>3, <2>2, <2>3
  <2>5. QED  BY <1>2, <2>3, <2>4
<1>6. QED  BY <1>4, <1>5 DEF n, Fits

\* The reader takes a line that is not the last of the first frame.
LEMMA OneLineLess ==
  ASSUME NEW w \in Seq(AllLines), w # <<>>, NEW fs \in Seq(Frames), NEW at, NEW e, NEW d,
         Laid(fs, at, w), Begun(fs, at, e, d), Head(w) # Blank,
         NEW ee, NEW dd, Parsed(ee, dd, fs[1].lines, (0 - at[1]) + 1)
  PROVE  \E a : Laid(fs, a, Tail(w)) /\ Begun(fs, a, ee, dd)
<1> DEFINE N == Len(fs)
           a == [i \in 1..(N + 1) |-> at[i] - 1]
<1>1. /\ 1 \in 1..N /\ 0 - at[1] \in Nat /\ 0 - at[1] < Len(fs[1].lines)
      /\ (0 - at[1]) + 1 # Len(fs[1].lines)
  BY NextLine
<1>2. /\ N \in Nat /\ 1 \in 1..(N + 1) /\ N + 1 \in 1..(N + 1) /\ at[1] \in Int
      /\ Len(fs[1].lines) \in Nat
      /\ \A i \in 1..(N + 1) : at[i] \in Int /\ a[i] = at[i] - 1
      /\ \A i \in 1..N : i \in 1..(N + 1) /\ i + 1 \in 1..(N + 1)
  BY <1>1, LaidTypes
<1>3. a \in [1..(N + 1) -> Int]
  BY <1>2
<1> HIDE DEF a
<1>4. a[1] = at[1] - 1 /\ a[1] <= 0 /\ 0 - a[1] = (0 - at[1]) + 1 /\ a[1] + Len(fs[1].lines) > 0
  <2>1. a[1] = at[1] - 1 /\ at[1] \in Int /\ Len(fs[1].lines) \in Nat
    BY <1>2
  <2>2. QED  BY <1>1, <2>1
<1>5. a[N + 1] = Len(Tail(w))
  <2>1. at[N + 1] = Len(w)
    BY DEF Laid
  <2>2. QED  BY <1>2, <2>1, Shorter
<1>6. ASSUME NEW i \in 1..Len(fs) PROVE Fits(fs[i].lines, a[i], a[i + 1], Tail(w))
  <2>1. a[i] = at[i] - 1 /\ a[i + 1] = at[i + 1] - 1
    BY <1>2
  <2>2. Fits(fs[i].lines, at[i] - 1, at[i + 1] - 1, Tail(w))
    BY ShorterFrame
  <2>3. QED  BY <2>1, <2>2
<1>7. Laid(fs, a, Tail(w))
  BY <1>3, <1>4, <1>5, <1>6 DEF Laid
<1>8. Begun(fs, a, ee, dd)
  BY <1>1, <1>2, <1>4 DEF Begun
<1>9. QED  BY <1>7, <1>8

\* The reader takes the last line of the first frame.
LEMMA OneFrameLess ==
  ASSUME NEW w \in Seq(AllLines), w # <<>>, NEW fs \in Seq(Frames), NEW at, NEW e, NEW d,
         Laid(fs, at, w), Begun(fs, at, e, d), Head(w) = Blank
  PROVE  /\ fs # <<>> /\ Tail(fs) \in Seq(Frames)
         /\ \E a : Laid(Tail(fs), a, Tail(w)) /\ Begun(Tail(fs), a, "message", <<>>)
<1> DEFINE N == Len(fs)
           gs == Tail(fs)
           a == [i \in 1..N |-> at[i + 1] - 1]
<1>1. /\ 1 \in 1..N /\ 0 - at[1] \in Nat /\ (0 - at[1]) + 1 = Len(fs[1].lines)
  BY NextLine
<1>2. /\ N \in Nat /\ at[1] \in Int /\ N \in 1..N /\ 1 + 1 \in 1..(N + 1)
      /\ \A i \in 1..(N + 1) : at[i] \in Int
      /\ \A i \in 1..N : /\ i + 1 \in 1..(N + 1) /\ at[i + 1] \in Int /\ a[i] = at[i + 1] - 1
                         /\ Len(fs[i].lines) \in Nat /\ Len(fs[i].lines) > 0
  BY <1>1, LaidTypes
<1>3. fs # <<>> /\ gs \in Seq(Frames) /\ Len(gs) + 1 = N /\ \A i \in 1..Len(gs) : gs[i] = fs[i + 1]
  <2>1. fs # <<>>
    BY <1>1, <1>2, EmptySeq
  <2>2. gs \in Seq(Frames) /\ Len(gs) = N - 1 /\ \A i \in 1..Len(gs) : gs[i] = fs[i + 1]
    BY <2>1, HeadTailProperties
  <2>3. QED  BY <1>2, <2>1, <2>2
<1>4. Len(gs) \in Nat /\ \A i \in 1..Len(gs) : i \in 1..N /\ i + 1 \in 1..N
  <2>1. Len(gs) \in Nat
    BY <1>3, LenProperties
  <2> HIDE DEF gs
  <2>2. QED  BY <1>2, <1>3, <2>1
<1>5. a \in [1..(Len(gs) + 1) -> Int]
  BY <1>2, <1>3
<1> HIDE DEF a, gs
<1>6. a[1] = 0 /\ a[Len(gs) + 1] = Len(Tail(w))
  <2>1. at[N + 1] = Len(w) /\ at[1 + 1] = at[1] + Len(fs[1].lines)
    BY <1>1 DEF Laid, Fits
  <2>2. a[1] = at[1 + 1] - 1 /\ a[N] = at[N + 1] - 1
    BY <1>1, <1>2
  <2>3. a[1] = 0
    BY <1>1, <1>2, <2>1, <2>2
  <2>4. QED  BY <1>3, <2>1, <2>2, <2>3, Shorter
<1>7. ASSUME NEW i \in 1..Len(gs) PROVE Fits(gs[i].lines, a[i], a[i + 1], Tail(w))
  <2> DEFINE j == i + 1
  <2>1. i \in 1..N /\ j \in 1..N /\ gs[i] = fs[j] /\ a[i] = at[j] - 1
    BY <1>2, <1>3, <1>4
  <2> HIDE DEF j
  <2>2. a[j] = at[j + 1] - 1
    BY <1>2, <2>1
  <2>3. Fits(fs[j].lines, at[j] - 1, at[j + 1] - 1, Tail(w))
    BY <2>1, ShorterFrame
  <2>4. QED  BY <2>1, <2>2, <2>3 DEF j
<1>8. Laid(gs, a, Tail(w))
  <2>1. a[1] <= 0
    BY <1>6
  <2>2. QED  BY <1>5, <1>6, <1>7, <2>1 DEF Laid
<1>9. Begun(gs, a, "message", <<>>)
  <2>1. CASE Len(gs) = 0
    BY <2>1 DEF Begun
  <2>2. CASE Len(gs) # 0
    <3>1. 1 \in 1..Len(gs)
      BY <1>4, <2>2
    <3>2. Len(gs[1].lines) \in Nat /\ Len(gs[1].lines) > 0
      BY <1>2, <1>3, <1>4, <3>1
    <3>3. a[1] + Len(gs[1].lines) > 0 /\ 0 - a[1] = 0
      BY <1>6, <3>2
    <3>4. Parsed("message", <<>>, gs[1].lines, 0 - a[1])
      BY <3>3, ParsedStart
    <3>5. QED  BY <2>2, <3>3, <3>4 DEF Begun
  <2>3. QED  BY <2>1, <2>2
<1>10. QED  BY <1>3, <1>8, <1>9 DEF gs

\* The server sends one more frame.
LEMMA OneFrameMore ==
  ASSUME NEW w \in Seq(AllLines), NEW fs \in Seq(Frames), NEW at, NEW e, NEW d,
         Laid(fs, at, w), Begun(fs, at, e, d), NEW f \in Frames
  PROVE  \E a : Laid(Append(fs, f), a, w \o f.lines) /\ Begun(Append(fs, f), a, e, d)
<1> DEFINE gs == Append(fs, f)
           v == w \o f.lines
           N == Len(fs)
           a == [i \in 1..(N + 2) |-> IF i <= N + 1 THEN at[i] ELSE Len(v)]
<1>1. /\ N \in Nat /\ gs \in Seq(Frames) /\ Len(gs) = N + 1 /\ gs[N + 1] = f
      /\ \A i \in 1..N : gs[i] = fs[i]
  BY LenProperties, AppendProperties
<1>2. f.lines \in Seq(AllLines) /\ Len(f.lines) \in Nat /\ Len(f.lines) > 0
  BY FrameShape
<1>3. /\ Len(w) \in Nat /\ Len(v) = Len(w) + Len(f.lines)
      /\ \A i \in 1..Len(w) : v[i] = w[i]
      /\ \A k \in 1..Len(f.lines) : v[Len(w) + k] = f.lines[k]
  <2>1. Len(w) \in Nat /\ Len(v) = Len(w) + Len(f.lines)
    BY <1>2, LenProperties, ConcatProperties
  <2>2. \A i \in 1..(Len(w) + Len(f.lines)) :
          v[i] = IF i <= Len(w) THEN w[i] ELSE f.lines[i - Len(w)]
    BY <1>2, ConcatProperties
  <2>3. \A k \in 1..Len(f.lines) : /\ Len(w) + k \in 1..(Len(w) + Len(f.lines))
                                   /\ ~ (Len(w) + k <= Len(w))
                                   /\ (Len(w) + k) - Len(w) = k
    BY <1>2, <2>1
  <2>4. \A i \in 1..Len(w) : i \in 1..(Len(w) + Len(f.lines)) /\ i <= Len(w)
    BY <1>2, <2>1
  <2> HIDE DEF v
  <2>5. QED  BY <2>1, <2>2, <2>3, <2>4
<1>4. at[1] <= 0 /\ at[N + 1] = Len(w) /\ \A i \in 1..(N + 1) : at[i] \in Int
  BY LaidTypes DEF Laid
<1> HIDE DEF gs, v
<1>5. /\ a \in [1..(N + 2) -> Int] /\ \A i \in 1..(N + 1) : a[i] = at[i]
      /\ a[N + 2] = Len(v) /\ 1 \in 1..(N + 1) /\ N + 1 \in 1..(N + 1)
  <2> HIDE DEF N
  <2>1. Len(v) \in Int
    BY <1>2, <1>3
  <2>2. QED  BY <1>1, <1>4, <2>1
<1> HIDE DEF a
<1>6. ASSUME NEW i \in 1..(N + 1) PROVE Fits(gs[i].lines, a[i], a[i + 1], v)
  <2>1. CASE i = N + 1
    <3>1. a[i] = Len(w) /\ i + 1 = N + 2 /\ gs[i] = f
      BY <1>1, <1>4, <1>5, <2>1
    <3>2. QED  BY <1>2, <1>3, <1>5, <3>1 DEF Fits
  <2>2. CASE i # N + 1
    <3>1. i \in 1..N /\ i + 1 \in 1..(N + 1) /\ gs[i] = fs[i]
      BY <1>1, <2>2
    <3>2. a[i] = at[i] /\ a[i + 1] = at[i + 1] /\ at[i] \in Int /\ at[i + 1] \in Int
      BY <1>4, <1>5, <3>1
    <3>3. /\ at[i + 1] = at[i] + Len(fs[i].lines) /\ at[i + 1] <= Len(w)
          /\ \A k \in 1..Len(fs[i].lines) : at[i] + k > 0 => w[at[i] + k] = fs[i].lines[k]
      BY <3>1 DEF Laid, Fits
    <3>4. Len(fs[i].lines) \in Nat
      BY <3>1, LaidTypes
    <3>5. \A k \in 1..Len(fs[i].lines) : at[i] + k > 0 => at[i] + k \in 1..Len(w)
      BY <1>3, <3>2, <3>3, <3>4, Inside
    <3>6. a[i + 1] <= Len(v)
      BY <1>2, <1>3, <3>2, <3>3
    <3>7. QED  BY <1>3, <3>1, <3>2, <3>3, <3>5, <3>6 DEF Fits
  <2>3. QED  BY <2>1, <2>2
<1>7. Laid(gs, a, v)
  <2>1. Len(gs) + 1 = N + 2 /\ a[1] <= 0
    BY <1>1, <1>4, <1>5
  <2>2. QED  BY <1>1, <1>5, <1>6, <2>1 DEF Laid
<1>8. Begun(gs, a, e, d)
  <2>1. CASE N = 0
    <3>1. e = "message" /\ d = <<>> /\ gs[1] = f /\ a[1] = 0 /\ Len(gs) # 0
      <4>1. e = "message" /\ d = <<>>
        BY <2>1 DEF Begun
      <4>2. at[1] = Len(w) /\ at[1] \in Int /\ a[1] = at[1] /\ gs[1] = f
        BY <1>1, <1>4, <1>5, <2>1
      <4>3. QED  BY <1>1, <1>3, <1>4, <4>1, <4>2
    <3>2. QED  BY <1>2, <3>1, ParsedStart DEF Begun
  <2>2. CASE N # 0
    <3>1. 1 \in 1..N /\ Len(gs) # 0
      BY <1>1, <2>2
    <3>2. gs[1] = fs[1] /\ a[1] = at[1]
      BY <1>1, <1>5, <3>1
    <3>3. at[1] + Len(fs[1].lines) > 0 /\ Parsed(e, d, fs[1].lines, 0 - at[1])
      BY <2>2 DEF Begun
    <3>4. QED  BY <3>1, <3>2, <3>3 DEF Begun
  <2>3. QED  BY <2>1, <2>2
<1>9. QED  BY <1>7, <1>8 DEF gs, v

\* The calls that frames ask for, with a frame less and with one more.
LEMMA AsksMove ==
  ASSUME NEW fs \in Seq(Frames)
  PROVE  /\ AllAsks(fs) \in Seq({f.asks : f \in Frames}) /\ Len(AllAsks(fs)) = Len(fs)
         /\ fs # <<>> => /\ AllAsks(fs) # <<>> /\ Head(AllAsks(fs)) = fs[1].asks
                         /\ Tail(AllAsks(fs)) = AllAsks(Tail(fs))
         /\ \A f \in Frames : Append(AllAsks(fs), f.asks) = AllAsks(Append(fs, f))
<1> DEFINE A == {f.asks : f \in Frames}
           q == AllAsks(fs)
<1>1. ASSUME NEW gs \in Seq(Frames)
      PROVE  /\ AllAsks(gs) \in Seq(A) /\ Len(AllAsks(gs)) = Len(gs) /\ Len(gs) \in Nat
             /\ \A i \in 1..Len(gs) : AllAsks(gs)[i] = gs[i].asks
  <2>1. Len(gs) \in Nat /\ \A i \in 1..Len(gs) : gs[i].asks \in A
    BY LenProperties, ElementOfSeq
  <2> HIDE DEF A
  <2>2. QED  BY <2>1 DEF AllAsks
<1> HIDE DEF A
<1>2. ASSUME fs # <<>>
      PROVE  q # <<>> /\ Head(q) = fs[1].asks /\ Tail(q) = AllAsks(Tail(fs))
  <2> DEFINE gs == Tail(fs)
             r == Tail(q)
  <2>1. Len(fs) # 0 /\ 1 \in 1..Len(fs)
    <3>1. Len(fs) # 0
      BY <1>2, EmptySeq
    <3>2. QED  BY <1>1, <3>1
  <2>2. gs \in Seq(Frames) /\ Len(gs) = Len(fs) - 1 /\ \A i \in 1..Len(gs) : gs[i] = fs[i + 1]
    BY <1>2, HeadTailProperties
  <2>3. q \in Seq(A) /\ Len(q) = Len(fs) /\ \A i \in 1..Len(q) : q[i] = fs[i].asks
    BY <1>1
  <2> HIDE DEF q
  <2>4. q # <<>>
    BY <2>1, <2>3, EmptySeq
  <2>5. /\ Head(q) = q[1] /\ r \in Seq(A) /\ Len(r) = Len(q) - 1
        /\ \A i \in 1..Len(r) : r[i] = q[i + 1]
    BY <2>3, <2>4, HeadTailProperties
  <2> HIDE DEF r, gs
  <2>6. AllAsks(gs) \in Seq(A) /\ Len(AllAsks(gs)) = Len(gs) /\ \A i \in 1..Len(gs) : AllAsks(gs)[i] = gs[i].asks
    BY <1>1, <2>2
  <2>7. ASSUME NEW i \in 1..Len(r) PROVE r[i] = AllAsks(gs)[i]
    <3>1. i \in 1..Len(gs) /\ i + 1 \in 1..Len(q)
      BY <1>1, <2>2, <2>3, <2>5
    <3>2. QED  BY <2>2, <2>3, <2>5, <2>6, <3>1
  <2>8. r = AllAsks(gs)
    BY <2>2, <2>3, <2>5, <2>6, <2>7, SeqEqual
  <2>9. QED  BY <2>1, <2>3, <2>4, <2>5, <2>8 DEF r, gs
<1>3. ASSUME NEW f \in Frames
      PROVE  Append(q, f.asks) = AllAsks(Append(fs, f))
  <2> DEFINE gs == Append(fs, f)
             r == Append(q, f.asks)
             N == Len(fs)
  <2>1. /\ gs \in Seq(Frames) /\ Len(gs) = N + 1 /\ gs[N + 1] = f
        /\ \A i \in 1..N : gs[i] = fs[i]
    BY AppendProperties
  <2>2. N \in Nat /\ q \in Seq(A) /\ Len(q) = N /\ \A i \in 1..N : q[i] = fs[i].asks
    BY <1>1
  <2>3. f.asks \in A
    BY DEF A
  <2> HIDE DEF q, N
  <2>4. /\ r \in Seq(A) /\ Len(r) = N + 1 /\ r[N + 1] = f.asks
        /\ \A i \in 1..N : r[i] = q[i]
    BY <2>2, <2>3, AppendProperties
  <2> HIDE DEF r, gs
  <2>5. AllAsks(gs) \in Seq(A) /\ Len(AllAsks(gs)) = Len(gs) /\ \A i \in 1..Len(gs) : AllAsks(gs)[i] = gs[i].asks
    BY <1>1, <2>1
  <2>6. ASSUME NEW i \in 1..Len(r) PROVE r[i] = AllAsks(gs)[i]
    <3>1. i \in 1..N \/ i = N + 1
      BY <2>2, <2>4
    <3>2. i \in 1..Len(gs)
      BY <2>1, <2>4
    <3>3. AllAsks(gs)[i] = gs[i].asks
      BY <2>5, <3>2
    <3>4. QED  BY <2>1, <2>2, <2>4, <3>1, <3>3
  <2>7. r = AllAsks(gs)
    BY <2>1, <2>4, <2>5, <2>6, SeqEqual
  <2>8. QED  BY <2>7 DEF r, gs
<1>4. QED  BY <1>1, <1>2, <1>3 DEF A

\* A line in the middle of a frame changes the parser's locals only.
LEMMA LineKeeps ==
  ASSUME StreamInv, ReadLine, ~Flush
  PROVE  StreamInv' /\ UNCHANGED <<due, call>>
<1>1. /\ phase = "reading" /\ wire # <<>> /\ wire \in Seq(AllLines)
      /\ wire' = Tail(wire) /\ UNCHANGED cancelled
  BY DEF ReadLine, StreamInv
<1>2. /\ UNCHANGED <<due, call, phase>>
      /\ \/ /\ Head(wire).field = "event"
            /\ event' = Head(wire).value /\ data' = data
         \/ /\ Head(wire).field = "data" /\ event' = event
            /\ data' = IF data = <<>> /\ Head(wire).value = "" THEN <<>> ELSE Append(data, Head(wire).value)
         \/ /\ Head(wire).field = "other"
            /\ event' = event /\ data' = data
  BY DEF ReadLine, ReadEvent, ReadData, ReadOther, Value
<1>3. Head(wire) # Blank
  <2>1. Blank.field = "blank"
    BY DEF Blank
  <2>2. Head(wire).field \in {"event", "data", "other"}
    BY <1>2
  <2>3. QED  BY <2>1, <2>2
<1>4. PICK fs \in Seq(Frames) : \E at : OnWire(fs, at)
  BY <1>1 DEF StreamInv
<1>5. PICK at : OnWire(fs, at)
  BY <1>4
<1>6. due = AllAsks(fs) /\ Laid(fs, at, wire) /\ Begun(fs, at, event, data)
  BY <1>5 DEF OnWire
<1> DEFINE k == 0 - at[1]
           f == fs[1]
<1>7. /\ f \in Frames /\ k \in Nat /\ k < Len(f.lines)
      /\ Parsed(event, data, f.lines, k) /\ Head(wire) = f.lines[k + 1]
  <2>1. 1 \in 1..Len(fs)
    BY <1>1, <1>6, NextLine
  <2>2. f \in Frames
    BY <2>1, ElementOfSeq
  <2>3. QED  BY <1>1, <1>6, <2>2, NextLine
<1>8. Parsed(event', data', f.lines, k + 1)
  <2> HIDE DEF k, f
  <2>1. /\ f.lines[k + 1].field = "event" => Parsed(f.lines[k + 1].value, data, f.lines, k + 1)
        /\ f.lines[k + 1].field = "data" =>
              Parsed(event, IF data = <<>> /\ f.lines[k + 1].value = "" THEN <<>> ELSE Append(data, f.lines[k + 1].value), f.lines, k + 1)
        /\ f.lines[k + 1].field \notin {"event", "data"} => Parsed(event, data, f.lines, k + 1)
    BY <1>7, ParsedStep
  <2> DEFINE more == IF data = <<>> /\ Head(wire).value = "" THEN <<>> ELSE Append(data, Head(wire).value)
  <2>2. /\ Head(wire).field = "event" => Parsed(Head(wire).value, data, f.lines, k + 1)
        /\ Head(wire).field = "data" => Parsed(event, more, f.lines, k + 1)
        /\ Head(wire).field = "other" => Parsed(event, data, f.lines, k + 1)
    BY <1>7, <2>1
  <2>3. \/ Head(wire).field = "event" /\ event' = Head(wire).value /\ data' = data
        \/ Head(wire).field = "data" /\ event' = event /\ data' = more
        \/ Head(wire).field = "other" /\ event' = event /\ data' = data
    BY <1>2
  <2> HIDE DEF more
  <2>4. QED  BY <2>2, <2>3
<1>9. PICK a : Laid(fs, a, Tail(wire)) /\ Begun(fs, a, event', data')
  BY <1>1, <1>3, <1>6, <1>8, OneLineLess
<1>10. OnWire(fs, a)'
  BY <1>1, <1>2, <1>6, <1>9 DEF OnWire
<1>11. Tail(wire) \in Seq(AllLines)
  BY <1>1, Shorter
<1>12. \E gs \in Seq(Frames) : \E b : OnWire(gs, b)'
  BY <1>10
<1>13. StreamInv'
  BY <1>1, <1>2, <1>11, <1>12 DEF StreamInv
<1>14. QED  BY <1>2, <1>13

\* The empty line at the end of a frame makes the call the frame asks for, and
\* leaves the parser as at the start of a frame.
LEMMA FlushKeeps ==
  ASSUME StreamInv, ReadLine, Flush
  PROVE  /\ StreamInv'
         /\ due # <<>> /\ due' = Tail(due) /\ call = NoCall /\ call' = Head(due)
<1>1. /\ phase = "reading" /\ wire # <<>> /\ wire \in Seq(AllLines)
      /\ wire' = Tail(wire) /\ UNCHANGED cancelled /\ call = NoCall /\ Len(due) <= MaxUnread
  BY DEF ReadLine, StreamInv
<1>2. /\ Head(wire) = Blank /\ due' = Tail(due) /\ event' = "message" /\ data' = <<>>
      /\ Asked = {} => UNCHANGED <<call, phase>>
      /\ Asked # {} => (\E i \in Asked : call' = Call(i)) /\ phase' = "dispatching"
  BY DEF Flush
<1>3. PICK fs \in Seq(Frames) : \E at : OnWire(fs, at)
  BY <1>1 DEF StreamInv
<1>4. PICK at : OnWire(fs, at)
  BY <1>3
<1>5. due = AllAsks(fs) /\ Laid(fs, at, wire) /\ Begun(fs, at, event, data)
  BY <1>4 DEF OnWire
<1> DEFINE k == 0 - at[1]
           f == fs[1]
<1>6. /\ f \in Frames /\ k \in Nat /\ k < Len(f.lines) /\ k + 1 = Len(f.lines)
      /\ Parsed(event, data, f.lines, k) /\ Head(wire) = f.lines[k + 1]
  <2>1. 1 \in 1..Len(fs)
    BY <1>1, <1>5, NextLine
  <2>2. f \in Frames
    BY <2>1, ElementOfSeq
  <2>3. QED  BY <1>1, <1>2, <1>5, <2>2, NextLine
<1>7. Parsed(event, data, f.lines, Len(f.lines))
  <2> HIDE DEF k, f
  <2>1. f.lines[k + 1].field \notin {"event", "data"} => Parsed(event, data, f.lines, k + 1)
    BY <1>6, ParsedStep
  <2>2. f.lines[k + 1].field = "blank"
    <3>1. Blank.field = "blank"
      BY DEF Blank
    <3>2. QED  BY <1>2, <1>6, <3>1
  <2>3. QED  BY <1>6, <2>1, <2>2
<1>8. /\ Asked = {} => f.asks = NoCall
      /\ \A i \in Asked : f.asks = Call(i) /\ f.asks # NoCall
  <2> HIDE DEF f
  <2>1. QED  BY <1>6, <1>7, ParsedAsks DEF Asked
<1>9. PICK a : Laid(Tail(fs), a, Tail(wire)) /\ Begun(Tail(fs), a, "message", <<>>)
  BY <1>1, <1>2, <1>5, OneFrameLess
<1>10. fs # <<>> /\ Tail(fs) \in Seq(Frames)
  BY <1>1, <1>2, <1>5, OneFrameLess
<1>11. /\ due # <<>> /\ Head(due) = f.asks /\ Tail(due) = AllAsks(Tail(fs))
       /\ due \in Seq({g.asks : g \in Frames})
  BY <1>5, <1>10, AsksMove
<1> HIDE DEF f, k
<1>12. /\ call' = Head(due)
       /\ call' # NoCall <=> phase' = "dispatching"
       /\ phase' \in {"reading", "dispatching"}
  <2>1. CASE Asked = {}
    BY <1>1, <1>2, <1>8, <1>11, <2>1
  <2>2. CASE Asked # {}
    BY <1>1, <1>2, <1>8, <1>11, <2>2
  <2>3. QED  BY <2>1, <2>2
<1>13. OnWire(Tail(fs), a)'
  BY <1>1, <1>2, <1>9, <1>11 DEF OnWire
<1>14. \E gs \in Seq(Frames) : \E b : OnWire(gs, b)'
  BY <1>10, <1>13
<1>15. Tail(wire) \in Seq(AllLines)
  BY <1>1, Shorter
<1>16. Len(due') <= MaxUnread
  <2>1. Len(due') = Len(due) - 1 /\ Len(due) \in Nat
    BY <1>2, <1>11, HeadTailProperties, LenProperties
  <2>2. QED  BY <1>1, <2>1, SmeeAssumption
<1>17. StreamInv'
  BY <1>1, <1>12, <1>14, <1>15, <1>16 DEF StreamInv
<1>18. QED  BY <1>1, <1>2, <1>11, <1>12, <1>17

\* The server adds a whole frame.
LEMMA SendKeeps ==
  ASSUME StreamInv, NEW f \in Frames, Send(f)
  PROVE  StreamInv'
<1>1. /\ phase \in {"reading", "dispatching"} /\ Len(due) < MaxUnread
      /\ wire' = wire \o f.lines /\ due' = Append(due, f.asks)
      /\ UNCHANGED <<phase, event, data, call, cancelled>>
  BY DEF Send
<1>2. wire \in Seq(AllLines)
  BY DEF StreamInv
<1>3. PICK fs \in Seq(Frames) : \E at : OnWire(fs, at)
  BY <1>1 DEF StreamInv
<1>4. PICK at : OnWire(fs, at)
  BY <1>3
<1>5. due = AllAsks(fs) /\ Laid(fs, at, wire) /\ Begun(fs, at, event, data)
  BY <1>4 DEF OnWire
<1>6. PICK a : Laid(Append(fs, f), a, wire \o f.lines) /\ Begun(Append(fs, f), a, event, data)
  BY <1>2, <1>5, OneFrameMore
<1>7. due' = AllAsks(Append(fs, f)) /\ due \in Seq({g.asks : g \in Frames})
  BY <1>1, <1>5, AsksMove
<1>8. OnWire(Append(fs, f), a)'
  BY <1>1, <1>6, <1>7 DEF OnWire
<1>9. Append(fs, f) \in Seq(Frames)
  BY AppendProperties
<1>10. \E gs \in Seq(Frames) : \E b : OnWire(gs, b)'
  BY <1>8, <1>9
<1>11. wire \o f.lines \in Seq(AllLines)
  BY <1>2, FrameShape, ConcatProperties
<1>12. Len(due') <= MaxUnread
  <2>1. Len(due') = Len(due) + 1 /\ Len(due) \in Nat
    <3> DEFINE A == {g.asks : g \in Frames}
    <3>1. f.asks \in A /\ due \in Seq(A)
      BY <1>7
    <3> HIDE DEF A
    <3>2. QED  BY <1>1, <3>1, AppendProperties, LenProperties
  <2>2. QED  BY <1>1, <2>1, SmeeAssumption
<1>13. QED  BY <1>1, <1>10, <1>11, <1>12 DEF StreamInv

\* A connection starts with nothing on the wire.
LEMMA ConnectedKeeps ==
  ASSUME StreamInv, Connected
  PROVE  StreamInv'
<1>1. /\ phase = "dialing" /\ phase' = "reading" /\ event' = "message" /\ data' = <<>>
      /\ UNCHANGED <<wire, due, call, cancelled>> /\ wire = <<>> /\ due = <<>>
  BY DEF Connected, StreamInv
<1> DEFINE fs == <<>>
           at == [i \in 1..1 |-> 0]
<1>2. fs \in Seq(Frames) /\ Len(fs) = 0
  BY EmptySeq
<1>3. AllAsks(fs) = <<>>
  BY <1>2, AsksMove, EmptySeq
<1>4. Laid(fs, at, <<>>)
  BY <1>2 DEF Laid
<1>5. Begun(fs, at, "message", <<>>)
  BY <1>2 DEF Begun
<1> HIDE DEF fs, at
<1>6. OnWire(fs, at)'
  BY <1>1, <1>3, <1>4, <1>5 DEF OnWire
<1>7. \E gs \in Seq(Frames) : \E b : OnWire(gs, b)'
  BY <1>2, <1>6
<1>8. QED  BY <1>1, <1>7 DEF StreamInv

\* Steps that leave the stream alone.
LEMMA StreamAlone ==
  ASSUME StreamInv, UNCHANGED <<wire, due, event, data>>, cancelled' \in BOOLEAN,
         \/ /\ UNCHANGED <<call, phase>>
         \/ /\ UNCHANGED call
            /\ {phase, phase'} \cap {"reading", "dispatching"} = {}
         \/ phase = "dispatching" /\ phase' = "reading" /\ call' = NoCall
  PROVE  StreamInv'
<1>1. \A fs, at : OnWire(fs, at) => OnWire(fs, at)'
  BY DEF OnWire
<1>2. phase' \in {"reading", "dispatching"} => \E fs \in Seq(Frames) : \E at : OnWire(fs, at)'
  BY <1>1 DEF StreamInv
<1>3. QED  BY <1>2 DEF StreamInv

\* The connection ends, and what was not read is lost.
LEMMA LossKeeps ==
  ASSUME StreamInv, ConnectReturns
  PROVE  StreamInv' /\ call = NoCall /\ call' = NoCall /\ due' = <<>>
<1>1. /\ phase \in {"dialing", "reading"} /\ phase' = "sleeping"
      /\ wire' = <<>> /\ due' = <<>> /\ UNCHANGED <<call, cancelled>>
  BY DEF ConnectReturns
<1>2. <<>> \in Seq(AllLines) /\ Len(<<>>) = 0
  BY EmptySeq
<1>3. QED  BY <1>1, <1>2, SmeeAssumption DEF StreamInv

\* The invariant of the stream holds at the start ...
LEMMA StreamInit == Init => StreamInv
<1>1. <<>> \in Seq(AllLines) /\ Len(<<>>) = 0
  BY EmptySeq
<1>2. 0 <= MaxUnread
  BY SmeeAssumption
<1>3. Init => cancelled \in BOOLEAN
  BY Zenon DEF Init
<1>4. QED  BY <1>1, <1>2, <1>3 DEF Init, StreamInv

\* ... and every step keeps it.
LEMMA StreamStep == StreamInv /\ [Next]_vars => StreamInv'
<1> SUFFICES ASSUME StreamInv, [Next]_vars PROVE StreamInv'
  OBVIOUS
<1>1. CASE Dial \/ Wake \/ Stop \/ DispatchReturns \/ Tick \/ Cancel \/ UNCHANGED vars
  <2>1. cancelled \in BOOLEAN
    BY DEF StreamInv
  <2>2. QED
    BY <1>1, <2>1, StreamAlone DEF Dial, Wake, Stop, DispatchReturns, Tick, Cancel, vars, stream
<1>2. CASE ReadLine
  BY <1>2, LineKeeps, FlushKeeps
<1>3. QED
  BY <1>1, <1>2, ConnectedKeeps, LossKeeps, SendKeeps DEF Next

\* The variables keep their types: the queue its bound, the delays theirs, and
\* the reader is in Dispatch exactly while Spawn has its argument.
THEOREM TypeCorrect == Spec => []TypeOK
<1>1. ClockInv /\ StreamInv => TypeOK
  BY DEF ClockInv, StreamInv, TypeOK
<1>2. QED  BY <1>1, ClockInit, ClockStep, StreamInit, StreamStep, PTL DEF Spec

\* Every step of the client is one of the feed, or none.
LEMMA FeedStep == StreamInv /\ [Next]_vars => [Feed!Next]_<<due, call>>
<1> SUFFICES ASSUME StreamInv, [Next]_vars PROVE [Feed!Next]_<<due, call>>
  OBVIOUS
<1>1. CASE Dial \/ Connected \/ Wake \/ Stop \/ Tick \/ Cancel \/ UNCHANGED vars
  BY <1>1 DEF Dial, Connected, Wake, Stop, Tick, Cancel, vars, stream
<1>2. CASE ReadLine /\ ~Flush
  BY <1>2, LineKeeps
<1>3. CASE ReadLine /\ Flush
  <2>1. Feed!Handle
    BY <1>3, FlushKeeps DEF Feed!Handle
  <2>2. QED  BY <2>1 DEF Feed!Next
<1>4. CASE DispatchReturns
  <2>1. Feed!Return
    BY <1>4 DEF DispatchReturns, StreamInv, Feed!Return
  <2>2. QED  BY <2>1 DEF Feed!Next
<1>5. ASSUME NEW f \in Frames, Send(f) PROVE Feed!Send
  BY <1>5 DEF Send, Feed!Send
<1>6. CASE ConnectReturns
  <2>1. Feed!Break
    BY <1>6, LossKeeps DEF Feed!Break
  <2>2. QED  BY <2>1 DEF Feed!Next
<1>7. QED  BY <1>1, <1>2, <1>3, <1>4, <1>5, <1>6 DEF Next, Feed!Next

\* The client implements the feed: however frames are cut into lines, whatever
\* is between them and wherever a connection breaks, each frame that is read to
\* its end makes exactly the call it asks for, in order, once (parseStream,
\* handleMessage, Dispatch); what is lost is lost from some frame on.
THEOREM Refinement == Spec => ImplementsFeed
<1>1. Init => Feed!Init
  BY DEF Init, Feed!Init
<1>2. QED
  BY <1>1, FeedStep, StreamInit, StreamStep, PTL DEF Spec, ImplementsFeed, Feed!Spec
=============================================================================
