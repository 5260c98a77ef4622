--------------------------- MODULE SequenceRanges ---------------------------
(***************************************************************************)
(* Lemmas about the elements of sequences, for the queues and buffers of   *)
(* the proof modules.                                                      *)
(***************************************************************************)
EXTENDS Integers, Sequences, Functions, TLAPS

(* What the sequence operations do to the set of a sequence's elements.    *)
LEMMA RangeType ==
  ASSUME NEW S, NEW s \in Seq(S) PROVE Range(s) \subseteq S
BY DEF Range

LEMMA RangeEmpty == Range(<<>>) = {}
BY DEF Range

LEMMA RangeOne == ASSUME NEW x PROVE Range(<<x>>) = {x}
BY DEF Range

LEMMA RangeAppend ==
  ASSUME NEW S, NEW s \in Seq(S), NEW x \in S
  PROVE  /\ Append(s, x) \in Seq(S) \ {<<>>}
         /\ Range(Append(s, x)) = Range(s) \cup {x}
<1> DEFINE t == Append(s, x)
<1>1. /\ t \in Seq(S) /\ Len(t) = Len(s) + 1 /\ DOMAIN t = 1..(Len(s) + 1)
      /\ \A i \in 1..Len(s) : t[i] = s[i]
      /\ t[Len(s) + 1] = x
  OBVIOUS
<1>2. DOMAIN s = 1..Len(s) /\ Len(s) \in Nat
  OBVIOUS
<1>3. Range(t) = Range(s) \cup {x}
  BY <1>1, <1>2 DEF Range
<1> QED BY <1>1, <1>3

LEMMA RangeHeadTail ==
  ASSUME NEW S, NEW s \in Seq(S), s # <<>>
  PROVE  /\ Head(s) \in S /\ Tail(s) \in Seq(S)
         /\ Range(s) = {Head(s)} \cup Range(Tail(s))
<1>1. /\ Len(s) \in Nat \ {0} /\ DOMAIN s = 1..Len(s) /\ Head(s) = s[1]
      /\ Tail(s) \in Seq(S) /\ DOMAIN Tail(s) = 1..(Len(s) - 1)
      /\ \A i \in 1..(Len(s) - 1) : Tail(s)[i] = s[i + 1]
  OBVIOUS
<1>2. Range(Tail(s)) \subseteq Range(s)
  BY <1>1 DEF Range
<1>3. Head(s) \in Range(s) /\ Head(s) \in S
  BY <1>1 DEF Range
<1>4. ASSUME NEW x \in Range(s), x # Head(s) PROVE x \in Range(Tail(s))
  <2>1. PICK i \in 1..Len(s) : x = s[i] BY <1>1 DEF Range
  <2>2. i - 1 \in 1..(Len(s) - 1) /\ Tail(s)[i - 1] = s[i] BY <1>1, <1>4, <2>1
  <2> QED BY <1>1, <2>1, <2>2 DEF Range
<1> QED BY <1>1, <1>2, <1>3, <1>4

LEMMA RangeConcat ==
  ASSUME NEW S, NEW s \in Seq(S), NEW t \in Seq(S)
  PROVE  /\ s \o t \in Seq(S) /\ (s # <<>> => s \o t # <<>>)
         /\ Range(s \o t) = Range(s) \cup Range(t)
<1> DEFINE u == s \o t
           m == Len(s)
           n == Len(t)
<1>1. /\ u \in Seq(S) /\ m \in Nat /\ n \in Nat /\ Len(u) = m + n
      /\ DOMAIN u = 1..(m + n) /\ DOMAIN s = 1..m /\ DOMAIN t = 1..n
      /\ \A i \in 1..m : u[i] = s[i]
      /\ \A i \in 1..n : u[m + i] = t[i]
  OBVIOUS
<1>2. \A i \in 1..(m + n) : i \in 1..m \/ (i - m \in 1..n /\ u[i] = t[i - m])
  <2> SUFFICES ASSUME NEW i \in 1..(m + n), i \notin 1..m PROVE i - m \in 1..n /\ u[i] = t[i - m]
    OBVIOUS
  <2>1. i - m \in 1..n /\ m + (i - m) = i BY <1>1
  <2> QED BY <1>1, <2>1
<1>3. Range(u) \subseteq Range(s) \cup Range(t)
  BY <1>1, <1>2 DEF Range
<1>4. Range(s) \subseteq Range(u)
  <2>1. 1..m \subseteq 1..(m + n) BY <1>1
  <2> QED BY <1>1, <2>1 DEF Range
<1>5. Range(t) \subseteq Range(u)
  <2>1. \A i \in 1..n : m + i \in 1..(m + n) BY <1>1
  <2> QED BY <1>1, <2>1 DEF Range
<1>6. s # <<>> => u # <<>>
  BY <1>1
<1> HIDE DEF u
<1>7. Range(u) = Range(s) \cup Range(t)
  BY <1>3, <1>4, <1>5
<1> QED BY <1>1, <1>6, <1>7 DEF u
=============================================================================
