--------------------------- MODULE SequenceLemmas ---------------------------
(***************************************************************************)
(* What Head, Tail and Append do to the set of elements of a sequence, and *)
(* to a sequence without duplicates or with growing ids: the queue         *)
(* operations of the models.                                               *)
(***************************************************************************)
EXTENDS Sequences, Integers, Functions, TLAPS

(* The elements of a sequence are in the set it is a sequence over. *)
LEMMA RangeElements ==
  ASSUME NEW S, NEW s \in Seq(S)
  PROVE  Range(s) \subseteq S
  BY DEF Range

(* Append adds one element to the range. *)
LEMMA RangeAppend ==
  ASSUME NEW S, NEW s \in Seq(S), NEW e \in S
  PROVE  Range(Append(s, e)) = Range(s) \union {e}
<1>1. DOMAIN Append(s, e) = DOMAIN s \union {Len(s) + 1}
  OBVIOUS
<1>2. \A i \in DOMAIN s : Append(s, e)[i] = s[i]
  OBVIOUS
<1>3. Append(s, e)[Len(s) + 1] = e
  OBVIOUS
<1> QED
  BY <1>1, <1>2, <1>3 DEF Range

(* Head and Tail divide the range, with nothing left over. *)
LEMMA RangeHeadTail ==
  ASSUME NEW S, NEW s \in Seq(S), s # <<>>
  PROVE  /\ Head(s) \in Range(s)
         /\ Range(s) = {Head(s)} \union Range(Tail(s))
<1>1. Len(s) \in Nat \ {0} /\ DOMAIN s = 1 .. Len(s) /\ Head(s) = s[1]
  OBVIOUS
<1>2. DOMAIN Tail(s) = 1 .. Len(s) - 1 /\ \A i \in 1 .. Len(s) - 1 : Tail(s)[i] = s[i + 1]
  OBVIOUS
<1>3. Head(s) \in Range(s)
  BY <1>1 DEF Range
<1>4. Range(Tail(s)) \subseteq Range(s)
  BY <1>1, <1>2 DEF Range
<1>5. ASSUME NEW x \in Range(s) PROVE x \in {Head(s)} \union Range(Tail(s))
  <2>1. PICK i \in 1 .. Len(s) : x = s[i]
    BY <1>1 DEF Range
  <2>2. CASE i = 1
    BY <2>1, <2>2, <1>1
  <2>3. CASE i # 1
    <3>1. i - 1 \in 1 .. Len(s) - 1 /\ Tail(s)[i - 1] = s[i]
      BY <2>3, <1>1, <1>2
    <3> QED
      BY <3>1, <2>1, <1>2 DEF Range
  <2> QED
    BY <2>2, <2>3
<1> QED
  BY <1>3, <1>4, <1>5

(* The rest of an injective sequence is injective and lacks its head. *)
LEMMA InjectiveTail ==
  ASSUME NEW S, NEW s \in Seq(S), s # <<>>, IsInjective(s)
  PROVE  IsInjective(Tail(s)) /\ Head(s) \notin Range(Tail(s))
<1>1. Len(s) \in Nat \ {0} /\ DOMAIN s = 1 .. Len(s) /\ Head(s) = s[1]
  OBVIOUS
<1>2. DOMAIN Tail(s) = 1 .. Len(s) - 1 /\ \A i \in 1 .. Len(s) - 1 : Tail(s)[i] = s[i + 1]
  OBVIOUS
<1>3. \A i, j \in 1 .. Len(s) : s[i] = s[j] => i = j
  BY <1>1 DEF IsInjective
<1>4. IsInjective(Tail(s))
  <2> SUFFICES ASSUME NEW i \in 1 .. Len(s) - 1, NEW j \in 1 .. Len(s) - 1,
                      s[i + 1] = s[j + 1]
               PROVE  i = j
    BY <1>2 DEF IsInjective
  <2> QED
    BY <1>1, <1>3
<1>5. Head(s) \notin Range(Tail(s))
  <2> SUFFICES ASSUME NEW i \in 1 .. Len(s) - 1, s[i + 1] = s[1] PROVE FALSE
    BY <1>1, <1>2 DEF Range
  <2> QED
    BY <1>1, <1>3
<1> QED
  BY <1>4, <1>5

(* Appending a new element keeps a sequence injective. *)
LEMMA InjectiveAppend ==
  ASSUME NEW S, NEW s \in Seq(S), NEW e \in S, IsInjective(s), e \notin Range(s)
  PROVE  IsInjective(Append(s, e))
<1>1. DOMAIN Append(s, e) = DOMAIN s \union {Len(s) + 1}
  OBVIOUS
<1>2. \A i \in DOMAIN s : Append(s, e)[i] = s[i] /\ s[i] # e
  BY DEF Range
<1>3. Append(s, e)[Len(s) + 1] = e
  OBVIOUS
<1> QED
  BY <1>1, <1>2, <1>3 DEF IsInjective

------------------------------------------------------------------------------
(* Sequences of records, such as messages, whose ids grow *)

Ascending(s) == \A i, j \in DOMAIN s : i < j => s[i].id < s[j].id

(* Popping the head of an ascending sequence leaves an ascending one whose *)
(* ids are all larger.                                                     *)
LEMMA AscendingTail ==
  ASSUME NEW S, NEW s \in Seq(S), s # <<>>, Ascending(s)
  PROVE  Ascending(Tail(s)) /\ \A m \in Range(Tail(s)) : Head(s).id < m.id
<1>1. Len(s) \in Nat \ {0} /\ DOMAIN s = 1 .. Len(s) /\ Head(s) = s[1]
  OBVIOUS
<1>2. DOMAIN Tail(s) = 1 .. Len(s) - 1 /\ \A i \in 1 .. Len(s) - 1 : Tail(s)[i] = s[i + 1]
  OBVIOUS
<1>3. \A i, j \in 1 .. Len(s) : i < j => s[i].id < s[j].id
  BY <1>1 DEF Ascending
<1>4. Ascending(Tail(s))
  <2> SUFFICES ASSUME NEW i \in 1 .. Len(s) - 1, NEW j \in 1 .. Len(s) - 1, i < j
               PROVE  s[i + 1].id < s[j + 1].id
    BY <1>2 DEF Ascending
  <2> QED
    BY <1>1, <1>3
<1>5. \A i \in 1 .. Len(s) - 1 : s[1].id < s[i + 1].id
  BY <1>1, <1>3
<1> QED
  BY <1>1, <1>2, <1>4, <1>5 DEF Range

(* A record with the largest id keeps an ascending sequence ascending. *)
LEMMA AscendingAppend ==
  ASSUME NEW S, NEW s \in Seq(S), NEW e \in S, Ascending(s),
         \A m \in Range(s) : m.id < e.id
  PROVE  Ascending(Append(s, e))
<1>1. DOMAIN Append(s, e) = 1 .. Len(s) + 1 /\ Len(s) \in Nat /\ DOMAIN s = 1 .. Len(s)
  OBVIOUS
<1>2. \A i \in 1 .. Len(s) : Append(s, e)[i] = s[i]
  OBVIOUS
<1>3. Append(s, e)[Len(s) + 1] = e
  OBVIOUS
<1>4. \A i \in 1 .. Len(s) : s[i].id < e.id
  BY <1>1 DEF Range
<1> SUFFICES ASSUME NEW i \in 1 .. Len(s) + 1, NEW j \in 1 .. Len(s) + 1, i < j
             PROVE  Append(s, e)[i].id < Append(s, e)[j].id
  BY <1>1 DEF Ascending
<1>5. CASE j = Len(s) + 1
  BY <1>1, <1>2, <1>3, <1>4, <1>5
<1>6. CASE j # Len(s) + 1
  <2>1. i \in 1 .. Len(s) /\ j \in 1 .. Len(s)
    BY <1>1, <1>6
  <2> QED
    BY <2>1, <1>1, <1>2 DEF Ascending
<1> QED
  BY <1>5, <1>6
=============================================================================
