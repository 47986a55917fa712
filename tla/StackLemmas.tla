---------------------------- MODULE StackLemmas -----------------------------
(***************************************************************************)
(* The elements of sequences, for the proofs about the work lists of       *)
(* topoSort and of the type checker.                                       *)
(***************************************************************************)
EXTENDS Integers, Sequences, Functions, TLAPS

\* Sequences over part of a set are sequences over it.
LEMMA SequencesOfSubset ==
    ASSUME NEW S, NEW T \in SUBSET S
    PROVE  Seq(T) \subseteq Seq(S)
OBVIOUS

\* Appending adds one element.
LEMMA RangeOfAppend ==
    ASSUME NEW S, NEW s \in Seq(S), NEW e
    PROVE  Range(Append(s, e)) = Range(s) \cup {e}
<1>1. DOMAIN Append(s, e) = DOMAIN s \cup {Len(s) + 1}
  OBVIOUS
<1>2. \A i \in DOMAIN s : Append(s, e)[i] = s[i]
  OBVIOUS
<1>3. Append(s, e)[Len(s) + 1] = e
  OBVIOUS
<1>4. QED BY <1>1, <1>2, <1>3 DEF Range

\* Concatenating joins the elements.
LEMMA RangeOfConcatenation ==
    ASSUME NEW S, NEW s \in Seq(S), NEW t \in Seq(S)
    PROVE  Range(s \o t) = Range(s) \cup Range(t)
<1>1. ASSUME NEW x \in Range(s \o t) PROVE x \in Range(s) \cup Range(t)
  <2>1. PICK i \in 1..(Len(s) + Len(t)) : x = (s \o t)[i]
    BY DEF Range
  <2>2. CASE i <= Len(s)
    BY <2>1, <2>2 DEF Range
  <2>3. CASE i > Len(s)
    <3>1. i - Len(s) \in 1..Len(t) /\ x = t[i - Len(s)]
      BY <2>1, <2>3
    <3>2. QED BY <3>1 DEF Range
  <2>4. QED BY <2>2, <2>3
<1>2. ASSUME NEW i \in DOMAIN s PROVE s[i] \in Range(s \o t)
  <2>1. i \in DOMAIN (s \o t) /\ (s \o t)[i] = s[i]
    OBVIOUS
  <2>2. QED BY <2>1 DEF Range
<1>3. ASSUME NEW i \in DOMAIN t PROVE t[i] \in Range(s \o t)
  <2>1. Len(s) + i \in DOMAIN (s \o t) /\ (s \o t)[Len(s) + i] = t[i]
    OBVIOUS
  <2>2. QED BY <2>1 DEF Range
<1>4. QED BY <1>1, <1>2, <1>3 DEF Range

\* So does concatenating twice.
LEMMA RangeOfThree ==
    ASSUME NEW S, NEW r \in Seq(S), NEW s \in Seq(S), NEW t \in Seq(S)
    PROVE  /\ r \o s \o t \in Seq(S)
           /\ Range(r \o s \o t) = Range(r) \cup Range(s) \cup Range(t)
<1> DEFINE q == r \o s
<1>1. q \in Seq(S) /\ Range(q) = Range(r) \cup Range(s)
  BY RangeOfConcatenation
<1> HIDE DEF q
<1>2. q \o t \in Seq(S) /\ Range(q \o t) = Range(q) \cup Range(t)
  BY <1>1, RangeOfConcatenation
<1> QED BY <1>1, <1>2 DEF q

\* A stack is its top and the rest.
LEMMA RangeOfStack ==
    ASSUME NEW S, NEW s \in Seq(S), s # << >>
    PROVE  /\ s[Len(s)] \in S
           /\ SubSeq(s, 1, Len(s) - 1) \in Seq(S)
           /\ Range(s) = Range(SubSeq(s, 1, Len(s) - 1)) \cup {s[Len(s)]}
<1>1. Len(s) \in Nat /\ Len(s) >= 1
  OBVIOUS
<1> DEFINE rest == SubSeq(s, 1, Len(s) - 1)
<1>2. /\ rest \in Seq(S)
      /\ DOMAIN rest = 1..(Len(s) - 1)
      /\ \A i \in 1..(Len(s) - 1) : rest[i] = s[i]
  BY <1>1
<1>3. DOMAIN s = (1..(Len(s) - 1)) \cup {Len(s)}
  <2>1. DOMAIN s = 1..Len(s)
    OBVIOUS
  <2>2. \A n \in Nat : n >= 1 => 1..n = (1..(n - 1)) \cup {n}
    OBVIOUS
  <2>3. QED BY <1>1, <2>1, <2>2
<1>4. s[Len(s)] \in S
  BY <1>1
<1>5. Range(s) = Range(rest) \cup {s[Len(s)]}
  <2>1. Range(s) = {s[i] : i \in 1..(Len(s) - 1)} \cup {s[Len(s)]}
    BY ONLY <1>3 DEF Range
  <2>2. Range(rest) = {s[i] : i \in 1..(Len(s) - 1)}
    BY ONLY <1>2 DEF Range
  <2>3. QED BY ONLY <2>1, <2>2
<1>6. QED BY <1>2, <1>4, <1>5
=============================================================================
