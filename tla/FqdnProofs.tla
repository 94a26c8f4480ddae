------------------------------ MODULE FqdnProofs ------------------------------
(***************************************************************************)
(* normalize_and_validate_fqdn reads every text as the DNS name it stands  *)
(* for, and refuses exactly the texts that stand for none, whatever their  *)
(* length and the limits on labels and names.                              *)
(***************************************************************************)
EXTENDS Fqdn, SequenceTheorems, WellFoundedInduction, TLAPS

-----------------------------------------------------------------------------
(* Greatest and least numbers *)

LEMMA LeastOf ==
  ASSUME NEW T \in SUBSET Nat, T # {}
  PROVE  \E x \in T : \A y \in T : x <= y
<1> DEFINE R == OpToRel(<, Nat)
<1>1. IsWellFoundedOn(R, Nat)
  BY NatLessThanWellFounded
<1>2. \A x, y \in Nat : y < x => <<y, x>> \in R
  BY DEF OpToRel
<1> HIDE DEF R
<1>3. PICK x \in T : \A y \in T : ~ (<<y, x>> \in R)
  BY <1>1, WFMin
<1>4. ASSUME NEW y \in T  PROVE x <= y
  <2>1. x \in Nat /\ y \in Nat /\ ~(y < x)
    BY <1>2, <1>3
  <2> QED
    BY <2>1
<1> QED
  BY <1>4

LEMMA GreatestOf ==
  ASSUME NEW n \in Nat, NEW T \in SUBSET (0..n), T # {}
  PROVE  \E x \in T : \A y \in T : x >= y
<1> DEFINE U == {n - x : x \in T}
<1>1. U \in SUBSET Nat
  OBVIOUS
<1>a. U # {}
  OBVIOUS
<1>2. PICK u \in U : \A v \in U : u <= v
  BY <1>1, <1>a, LeastOf
<1>3. PICK x \in T : u = n - x
  BY <1>2
<1>4. \A y \in T : n - y \in U
  OBVIOUS
<1>5. \A y \in T : x >= y
  BY <1>2, <1>3, <1>4
<1> QED
  BY <1>5

LEMMA MaxProperties ==
  ASSUME NEW n \in Nat, NEW T \in SUBSET (0..n), T # {}
  PROVE  Max(T) \in T /\ \A y \in T : Max(T) >= y
<1>1. \E x \in T : \A y \in T : x >= y
  BY GreatestOf
<1> QED
  BY <1>1 DEF Max

LEMMA MinProperties ==
  ASSUME NEW T \in SUBSET Nat, T # {}
  PROVE  Min(T) \in T /\ \A y \in T : Min(T) <= y
<1>1. \E x \in T : \A y \in T : x <= y
  BY LeastOf
<1> QED
  BY <1>1 DEF Min

-----------------------------------------------------------------------------
(* Part of a text *)

LEMMA PartOf ==
  ASSUME NEW s \in Seq(Chars), NEW i \in 1..(Len(s) + 1), NEW j \in 0..Len(s), i <= j + 1
  PROVE  /\ SubSeq(s, i, j) \in Seq(Chars)
         /\ Len(SubSeq(s, i, j)) = j - i + 1
         /\ DOMAIN SubSeq(s, i, j) = 1..(j - i + 1)
         /\ \A k \in 1..(j - i + 1) : SubSeq(s, i, j)[k] = s[i + k - 1]
<1>1. Len(s) \in Nat /\ i \in Int /\ j \in Int
  BY LenProperties
<1>2. \A k \in i..j : s[k] \in Chars
  <2> TAKE k \in i..j
  <2>1. k \in 1..Len(s)
    BY <1>1
  <2> QED
    BY <2>1, ElementOfSeq
<1>3. /\ SubSeq(s, i, j) \in Seq(Chars)
      /\ Len(SubSeq(s, i, j)) = IF i <= j THEN j - i + 1 ELSE 0
      /\ \A k \in 1..(j - i + 1) : SubSeq(s, i, j)[k] = s[i + k - 1]
  BY <1>1, <1>2, SubSeqProperties
<1>4. Len(SubSeq(s, i, j)) = j - i + 1
  BY <1>1, <1>3
<1> QED
  BY <1>3, <1>4, LenProperties

LEMMA PrefixOf ==
  ASSUME NEW s \in Seq(Chars), NEW m \in 1..Len(s)
  PROVE  /\ SubSeq(s, 1, m) \in Seq(Chars)
         /\ Len(SubSeq(s, 1, m)) = m
         /\ \A k \in 1..m : SubSeq(s, 1, m)[k] = s[k]
<1> DEFINE one == 1
<1>1. Len(s) \in Nat
  BY LenProperties
<1>2. one \in 1..(Len(s) + 1) /\ m \in 0..Len(s) /\ one <= m + 1
  BY <1>1
<1>3. m - one + 1 = m /\ \A k \in Nat : one + k - 1 = k
  BY <1>1
<1> HIDE DEF one
<1>4. /\ SubSeq(s, one, m) \in Seq(Chars)
      /\ Len(SubSeq(s, one, m)) = m - one + 1
      /\ \A k \in 1..(m - one + 1) : SubSeq(s, one, m)[k] = s[one + k - 1]
  BY <1>2, PartOf
<1>5. \A k \in 1..m : k \in Nat
  BY <1>1
<1> QED
  BY <1>3, <1>4, <1>5 DEF one

LEMMA Between ==
  ASSUME NEW s \in Seq(Chars), NEW i \in 0..Len(s), NEW j \in 1..(Len(s) + 1), i < j
  PROVE  /\ Len(SubSeq(s, i + 1, j - 1)) = j - i - 1
         /\ DOMAIN SubSeq(s, i + 1, j - 1) = 1..(j - i - 1)
         /\ \A k \in 1..(j - i - 1) : SubSeq(s, i + 1, j - 1)[k] = s[i + k]
<1> DEFINE m == i + 1
           n == j - 1
<1>1. Len(s) \in Nat
  BY LenProperties
<1>2. m \in 1..(Len(s) + 1) /\ n \in 0..Len(s) /\ m <= n + 1
  BY <1>1
<1>3. n - m + 1 = j - i - 1 /\ \A k \in Nat : m + k - 1 = i + k
  BY <1>1
<1> HIDE DEF m, n
<1>4. /\ Len(SubSeq(s, m, n)) = n - m + 1
      /\ DOMAIN SubSeq(s, m, n) = 1..(n - m + 1)
      /\ \A k \in 1..(n - m + 1) : SubSeq(s, m, n)[k] = s[m + k - 1]
  BY <1>2, PartOf
<1>5. \A k \in 1..(n - m + 1) : k \in Nat
  BY <1>1, <1>2
<1> QED
  BY <1>3, <1>4, <1>5 DEF m, n

-----------------------------------------------------------------------------
(* IsFqdn, which looks at labels, is WellFormed, which looks at characters *)

Cuts(s) == {k \in DOMAIN s : s[k] = "."} \cup {0, Len(s) + 1}

\* The cuts i and j enclose a label.
LabelBetween(s, i, j) ==
  /\ \A k \in 1..Len(s) : (i < k /\ k < j) => s[k] \in LabelChars
  /\ j - i - 1 \in 1..LabelMax
  /\ s[i + 1] # "-" /\ s[j - 1] # "-"

\* Every character that is no dot lies in a label.
LEMMA LabelAround ==
  ASSUME NEW s \in Seq(Chars), IsFqdn(s), NEW p \in 1..Len(s), s[p] # "."
  PROVE  \E i, j \in Cuts(s) : i < p /\ p < j /\ LabelBetween(s, i, j)
<1> DEFINE before == {k \in Cuts(s) : k < p}
           after == {k \in Cuts(s) : p < k}
<1>1. DOMAIN s = 1..Len(s) /\ Len(s) \in Nat
  BY LenProperties
<1>2. before \in SUBSET (0..p) /\ 0 \in before /\ p \in Nat
  BY <1>1 DEF Cuts
<1>3. after \in SUBSET Nat /\ Len(s) + 1 \in after
  BY <1>1 DEF Cuts
<1>4. PICK i \in before : \A k \in before : i >= k
  <2>1. before # {}
    BY <1>2
  <2> QED
    BY <1>2, <2>1, GreatestOf
<1>5. PICK j \in after : \A k \in after : j <= k
  <2>1. after # {}
    BY <1>3
  <2> QED
    BY <1>3, <2>1, LeastOf
<1>6. i \in 0..Len(s) /\ j \in 1..(Len(s) + 1) /\ i < p /\ p < j /\ i \in Cuts(s) /\ j \in Cuts(s)
  BY <1>1, <1>4, <1>5 DEF Cuts
<1>7. \A k \in Cuts(s) : k <= i \/ j <= k
  <2> TAKE k \in Cuts(s)
  <2>1. k # p /\ k \in Nat
    BY <1>1 DEF Cuts
  <2> QED
    BY <1>1, <1>4, <1>5, <1>6, <2>1
<1> DEFINE label == SubSeq(s, i + 1, j - 1)
<1>8. IsLabel(label)
  BY <1>6, <1>7 DEF IsFqdn, Cuts
<1>9. /\ Len(label) = j - i - 1 /\ DOMAIN label = 1..(j - i - 1)
      /\ \A k \in 1..(j - i - 1) : label[k] = s[i + k]
  BY <1>1, <1>6, Between
<1> HIDE DEF label
<1>10. j - i - 1 \in 1..LabelMax /\ label[1] # "-" /\ label[j - i - 1] # "-"
       /\ \A k \in 1..(j - i - 1) : label[k] \in LabelChars
  BY <1>8, <1>9 DEF IsLabel
<1>11. s[i + 1] # "-" /\ s[j - 1] # "-"
  <2>1. 1 \in 1..(j - i - 1) /\ j - i - 1 \in 1..(j - i - 1) /\ i + (j - i - 1) = j - 1
    BY <1>6, <1>10, LengthsAssumption
  <2> QED
    BY <1>9, <1>10, <2>1
<1>12. ASSUME NEW k \in 1..Len(s), i < k, k < j
       PROVE  s[k] \in LabelChars
  <2>1. k - i \in 1..(j - i - 1) /\ i + (k - i) = k
    BY <1>1, <1>6, <1>12
  <2> QED
    BY <1>9, <1>10, <2>1
<1> QED
  BY <1>6, <1>10, <1>11, <1>12 DEF LabelBetween

\* A dot has a neighbour on either side, and neither is a dot.
LEMMA DotsStandAlone ==
  ASSUME NEW s \in Seq(Chars), IsFqdn(s), NEW p \in 0..Len(s), p = 0 \/ s[p] = "."
  PROVE  p < Len(s) /\ s[p + 1] # "."
<1> DEFINE cuts == {k \in DOMAIN s : s[k] = "."} \cup {0, Len(s) + 1}
<1>1. DOMAIN s = 1..Len(s) /\ Len(s) \in Nat
  BY LenProperties
<1>2. SUFFICES ASSUME p + 1 \in cuts
               PROVE  FALSE
  BY <1>1
<1>3. p \in cuts /\ \A k \in cuts : k <= p \/ p + 1 <= k
  BY <1>1
<1>4. IsLabel(SubSeq(s, p + 1, p))
  <2>1. p < p + 1 /\ (p + 1) - 1 = p
    OBVIOUS
  <2> QED
    BY <1>2, <1>3, <2>1 DEF IsFqdn
<1>5. SubSeq(s, p + 1, p) = <<>>
  BY SubSeqEmpty
<1> QED
  BY <1>4, <1>5, EmptySeq, LengthsAssumption DEF IsLabel

LEMMA FqdnIsWellFormed ==
  ASSUME NEW s \in Seq(Chars), IsFqdn(s)
  PROVE  WellFormed(s)
<1>1. DOMAIN s = 1..Len(s) /\ Len(s) \in Nat /\ Len(s) \in 1..NameMax
  BY LenProperties DEF IsFqdn
<1>2. \A i \in 1..Len(s) : s[i] \in LabelChars \cup {"."}
  <2> SUFFICES ASSUME NEW p \in 1..Len(s), s[p] # "."
               PROVE  s[p] \in LabelChars
    OBVIOUS
  <2> QED
    BY LabelAround DEF LabelBetween
<1>3. s[1] = "a"
  <2>1. 1 \in 1..Len(s) /\ s[1] # "."
    BY <1>1, DotsStandAlone
  <2>2. PICK i, j \in Cuts(s) : i < 1 /\ 1 < j /\ LabelBetween(s, i, j)
    BY <2>1, LabelAround
  <2>3. i = 0
    BY <1>1, <2>2 DEF Cuts
  <2> QED
    BY <1>2, <2>1, <2>2, <2>3 DEF LabelChars, LabelBetween
<1>4. s[Len(s)] = "a"
  <2>1. Len(s) \in 1..Len(s) /\ s[Len(s)] # "."
    BY <1>1, DotsStandAlone
  <2>2. PICK i, j \in Cuts(s) : i < Len(s) /\ Len(s) < j /\ LabelBetween(s, i, j)
    BY <2>1, LabelAround
  <2>3. j - 1 = Len(s)
    BY <1>1, <2>2 DEF Cuts
  <2> QED
    BY <1>2, <2>1, <2>2, <2>3 DEF LabelChars, LabelBetween
<1>5. ASSUME NEW i \in 1..(Len(s) - 1)
      PROVE  s[i] = "a" \/ s[i + 1] = "a" \/ (s[i] = "-" /\ s[i + 1] = "-")
  <2>0. i \in 1..Len(s) /\ i + 1 \in 1..Len(s)
    BY <1>1
  <2>1. CASE s[i] = "."
    <3>1. s[i + 1] # "."
      BY <2>0, <2>1, DotsStandAlone
    <3>2. PICK k, j \in Cuts(s) : k < i + 1 /\ i + 1 < j /\ LabelBetween(s, k, j)
      BY <2>0, <3>1, LabelAround
    <3>3. k = i
      BY <1>1, <2>0, <2>1, <3>2 DEF LabelBetween, Cuts, LabelChars
    <3> QED
      BY <1>2, <2>0, <3>1, <3>2, <3>3 DEF LabelChars, LabelBetween
  <2>2. CASE s[i + 1] = "." /\ s[i] # "."
    <3>1. PICK k, j \in Cuts(s) : k < i /\ i < j /\ LabelBetween(s, k, j)
      BY <2>0, <2>2, LabelAround
    <3>2. j - 1 = i
      BY <1>1, <2>0, <2>2, <3>1 DEF LabelBetween, Cuts, LabelChars
    <3> QED
      BY <1>2, <2>0, <2>2, <3>1, <3>2 DEF LabelChars, LabelBetween
  <2>3. CASE s[i] # "." /\ s[i + 1] # "."
    BY <1>2, <2>0, <2>3 DEF LabelChars
  <2> QED
    BY <2>1, <2>2, <2>3
<1>6. ASSUME NEW i \in 1..(Len(s) - LabelMax), \A j \in i..(i + LabelMax) : s[j] # "."
      PROVE  FALSE
  <2>1. i \in 1..Len(s) /\ i + LabelMax <= Len(s) /\ i \in i..(i + LabelMax)
    BY <1>1, LengthsAssumption
  <2>2. PICK k, j \in Cuts(s) : k < i /\ i < j /\ LabelBetween(s, k, j)
    BY <1>6, <2>1, LabelAround
  <2>3. k \in 0..Len(s) /\ j \in 1..(Len(s) + 1) /\ (j <= Len(s) => s[j] = ".")
    BY <1>1, <2>1, <2>2 DEF Cuts
  <2>4. j > i + LabelMax
    BY <1>1, <1>6, <2>1, <2>2, <2>3, LengthsAssumption
  <2> QED
    BY <1>1, <2>1, <2>2, <2>3, <2>4, LengthsAssumption DEF LabelBetween
<1>7. \E i \in DOMAIN s : s[i] = "."
  BY DEF IsFqdn
<1> QED
  BY <1>1, <1>2, <1>3, <1>4, <1>5, <1>6, <1>7 DEF WellFormed

LEMMA WellFormedIsFqdn ==
  ASSUME NEW s \in Seq(Chars), WellFormed(s)
  PROVE  IsFqdn(s)
<1> DEFINE dots == {i \in DOMAIN s : s[i] = "."}
           cuts == dots \cup {0, Len(s) + 1}
<1>1. DOMAIN s = 1..Len(s) /\ Len(s) \in Nat /\ Len(s) \in 1..NameMax
  BY LenProperties DEF WellFormed
<1>2. dots # {}
  BY DEF WellFormed
<1>3. ASSUME NEW i \in cuts, NEW j \in cuts, i < j, \A k \in cuts : k <= i \/ j <= k
      PROVE  IsLabel(SubSeq(s, i + 1, j - 1))
  <2>1. i \in 0..Len(s) /\ j \in 1..(Len(s) + 1)
    BY <1>1, <1>3
  <2>2. s[1] = "a" /\ s[Len(s)] = "a"
    BY <1>1 DEF WellFormed
  <2>3. i \in 1..Len(s) => s[i] = "."
    BY <1>1
  <2>4. j \in 1..Len(s) => s[j] = "."
    BY <1>1
  <2>5. i < Len(s) /\ s[i + 1] = "a"
    <3>1. CASE i = 0
      BY <1>1, <2>2, <3>1
    <3>2. CASE i # 0
      <4>1. i \in 1..(Len(s) - 1)
        BY <1>1, <2>1, <2>2, <2>3, <3>2
      <4> QED
        BY <2>3, <4>1, <1>1 DEF WellFormed
    <3> QED
      BY <3>1, <3>2
  <2>6. j > 1 /\ s[j - 1] = "a"
    <3>1. CASE j = Len(s) + 1
      BY <1>1, <2>2, <3>1
    <3>2. CASE j # Len(s) + 1
      <4>1. j - 1 \in 1..(Len(s) - 1) /\ (j - 1) + 1 = j
        BY <1>1, <2>1, <2>2, <2>4, <3>2
      <4>2. s[j - 1] = "a" \/ s[(j - 1) + 1] = "a" \/ (s[j - 1] = "-" /\ s[(j - 1) + 1] = "-")
        BY <4>1 DEF WellFormed
      <4> QED
        BY <1>1, <2>1, <2>4, <3>2, <4>1, <4>2
    <3> QED
      BY <3>1, <3>2
  <2>7. i + 1 # j
    BY <1>1, <2>1, <2>3, <2>4, <2>5, <2>6
  <2>8. \A k \in (i + 1)..(j - 1) : k \in 1..Len(s) /\ s[k] # "."
    BY <1>1, <1>3, <2>1
  <2>9. \A k \in (i + 1)..(j - 1) : s[k] \in LabelChars
    BY <1>1, <2>8 DEF WellFormed
  <2>10. j - i - 1 <= LabelMax
    <3> SUFFICES ASSUME j - i - 1 > LabelMax
                 PROVE  FALSE
      BY <1>1, <2>1, LengthsAssumption
    <3>1. i + 1 \in 1..(Len(s) - LabelMax)
      BY <1>1, <2>1, LengthsAssumption
    <3>2. PICK k \in (i + 1)..((i + 1) + LabelMax) : s[k] = "."
      BY <3>1 DEF WellFormed
    <3>3. k \in (i + 1)..(j - 1)
      BY <2>1, <3>2, LengthsAssumption
    <3> QED
      BY <2>8, <3>2, <3>3
  <2> DEFINE label == SubSeq(s, i + 1, j - 1)
  <2>12. /\ Len(label) = j - i - 1 /\ DOMAIN label = 1..(j - i - 1)
         /\ \A k \in 1..(j - i - 1) : label[k] = s[i + k]
    BY <1>1, <1>3, <2>1, Between
  <2> HIDE DEF label
  <2>14. Len(label) \in 1..LabelMax
    BY <1>3, <2>1, <2>7, <2>10, <2>12, LengthsAssumption
  <2>15. label[1] = "a"
    BY <2>1, <2>5, <2>12, <2>14
  <2>16. label[Len(label)] = "a"
    <3>1. Len(label) \in 1..(j - i - 1) /\ i + Len(label) = j - 1
      BY <1>1, <1>3, <2>1, <2>12, <2>14
    <3> QED
      BY <2>6, <2>12, <3>1
  <2>17. \A k \in DOMAIN label : label[k] \in LabelChars
    <3> TAKE k \in DOMAIN label
    <3>1. i + k \in (i + 1)..(j - 1)
      BY <2>1, <2>12
    <3> QED
      BY <2>9, <2>12, <3>1
  <2> QED
    BY <2>14, <2>15, <2>16, <2>17 DEF IsLabel, label
<1> QED
  BY <1>1, <1>2, <1>3 DEF IsFqdn

-----------------------------------------------------------------------------
(* Normalize takes blanks and dots off, and Meaning reads what is left *)

LEMMA LowerProperties ==
  ASSUME NEW s \in Seq(Chars)
  PROVE  /\ Lower(s) \in Seq(Chars)
         /\ Len(Lower(s)) = Len(s)
         /\ \A k \in 1..Len(s) : Lower(s)[k] = IF s[k] = "A" THEN "a" ELSE s[k]
<1>1. Len(s) \in Nat /\ DOMAIN s = 1..Len(s) /\ s \in [1..Len(s) -> Chars]
  BY LenProperties
<1>2. Lower(s) \in [1..Len(s) -> Chars]
  BY <1>1 DEF Lower, Chars
<1>3. Lower(s) \in Seq(Chars)
  BY <1>1, <1>2, SeqDef
<1>4. Len(Lower(s)) \in Nat /\ DOMAIN Lower(s) = 1..Len(Lower(s))
  BY <1>3, LenProperties
<1>5. Len(Lower(s)) = Len(s)
  <2> DEFINE n == Len(Lower(s))
             m == Len(s)
  <2>1. 1..n = 1..m /\ n \in Nat /\ m \in Nat
    BY <1>1, <1>2, <1>4
  <2> HIDE DEF n, m
  <2>2. (n \in 1..n <=> n \in 1..m) /\ (m \in 1..n <=> m \in 1..m)
    BY <2>1
  <2>3. n = m
    BY <2>1, <2>2
  <2> QED
    BY <2>3 DEF n, m
<1> QED
  BY <1>1, <1>3, <1>5 DEF Lower

LEMMA StripRightProperties ==
  ASSUME NEW s \in Seq(Chars), NEW c
  PROVE  \/ StripRight(s, c) = <<>> /\ \A k \in 1..Len(s) : s[k] = c
         \/ \E m \in 1..Len(s) :
              /\ s[m] # c /\ \A k \in 1..Len(s) : m < k => s[k] = c
              /\ StripRight(s, c) = SubSeq(s, 1, m)
<1> DEFINE kept == {i \in DOMAIN s : s[i] # c}
<1>1. Len(s) \in Nat /\ DOMAIN s = 1..Len(s)
  BY LenProperties
<1>2. CASE kept = {}
  BY <1>1, <1>2 DEF StripRight
<1>3. CASE kept # {}
  <2>1. kept \in SUBSET (0..Len(s))
    BY <1>1
  <2>2. Max(kept) \in kept /\ \A k \in kept : Max(kept) >= k
    BY <1>1, <1>3, <2>1, MaxProperties
  <2>3. StripRight(s, c) = SubSeq(s, 1, Max(kept))
    BY <1>3 DEF StripRight
  <2> DEFINE m == Max(kept)
  <2> HIDE DEF m
  <2>4. m \in 1..Len(s) /\ s[m] # c /\ StripRight(s, c) = SubSeq(s, 1, m)
    BY <1>1, <2>2, <2>3 DEF m
  <2>5. ASSUME NEW k \in 1..Len(s), m < k
        PROVE  s[k] = c
    BY <1>1, <2>2, <2>4, <2>5 DEF m
  <2> QED
    BY <2>4, <2>5
<1> QED
  BY <1>2, <1>3

LEMMA StripLeftProperties ==
  ASSUME NEW s \in Seq(Chars), NEW c
  PROVE  \/ StripLeft(s, c) = <<>> /\ \A k \in 1..Len(s) : s[k] = c
         \/ \E m \in 1..Len(s) :
              /\ s[m] # c /\ \A k \in 1..Len(s) : k < m => s[k] = c
              /\ StripLeft(s, c) = SubSeq(s, m, Len(s))
<1> DEFINE kept == {i \in DOMAIN s : s[i] # c}
<1>1. Len(s) \in Nat /\ DOMAIN s = 1..Len(s)
  BY LenProperties
<1>2. CASE kept = {}
  BY <1>1, <1>2 DEF StripLeft
<1>3. CASE kept # {}
  <2>1. kept \in SUBSET Nat
    BY <1>1
  <2>2. Min(kept) \in kept /\ \A k \in kept : Min(kept) <= k
    BY <1>3, <2>1, MinProperties
  <2>3. StripLeft(s, c) = SubSeq(s, Min(kept), Len(s))
    BY <1>3 DEF StripLeft
  <2> DEFINE m == Min(kept)
  <2> HIDE DEF m
  <2>4. m \in 1..Len(s) /\ s[m] # c /\ StripLeft(s, c) = SubSeq(s, m, Len(s))
    BY <1>1, <2>2, <2>3 DEF m
  <2>5. ASSUME NEW k \in 1..Len(s), k < m
        PROVE  s[k] = c
    BY <1>1, <2>2, <2>4, <2>5 DEF m
  <2> QED
    BY <2>4, <2>5
<1> QED
  BY <1>2, <1>3

LEMMA StripNothing ==
  ASSUME NEW c, NEW s, s = <<>>
  PROVE  StripRight(s, c) = <<>> /\ StripLeft(s, c) = <<>> /\ Lower(s) = <<>>
<1>1. s \in Seq(Chars) /\ Len(s) = 0
  BY EmptySeq
<1>2. Lower(s) = <<>>
  <2>1. Lower(s) \in Seq(Chars) /\ Len(Lower(s)) = 0
    BY <1>1, LowerProperties
  <2> QED
    BY <2>1, EmptySeq
<1>3. \A m \in 1..Len(s) : FALSE
  BY <1>1
<1>4. StripRight(s, c) = <<>>
  BY <1>1, <1>3, StripRightProperties
<1>5. StripLeft(s, c) = <<>>
  BY <1>1, <1>3, StripLeftProperties
<1> QED
  BY <1>2, <1>4, <1>5

\* Blanks before i, dots after j up to e, and blanks after e.
Window(raw, i, j, e) ==
  /\ i \in 1..Len(raw) /\ j \in 1..Len(raw) /\ e \in 1..Len(raw)
  /\ i <= j /\ j <= e
  /\ \A k \in 1..Len(raw) : /\ k < i => raw[k] = " "
                            /\ (j < k /\ k <= e) => raw[k] = "."
                            /\ e < k => raw[k] = " "

\* What is left when the blanks around a text are off.
LEMMA BlanksOff ==
  ASSUME NEW raw \in Seq(Chars)
  PROVE  \/ /\ StripLeft(StripRight(raw, " "), " ") = <<>>
            /\ \A k \in 1..Len(raw) : raw[k] = " "
         \/ \E i, e \in 1..Len(raw) :
              /\ i <= e /\ raw[i] # " " /\ raw[e] # " "
              /\ \A k \in 1..Len(raw) : (k < i \/ e < k) => raw[k] = " "
              /\ StripLeft(StripRight(raw, " "), " ") = SubSeq(raw, i, e)
<1> DEFINE right == StripRight(raw, " ")
<1>0. Len(raw) \in Nat
  BY LenProperties
<1>1. \/ right = <<>> /\ \A k \in 1..Len(raw) : raw[k] = " "
      \/ \E e \in 1..Len(raw) : /\ raw[e] # " " /\ \A k \in 1..Len(raw) : e < k => raw[k] = " "
                                /\ right = SubSeq(raw, 1, e)
  BY StripRightProperties
<1> HIDE DEF right
<1>2. CASE right = <<>> /\ \A k \in 1..Len(raw) : raw[k] = " "
  BY <1>2, StripNothing DEF right
<1>3. ASSUME NEW e \in 1..Len(raw), raw[e] # " ", right = SubSeq(raw, 1, e),
             \A k \in 1..Len(raw) : e < k => raw[k] = " "
      PROVE  \E i \in 1..Len(raw) :
               /\ i <= e /\ raw[i] # " " /\ raw[e] # " "
               /\ \A k \in 1..Len(raw) : (k < i \/ e < k) => raw[k] = " "
               /\ StripLeft(right, " ") = SubSeq(raw, i, e)
  <2>1. right \in Seq(Chars) /\ Len(right) = e /\ \A k \in 1..e : right[k] = raw[k]
    BY <1>3, PrefixOf
  <2>2. e \in 1..Len(right) /\ right[e] # " "
    <3>1. e \in 1..e
      BY <1>0
    <3> QED
      BY <1>3, <2>1, <3>1
  <2>3. \E i \in 1..Len(right) :
          /\ right[i] # " " /\ \A k \in 1..Len(right) : k < i => right[k] = " "
          /\ StripLeft(right, " ") = SubSeq(right, i, Len(right))
    BY <2>1, <2>2, StripLeftProperties
  <2>4. PICK i \in 1..e : /\ right[i] # " " /\ \A k \in 1..e : k < i => right[k] = " "
                          /\ StripLeft(right, " ") = SubSeq(right, i, e)
    BY <2>1, <2>3
  <2>5. i \in 1..Len(raw) /\ i <= e /\ i \in Nat /\ e \in Nat
    BY <1>0
  <2>6. raw[i] # " "
    BY <2>1, <2>4
  <2>7. ASSUME NEW k \in 1..Len(raw), k < i
        PROVE  raw[k] = " "
    <3>1. k \in 1..e
      BY <1>0, <2>5, <2>7
    <3> QED
      BY <2>1, <2>4, <2>7, <3>1
  <2>8. SubSeq(right, i, e) = SubSeq(raw, i, e)
    <3>1. i \in 1..(Len(right) + 1) /\ e \in 0..Len(right) /\ i <= e + 1
      BY <2>1, <2>5
    <3>2. /\ SubSeq(right, i, e) \in Seq(Chars) /\ Len(SubSeq(right, i, e)) = e - i + 1
          /\ \A k \in 1..(e - i + 1) : SubSeq(right, i, e)[k] = right[i + k - 1]
      BY <2>1, <3>1, PartOf
    <3>3. i \in 1..(Len(raw) + 1) /\ e \in 0..Len(raw)
      BY <1>0, <2>5
    <3>4. /\ SubSeq(raw, i, e) \in Seq(Chars) /\ Len(SubSeq(raw, i, e)) = e - i + 1
          /\ \A k \in 1..(e - i + 1) : SubSeq(raw, i, e)[k] = raw[i + k - 1]
      BY <3>1, <3>3, PartOf
    <3>5. \A k \in 1..(e - i + 1) : i + k - 1 \in 1..e
      BY <2>5
    <3> QED
      BY <2>1, <3>2, <3>4, <3>5, SeqEqual
  <2> QED
    BY <1>3, <2>4, <2>5, <2>6, <2>7, <2>8
<1> QED
  BY <1>1, <1>2, <1>3 DEF right

\* What is left when the dots at the end of its lower case are off, too.
LEMMA DotsOff ==
  ASSUME NEW raw \in Seq(Chars), NEW i \in 1..Len(raw), NEW e \in 1..Len(raw), i <= e
  PROVE  \/ /\ StripRight(Lower(SubSeq(raw, i, e)), ".") = <<>>
            /\ \A k \in i..e : raw[k] = "."
         \/ \E j \in i..e :
              /\ raw[j] # "." /\ \A k \in (j + 1)..e : raw[k] = "."
              /\ StripRight(Lower(SubSeq(raw, i, e)), ".") = Lower(SubSeq(raw, i, j))
<1> DEFINE part(j) == SubSeq(raw, i, j)
           low == Lower(part(e))
           size == e - i + 1
<1>0. Len(raw) \in Nat /\ i \in Nat /\ e \in Nat /\ size \in Nat
  BY LenProperties
<1>1. ASSUME NEW j \in i..e
      PROVE  /\ part(j) \in Seq(Chars) /\ Len(part(j)) = j - i + 1
             /\ \A k \in 1..(j - i + 1) : part(j)[k] = raw[i + k - 1]
  <2>1. i \in 1..(Len(raw) + 1) /\ j \in 0..Len(raw) /\ i <= j + 1
    BY <1>0
  <2> QED
    BY <2>1, PartOf
<1> HIDE DEF part
<1>2. ASSUME NEW j \in i..e
      PROVE  /\ Lower(part(j)) \in Seq(Chars) /\ Len(Lower(part(j))) = j - i + 1
             /\ \A k \in 1..(j - i + 1) : Lower(part(j))[k] = IF raw[i + k - 1] = "A" THEN "a" ELSE raw[i + k - 1]
  <2>1. /\ Lower(part(j)) \in Seq(Chars) /\ Len(Lower(part(j))) = Len(part(j))
        /\ \A k \in 1..Len(part(j)) : Lower(part(j))[k] = IF part(j)[k] = "A" THEN "a" ELSE part(j)[k]
    BY <1>1, LowerProperties
  <2> QED
    BY <1>1, <2>1
<1>3. e \in i..e
  BY <1>0
<1>4. /\ low \in Seq(Chars) /\ Len(low) = size
      /\ \A k \in 1..size : low[k] = IF raw[i + k - 1] = "A" THEN "a" ELSE raw[i + k - 1]
  BY <1>2, <1>3
<1> HIDE DEF low
<1>5. \/ StripRight(low, ".") = <<>> /\ \A k \in 1..size : low[k] = "."
      \/ \E n \in 1..size : /\ low[n] # "." /\ \A k \in 1..size : n < k => low[k] = "."
                            /\ StripRight(low, ".") = SubSeq(low, 1, n)
  <2>1. \/ StripRight(low, ".") = <<>> /\ \A k \in 1..Len(low) : low[k] = "."
        \/ \E n \in 1..Len(low) : /\ low[n] # "." /\ \A k \in 1..Len(low) : n < k => low[k] = "."
                              /\ StripRight(low, ".") = SubSeq(low, 1, n)
    BY <1>4, StripRightProperties
  <2> QED
    BY <1>4, <2>1
<1>6. ASSUME NEW k \in i..e
      PROVE  k - i + 1 \in 1..size /\ low[k - i + 1] = IF raw[k] = "A" THEN "a" ELSE raw[k]
  <2>1. k - i + 1 \in 1..size /\ i + (k - i + 1) - 1 = k
    BY <1>0
  <2> QED
    BY <1>4, <2>1
<1>7. CASE StripRight(low, ".") = <<>> /\ \A k \in 1..size : low[k] = "."
  <2>1. ASSUME NEW k \in i..e
        PROVE  raw[k] = "."
    <3>1. low[k - i + 1] = "."
      BY <1>6, <1>7
    <3> QED
      BY <1>6, <3>1
  <2> QED
    BY <1>7, <2>1 DEF low, part
<1>8. ASSUME NEW n \in 1..size, low[n] # ".", \A k \in 1..size : n < k => low[k] = ".",
             StripRight(low, ".") = SubSeq(low, 1, n)
      PROVE  \E j \in i..e :
               /\ raw[j] # "." /\ \A k \in (j + 1)..e : raw[k] = "."
               /\ StripRight(low, ".") = Lower(part(j))
  <2> DEFINE j == i + n - 1
  <2>1. j \in i..e /\ j - i + 1 = n /\ j \in Nat
    BY <1>0
  <2> HIDE DEF j
  <2>2. raw[j] # "."
    <3>1. low[n] = IF raw[j] = "A" THEN "a" ELSE raw[j]
      BY <1>6, <2>1
    <3> QED
      BY <1>8, <3>1
  <2>3. ASSUME NEW k \in (j + 1)..e
        PROVE  raw[k] = "."
    <3>1. k \in i..e /\ n < k - i + 1
      BY <1>0, <2>1
    <3>2. low[k - i + 1] = "."
      BY <1>6, <1>8, <3>1
    <3> QED
      BY <1>6, <3>1, <3>2
  <2>4. /\ SubSeq(low, 1, n) \in Seq(Chars) /\ Len(SubSeq(low, 1, n)) = n
        /\ \A k \in 1..n : SubSeq(low, 1, n)[k] = low[k]
    BY <1>4, PrefixOf
  <2>5. /\ Lower(part(j)) \in Seq(Chars) /\ Len(Lower(part(j))) = n
        /\ \A k \in 1..n : Lower(part(j))[k] = IF raw[i + k - 1] = "A" THEN "a" ELSE raw[i + k - 1]
    BY <1>2, <2>1
  <2>6. \A k \in 1..n : k \in 1..size
    BY <1>0
  <2>7. SubSeq(low, 1, n) = Lower(part(j))
    <3>1. \A k \in 1..n : SubSeq(low, 1, n)[k] = Lower(part(j))[k]
      BY <1>4, <2>4, <2>5, <2>6
    <3> QED
      BY <2>4, <2>5, <3>1, SeqEqual
  <2> QED
    BY <1>8, <2>1, <2>2, <2>3, <2>7
<1> QED
  BY <1>5, <1>7, <1>8 DEF low, part

\* Nothing more can come off at either end.
Tight(raw, i, j, e) == Window(raw, i, j, e) /\ raw[i] # " " /\ raw[j] # "." /\ raw[e] # " "

LEMMA NormalizeProperties ==
  ASSUME NEW raw \in Seq(Chars)
  PROVE  \/ Normalize(raw) = <<>> /\ \A k \in 1..Len(raw) : raw[k] \in {" ", "."}
         \/ \E i, j, e \in 1..Len(raw) :
              /\ Window(raw, i, j, e) /\ raw[i] # " " /\ raw[j] # "." /\ raw[e] # " "
              /\ Normalize(raw) = Lower(SubSeq(raw, i, j))
<1> DEFINE both == StripLeft(StripRight(raw, " "), " ")
<1>0. Len(raw) \in Nat /\ Normalize(raw) = StripRight(Lower(both), ".")
  BY LenProperties DEF Normalize
<1> HIDE DEF both
<1>1. CASE both = <<>> /\ \A k \in 1..Len(raw) : raw[k] = " "
  <2>1. Lower(both) = <<>>
    BY <1>1, StripNothing
  <2>2. Normalize(raw) = <<>>
    BY <1>0, <2>1, StripNothing
  <2> QED
    BY <1>1, <2>2
<1>2. ASSUME NEW i \in 1..Len(raw), NEW e \in 1..Len(raw),
             i <= e, raw[i] # " ", raw[e] # " ",
             \A k \in 1..Len(raw) : (k < i \/ e < k) => raw[k] = " ",
             both = SubSeq(raw, i, e)
      PROVE  \/ Normalize(raw) = <<>> /\ \A k \in 1..Len(raw) : raw[k] \in {" ", "."}
             \/ \E j \in 1..Len(raw) :
                  /\ Window(raw, i, j, e) /\ raw[j] # "."
                  /\ Normalize(raw) = Lower(SubSeq(raw, i, j))
  <2>1. \/ Normalize(raw) = <<>> /\ \A k \in i..e : raw[k] = "."
        \/ \E j \in i..e : /\ raw[j] # "." /\ \A k \in (j + 1)..e : raw[k] = "."
                           /\ Normalize(raw) = Lower(SubSeq(raw, i, j))
    <3>1. \/ /\ StripRight(Lower(SubSeq(raw, i, e)), ".") = <<>>
             /\ \A k \in i..e : raw[k] = "."
          \/ \E j \in i..e :
               /\ raw[j] # "." /\ \A k \in (j + 1)..e : raw[k] = "."
               /\ StripRight(Lower(SubSeq(raw, i, e)), ".") = Lower(SubSeq(raw, i, j))
      BY <1>2, DotsOff
    <3>2. Normalize(raw) = StripRight(Lower(SubSeq(raw, i, e)), ".")
      BY <1>0, <1>2
    <3> QED
      BY <3>1, <3>2
  <2>2. CASE Normalize(raw) = <<>> /\ \A k \in i..e : raw[k] = "."
    <3>1. \A k \in 1..Len(raw) : k \in i..e \/ k < i \/ e < k
      BY <1>0
    <3> QED
      BY <1>2, <2>2, <3>1
  <2>3. ASSUME NEW j \in i..e, raw[j] # ".", \A k \in (j + 1)..e : raw[k] = "."
        PROVE  j \in 1..Len(raw) /\ Window(raw, i, j, e)
    <3>1. j \in 1..Len(raw) /\ i <= j /\ j <= e
      BY <1>0
    <3>2. \A k \in 1..Len(raw) : (j < k /\ k <= e) => k \in (j + 1)..e
      BY <1>0, <3>1
    <3> QED
      BY <1>2, <2>3, <3>1, <3>2 DEF Window
  <2> QED
    BY <2>1, <2>2, <2>3
<1>3. \/ both = <<>> /\ \A k \in 1..Len(raw) : raw[k] = " "
      \/ \E i, e \in 1..Len(raw) :
           /\ i <= e /\ raw[i] # " " /\ raw[e] # " "
           /\ \A k \in 1..Len(raw) : (k < i \/ e < k) => raw[k] = " "
           /\ both = SubSeq(raw, i, e)
  BY BlanksOff DEF both
<1> QED
  BY <1>1, <1>2, <1>3

LEMMA EmptyIsNoName ==
  ASSUME NEW s, s = <<>>
  PROVE  ~IsFqdn(s)
<1>1. Len(s) = 0
  BY EmptySeq
<1>2. ~(0 \in 1..NameMax)
  BY LengthsAssumption
<1> QED
  BY <1>1, <1>2 DEF IsFqdn

\* A name begins and ends with a letter or a digit.
LEMMA EndsOfName ==
  ASSUME NEW raw \in Seq(Chars), NEW i \in 1..Len(raw), NEW j \in 1..Len(raw), i <= j,
         WellFormed(Lower(SubSeq(raw, i, j)))
  PROVE  raw[i] \in {"a", "A"} /\ raw[j] \in {"a", "A"}
<1> DEFINE part == SubSeq(raw, i, j)
           n == j - i + 1
<1>1. Len(raw) \in Nat /\ n \in Nat /\ 1 \in 1..n /\ n \in 1..n /\ i + n - 1 = j /\ i + 1 - 1 = i
  BY LenProperties
<1>2. i \in 1..(Len(raw) + 1) /\ j \in 0..Len(raw) /\ i <= j + 1
  BY <1>1
<1>3. part \in Seq(Chars) /\ Len(part) = n /\ \A k \in 1..n : part[k] = raw[i + k - 1]
  BY <1>2, PartOf
<1> HIDE DEF part, n
<1>4. /\ Len(Lower(part)) = n
      /\ \A k \in 1..n : Lower(part)[k] = IF part[k] = "A" THEN "a" ELSE part[k]
  BY <1>3, LowerProperties
<1>5. \A k \in {1, n} : Lower(part)[k] = "a"
  BY <1>4 DEF WellFormed, part
<1>6. \A k \in {1, n} : part[k] \in {"a", "A"}
  BY <1>1, <1>4, <1>5
<1>7. part[1] = raw[i] /\ part[n] = raw[j]
  BY <1>1, <1>3
<1> QED
  BY <1>6, <1>7

\* At most one name can be read in a text.
LEMMA OneWindow ==
  ASSUME NEW raw \in Seq(Chars),
         NEW i \in 1..Len(raw), NEW j \in 1..Len(raw), NEW e \in 1..Len(raw),
         NEW k \in 1..Len(raw), NEW l \in 1..Len(raw), NEW f \in 1..Len(raw),
         Window(raw, i, j, e), WellFormed(Lower(SubSeq(raw, i, j))),
         Tight(raw, k, l, f)
  PROVE  i = k /\ j = l
<1>1. /\ Len(raw) \in Nat /\ i <= j /\ j <= e /\ k <= l /\ l <= f
      /\ i \in Nat /\ j \in Nat /\ e \in Nat /\ k \in Nat /\ l \in Nat /\ f \in Nat
  <2>1. Len(raw) \in Nat
    BY LenProperties
  <2>2. i \in Nat /\ j \in Nat /\ e \in Nat /\ k \in Nat /\ l \in Nat /\ f \in Nat
    BY <2>1
  <2>3. i <= j /\ j <= e /\ k <= l /\ l <= f
    BY DEF Window, Tight
  <2> QED
    BY <2>1, <2>2, <2>3
<1>2. raw[i] \in {"a", "A"} /\ raw[j] \in {"a", "A"}
  BY <1>1, EndsOfName
<1>3. \A p \in 1..Len(raw) : /\ p < i => raw[p] = " "
                             /\ (j < p /\ p <= e) => raw[p] = "."
                             /\ e < p => raw[p] = " "
  BY DEF Window
<1>4. \A p \in 1..Len(raw) : /\ p < k => raw[p] = " "
                             /\ (l < p /\ p <= f) => raw[p] = "."
                             /\ f < p => raw[p] = " "
  BY DEF Window, Tight
<1>5. raw[k] # " " /\ raw[l] # "." /\ raw[f] # " "
  BY DEF Tight
<1>6. ~(i < k) /\ ~(k < i)
  BY <1>1, <1>2, <1>3, <1>4, <1>5
<1>7. ~(l < j)
  <2> SUFFICES ASSUME l < j  PROVE FALSE
    OBVIOUS
  <2>1. j <= f \/ f < j
    BY <1>1
  <2>2. raw[j] = "." \/ raw[j] = " "
    BY <1>4, <2>1
  <2> QED
    BY <1>2, <2>2
<1>8. ~(j < l)
  <2> SUFFICES ASSUME j < l  PROVE FALSE
    OBVIOUS
  <2>1. l <= e \/ e < l
    BY <1>1
  <2>2. e < l
    BY <1>3, <1>5, <2>1
  <2>3. e < f
    BY <1>1, <2>2
  <2>4. raw[f] = " "
    BY <1>3, <2>3
  <2> QED
    BY <1>5, <2>4
<1> QED
  BY <1>1, <1>6, <1>7, <1>8

\* Whatever a client sends, normalize_and_validate_fqdn makes of it the name it
\* stands for, and nothing else: the code's stripping, its regular expression and
\* its length limit agree with what a DNS name is, character by character.
THEOREM ValidationReadsTheName ==
  ASSUME NEW raw \in Seq(Chars)
  PROVE  Validated(raw) = Meaning(raw)
<1> DEFINE Stands(i, j) ==
             /\ WellFormed(Lower(SubSeq(raw, i, j)))
             /\ \A k \in 1..(i - 1) : raw[k] = " "
             /\ \E e \in j..Len(raw) : /\ \A k \in (j + 1)..e : raw[k] = "."
                                       /\ \A k \in (e + 1)..Len(raw) : raw[k] = " "
           fits == {w \in (1..Len(raw)) \X (1..Len(raw)) : w[1] <= w[2] /\ Stands(w[1], w[2])}
<1>1. Len(raw) \in Nat
  BY LenProperties
<1>2. Meaning(raw) = IF fits = {} THEN NotAName
                     ELSE LET w == CHOOSE w \in fits : TRUE IN Lower(SubSeq(raw, w[1], w[2]))
  BY DEF Meaning
<1>3. ASSUME NEW i \in 1..Len(raw), NEW j \in 1..Len(raw), i <= j
      PROVE  Stands(i, j) <=> /\ WellFormed(Lower(SubSeq(raw, i, j)))
                              /\ \E e \in 1..Len(raw) : Window(raw, i, j, e)
  <2>1. ASSUME NEW e \in j..Len(raw)
        PROVE  /\ e \in 1..Len(raw)
               /\ (\A k \in 1..(i - 1) : raw[k] = " ") <=> \A k \in 1..Len(raw) : k < i => raw[k] = " "
               /\ (\A k \in (j + 1)..e : raw[k] = ".")
                    <=> \A k \in 1..Len(raw) : (j < k /\ k <= e) => raw[k] = "."
               /\ (\A k \in (e + 1)..Len(raw) : raw[k] = " ")
                    <=> \A k \in 1..Len(raw) : e < k => raw[k] = " "
    <3>1. /\ e \in 1..Len(raw)
          /\ \A k \in Nat : /\ k \in 1..(i - 1) <=> k \in 1..Len(raw) /\ k < i
                            /\ k \in (j + 1)..e <=> k \in 1..Len(raw) /\ j < k /\ k <= e
                            /\ k \in (e + 1)..Len(raw) <=> k \in 1..Len(raw) /\ e < k
      BY <1>1, <1>3
    <3>2. 1..(i - 1) \subseteq Nat /\ (j + 1)..e \subseteq Nat /\ (e + 1)..Len(raw) \subseteq Nat
          /\ 1..Len(raw) \subseteq Nat
      BY <1>1, <1>3, <3>1
    <3> QED
      BY <3>1, <3>2
  <2>2. \A e \in 1..Len(raw) : j <= e => e \in j..Len(raw)
    BY <1>1
  <2>3. ASSUME Stands(i, j)
        PROVE  \E e \in 1..Len(raw) : Window(raw, i, j, e)
    <3>1. PICK e \in j..Len(raw) : /\ \A k \in (j + 1)..e : raw[k] = "."
                                   /\ \A k \in (e + 1)..Len(raw) : raw[k] = " "
      BY <2>3
    <3>2. j <= e
      BY <1>1
    <3> QED
      BY <1>3, <2>1, <2>3, <3>1, <3>2 DEF Window
  <2>4. ASSUME WellFormed(Lower(SubSeq(raw, i, j))), NEW e \in 1..Len(raw), Window(raw, i, j, e)
        PROVE  Stands(i, j)
    <3>1. e \in j..Len(raw)
      BY <2>2, <2>4 DEF Window
    <3> QED
      BY <2>1, <2>4, <3>1 DEF Window
  <2> QED
    BY <2>3, <2>4
<1> HIDE DEF Stands
<1>4. ASSUME NEW i \in 1..Len(raw), NEW j \in 1..Len(raw), i <= j
      PROVE  /\ Lower(SubSeq(raw, i, j)) \in Seq(Chars)
             /\ IsFqdn(Lower(SubSeq(raw, i, j))) <=> WellFormed(Lower(SubSeq(raw, i, j)))
  <2>1. i \in 1..(Len(raw) + 1) /\ j \in 0..Len(raw) /\ i <= j + 1
    BY <1>1, <1>4
  <2>2. Lower(SubSeq(raw, i, j)) \in Seq(Chars)
    BY <2>1, PartOf, LowerProperties
  <2> QED
    BY <2>2, FqdnIsWellFormed, WellFormedIsFqdn
<1>5. CASE Normalize(raw) = <<>> /\ \A k \in 1..Len(raw) : raw[k] \in {" ", "."}
  <2>1. ~IsFqdn(Normalize(raw))
    BY <1>5, EmptyIsNoName
  <2>2. ASSUME NEW w \in fits
        PROVE  FALSE
    <3>1. /\ w[1] \in 1..Len(raw) /\ w[2] \in 1..Len(raw) /\ w[1] <= w[2] /\ Stands(w[1], w[2])
      BY <2>2
    <3>2. raw[w[1]] \in {"a", "A"}
      BY <1>3, <3>1, EndsOfName
    <3> QED
      BY <1>5, <3>1, <3>2
  <2> HIDE DEF fits
  <2> QED
    BY <1>2, <2>1, <2>2 DEF Validated
<1>6. ASSUME NEW i \in 1..Len(raw), NEW j \in 1..Len(raw), NEW e \in 1..Len(raw),
             Window(raw, i, j, e), raw[i] # " ", raw[j] # ".", raw[e] # " ",
             Normalize(raw) = Lower(SubSeq(raw, i, j))
      PROVE  Validated(raw) = Meaning(raw)
  <2>0. Tight(raw, i, j, e)
    BY <1>6 DEF Tight
  <2>1. i <= j
    BY <1>6 DEF Window
  <2>2. ASSUME NEW w \in fits
        PROVE  w[1] = i /\ w[2] = j /\ Stands(i, j)
    <3>1. /\ w[1] \in 1..Len(raw) /\ w[2] \in 1..Len(raw) /\ w[1] <= w[2] /\ Stands(w[1], w[2])
      BY <2>2
    <3>2. PICK f \in 1..Len(raw) : Window(raw, w[1], w[2], f)
      BY <1>3, <3>1
    <3>3. WellFormed(Lower(SubSeq(raw, w[1], w[2])))
      BY <1>3, <3>1
    <3>4. w[1] = i /\ w[2] = j
      BY <2>0, <3>1, <3>2, <3>3, OneWindow
    <3> QED
      BY <3>1, <3>4
  <2>3. CASE IsFqdn(Normalize(raw))
    <3>1. Stands(i, j)
      BY <1>3, <1>4, <1>6, <2>1, <2>3
    <3>2. <<i, j>> \in fits
      BY <2>1, <3>1
    <3> HIDE DEF fits
    <3>3. (CHOOSE w \in fits : TRUE) \in fits
      BY <3>2
    <3>4. Meaning(raw) = Lower(SubSeq(raw, i, j))
      BY <1>2, <2>2, <3>2, <3>3
    <3> QED
      BY <1>6, <2>3, <3>4 DEF Validated
  <2>4. CASE ~IsFqdn(Normalize(raw))
    <3>1. ~Stands(i, j)
      BY <1>3, <1>4, <1>6, <2>1, <2>4
    <3>2. fits = {}
      BY <2>2, <3>1
    <3> HIDE DEF fits
    <3> QED
      BY <1>2, <2>4, <3>2 DEF Validated
  <2> QED
    BY <2>3, <2>4
<1> QED
  BY <1>5, <1>6, NormalizeProperties

=============================================================================
