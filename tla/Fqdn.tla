-------------------------------- MODULE Fqdn --------------------------------
(***************************************************************************)
(* normalize_and_validate_fqdn (app/core/fqdn.py), and what a DNS name is. *)
(* A name is a sequence of characters; one letter stands for every letter  *)
(* and digit, the space for all whitespace, and "*" for everything else    *)
(* that no name may hold.                                                  *)
(***************************************************************************)
EXTENDS Naturals, Sequences, FiniteSetsExt

CONSTANTS
  LabelMax,  \* 63
  NameMax    \* 253

ASSUME LengthsAssumption == LabelMax \in Nat /\ NameMax \in Nat

Chars == {"a", "A", "-", ".", " ", "*"}
LabelChars == {"a", "-"}
NotAName == <<>>

Lower(s) == [i \in DOMAIN s |-> IF s[i] = "A" THEN "a" ELSE s[i]]

StripRight(s, c) ==
  LET kept == {i \in DOMAIN s : s[i] # c} IN
  IF kept = {} THEN <<>> ELSE SubSeq(s, 1, Max(kept))

StripLeft(s, c) ==
  LET kept == {i \in DOMAIN s : s[i] # c} IN
  IF kept = {} THEN <<>> ELSE SubSeq(s, Min(kept), Len(s))

-----------------------------------------------------------------------------
(* Slips the properties must catch. They are no part of the specification. *)

\* raw.rstrip(".").strip().lower()
DotsFirst(raw) == Lower(StripLeft(StripRight(StripRight(raw, "."), " "), " "))

\* The regular expression without (?<!-).
LabelEndsAnyhow(s) ==
  /\ Len(s) \in 1..LabelMax
  /\ \A i \in DOMAIN s : s[i] \in LabelChars
  /\ s[1] # "-"

-----------------------------------------------------------------------------
(* The code *)

\* raw.strip().lower().rstrip(".")
Normalize(raw) == StripRight(Lower(StripLeft(StripRight(raw, " "), " ")), ".")

\* (?!-)[a-z0-9-]{1,63}(?<!-)
IsLabel(s) ==
  /\ Len(s) \in 1..LabelMax
  /\ \A i \in DOMAIN s : s[i] \in LabelChars
  /\ s[1] # "-" /\ s[Len(s)] # "-"

\* _FQDN_RE.fullmatch: two labels at least, and each dot ends one.
IsFqdn(s) ==
  LET dots == {i \in DOMAIN s : s[i] = "."}
      cuts == dots \cup {0, Len(s) + 1}
  IN /\ Len(s) \in 1..NameMax
     /\ dots # {}
     /\ \A i, j \in cuts :
          (i < j /\ \A k \in cuts : k <= i \/ j <= k) => IsLabel(SubSeq(s, i + 1, j - 1))

\* The name _FQDN_RE lets through, or NotAName (a 400 answer).
Validated(raw) == IF IsFqdn(Normalize(raw)) THEN Normalize(raw) ELSE NotAName

-----------------------------------------------------------------------------
(* What a client means: RFC 1123 names, stated character by character *)

\* Two labels or more of 1..LabelMax characters, none of which begins or ends
\* with a hyphen.
WellFormed(s) ==
  /\ Len(s) \in 1..NameMax
  /\ \A i \in DOMAIN s : s[i] \in LabelChars \cup {"."}
  /\ \E i \in DOMAIN s : s[i] = "."
  /\ \A i \in {1, Len(s)} : s[i] = "a"
  /\ \A i \in 1..(Len(s) - 1) : s[i] = "a" \/ s[i + 1] = "a" \/ (s[i] = "-" /\ s[i + 1] = "-")
  /\ \A i \in 1..(Len(s) - LabelMax) : \E j \in i..(i + LabelMax) : s[j] = "."

\* The name some text stands for: letters in any case, blanks around it, and dots
\* at its end.
Meaning(raw) ==
  LET Stands(i, j) ==
        /\ WellFormed(Lower(SubSeq(raw, i, j)))
        /\ \A k \in 1..(i - 1) : raw[k] = " "
        /\ \E e \in j..Len(raw) : /\ \A k \in (j + 1)..e : raw[k] = "."
                                  /\ \A k \in (e + 1)..Len(raw) : raw[k] = " "
      fits == {w \in (1..Len(raw)) \X (1..Len(raw)) : w[1] <= w[2] /\ Stands(w[1], w[2])}
  IN IF fits = {} THEN NotAName
     ELSE LET w == CHOOSE w \in fits : TRUE IN Lower(SubSeq(raw, w[1], w[2]))
=============================================================================
