--------------------------- MODULE MCRegistrations ---------------------------
(***************************************************************************)
(* A small instance of Registrations for TLC.                              *)
(***************************************************************************)
EXTENDS Registrations, SequencesExt, TLC

CONSTANTS m1, m2

MCMailboxes == {m1, m2}
MCAdminEmails == {<<m1, "other">>, <<m2, "lower">>}

\* Every text that is no domain name, and every spelling of three that are.
MCRawNames ==
  {raw \in SeqOf(Chars, 6) :
     Meaning(raw) \in {NotAName, <<"a", ".", "a">>, <<"a", ".", "a", ".", "a">>,
                       <<"a", "a", ".", "a", "-", "a">>}}

Symmetry == Permutations(Threads)
=============================================================================
