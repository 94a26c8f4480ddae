-------------------------- MODULE RegistrationsProofs --------------------------
(***************************************************************************)
(* Theorems about Registrations, for any threads, addresses, texts, limits *)
(* and number of restarts: what the two tables hold, and that each of them *)
(* is a Registry.                                                          *)
(***************************************************************************)
EXTENDS Registrations, FqdnProofs, FiniteSetTheorems

USE DEF processVars, requestVars, domainVars, createVars

-----------------------------------------------------------------------------
(* The texts clients send *)

LEMMA NormalizeType ==
  ASSUME NEW raw \in Seq(Chars)
  PROVE  Normalize(raw) \in Seq(Chars)
<1>1. ASSUME NEW i \in 1..Len(raw), NEW j \in 1..Len(raw), i <= j
      PROVE  Lower(SubSeq(raw, i, j)) \in Seq(Chars)
  <2>1. i \in 1..(Len(raw) + 1) /\ j \in 0..Len(raw) /\ i <= j + 1
    BY <1>1, LenProperties
  <2> QED
    BY <2>1, PartOf, LowerProperties
<1>2. CASE Normalize(raw) = <<>>
  BY <1>2, EmptySeq
<1>3. ASSUME NEW i \in 1..Len(raw), NEW j \in 1..Len(raw), NEW e \in 1..Len(raw),
             Window(raw, i, j, e), Normalize(raw) = Lower(SubSeq(raw, i, j))
      PROVE  Normalize(raw) \in Seq(Chars)
  BY <1>1, <1>3 DEF Window
<1> QED
  BY <1>2, <1>3, NormalizeProperties

\* The code reads each of them as its client means it.
LEMMA ReadingsAgree ==
  ASSUME NEW reading \in Readings
  PROVE  /\ reading.name = reading.meant
         /\ reading.meant \in Seq(Chars)
         /\ reading.meant # NotAName => WellFormed(reading.meant) /\ reading.meant \in Meanings
<1>1. PICK raw \in RawNames : reading = [name |-> Validated(raw), meant |-> Meaning(raw)]
  BY DEF Readings
<1>2. raw \in Seq(Chars)
  BY DomainsAssumption
<1>3. Validated(raw) = Meaning(raw) /\ Normalize(raw) \in Seq(Chars) /\ <<>> \in Seq(Chars)
  BY <1>2, ValidationReadsTheName, NormalizeType, EmptySeq
<1>4. Validated(raw) \in Seq(Chars) /\ (Validated(raw) # NotAName => WellFormed(Validated(raw)))
  BY <1>3, FqdnIsWellFormed DEF Validated, NotAName
<1>5. reading.name = Validated(raw) /\ reading.meant = Meaning(raw)
  BY <1>1
<1> QED
  BY <1>3, <1>4, <1>5 DEF Meanings

LEMMA MeaningsAreNames ==
  ASSUME NEW m \in Meanings
  PROVE  m \in Seq(Chars) /\ WellFormed(m) /\ m # NoName
BY ReadingsAgree DEF Meanings, NotAName, NoName

-----------------------------------------------------------------------------
(* Shapes of the steps *)

\* One request, of one thread, makes one of these steps.
RequestStep(t) ==
  \/ \E a, email \in Spellings, newRole \in Roles :
       StartRegister(t, a, email, newRole) /\ Forget(t) /\ UNCHANGED domainVars
  \/ CheckUser(t) /\ Forget(t) /\ UNCHANGED domainVars
  \/ InsertUser(t) /\ Forget(t) /\ UNCHANGED domainVars
  \/ \E a \in Spellings, reading \in Readings : StartCreate(t, a, reading)
  \/ \E a \in Spellings, reading \in Readings : RefuseName(t, a, reading)
  \/ CheckName(t)
  \/ InsertName(t)
  \/ \E a \in Spellings, i \in Ids : StartDelete(t, a, i)
  \/ DeleteRow(t)

LEMMA StepCases ==
  ASSUME Next
  PROVE  Process \/ Stop \/ \E t \in Threads : RequestStep(t)
BY DEF Next, Register, Create, Delete, NameStep, RegisterStep, RequestStep

USE DEF Answered, Begin, Forget

\* A request changes nothing of another thread, nothing of the process, and no
\* account that there is.
LEMMA RequestFrame ==
  ASSUME TypeOK, ServedWhileUp, NEW t \in Threads, RequestStep(t)
  PROVE  /\ api = "up" /\ UNCHANGED <<api, adminEmail, restarts>>
         /\ \A q \in Threads : q # t =>
              /\ pc'[q] = pc[q] /\ key'[q] = key[q] /\ role'[q] = role[q]
              /\ answer'[q] = answer[q] /\ actor'[q] = actor[q] /\ meant'[q] = meant[q]
         /\ DOMAIN key' = Threads
         /\ \A s \in Spellings : UserExists(s) => users'[s] = users[s]
<1>1. /\ pc \in [Threads -> Places]
      /\ role \in [Threads -> Roles \cup {"none"}]
      /\ answer \in [Threads -> Answers]
      /\ actor \in [Threads -> Spellings \cup {NoKey}]
      /\ meant \in [Threads -> Seq(Chars)]
      /\ users \in [Spellings -> Roles \cup {"none"}]
      /\ DOMAIN key = Threads
  BY DEF TypeOK
<1>2. CASE \E a, email \in Spellings, newRole \in Roles :
             StartRegister(t, a, email, newRole) /\ Forget(t) /\ UNCHANGED domainVars
  BY <1>1, <1>2 DEF StartRegister
<1>3. CASE CheckUser(t) /\ Forget(t)
  BY <1>1, <1>3 DEF CheckUser, ServedWhileUp
<1>4. CASE InsertUser(t) /\ Forget(t)
  BY <1>1, <1>4 DEF InsertUser, ServedWhileUp, UserExists
<1>5. CASE \E a \in Spellings, reading \in Readings : StartCreate(t, a, reading)
  BY <1>1, <1>5 DEF StartCreate
<1>6. CASE \E a \in Spellings, reading \in Readings : RefuseName(t, a, reading)
  BY <1>1, <1>6 DEF RefuseName
<1>7. CASE CheckName(t)
  BY <1>1, <1>7 DEF CheckName, ServedWhileUp
<1>8. CASE InsertName(t)
  BY <1>1, <1>8 DEF InsertName, InsertRow, ServedWhileUp
<1>9. CASE \E a \in Spellings, i \in Ids : StartDelete(t, a, i)
  BY <1>1, <1>9 DEF StartDelete
<1>10. CASE DeleteRow(t)
  BY <1>1, <1>10 DEF DeleteRow, ServedWhileUp
<1> QED
  BY <1>2, <1>3, <1>4, <1>5, <1>6, <1>7, <1>8, <1>9, <1>10 DEF RequestStep

LEMMA NormalSpelling ==
  ASSUME NEW email \in Spellings
  PROVE  /\ Normal(email) \in Spellings /\ Normal(email)[1] = email[1] /\ email[1] \in Mailboxes
         /\ Normal(Normal(email)) = Normal(email)
BY DEF Normal, Spellings

LEMMA CreatorsAreFinite == IsFiniteSet(Creators) /\ Cardinality(Creators) \in Nat
BY DomainsAssumption, FS_Subset, FS_CardinalityType DEF Creators

\* A request that may insert a row has an id for it.
LEMMA IdIsLeft ==
  ASSUME TypeOK, RoomLeft, NEW t \in Creators
  PROVE  inserted + 1 \in Ids
<1>1. Cardinality(Creators) # 0
  BY CreatorsAreFinite, FS_EmptySet
<1> QED
  BY <1>1, CreatorsAreFinite, DomainsAssumption DEF TypeOK, RoomLeft, Ids

-----------------------------------------------------------------------------
(* Requests preserve the invariant *)

\* A request that is answered leaves its thread idle.
LEMMA AnsweredTypes ==
  ASSUME TypeOK, NEW t \in Threads, NEW result \in Answers, Answered(t, result)
  PROVE  /\ pc' \in [Threads -> Places] /\ role' \in [Threads -> Roles \cup {"none"}]
         /\ answer' \in [Threads -> Answers]
         /\ KeyFits(t)'
<1>1. /\ pc \in [Threads -> Places] /\ role \in [Threads -> Roles \cup {"none"}]
      /\ answer \in [Threads -> Answers] /\ DOMAIN key = Threads
  BY DEF TypeOK
<1>2. pc'[t] = "idle" /\ key'[t] = NoKey
  BY <1>1
<1>3. KeyFits(t)'
  BY <1>2 DEF KeyFits
<1> QED
  BY <1>1, <1>3 DEF Places

LEMMA RequestsPreserveTypes ==
  ASSUME RegistrationInvariant, NEW t \in Threads, RequestStep(t)
  PROVE  TypeOK'
<1>1. TypeOK /\ ServedWhileUp /\ RoomLeft
  BY DEF RegistrationInvariant
<1>2. UNCHANGED <<api, adminEmail, restarts>> /\ DOMAIN key' = Threads
  BY <1>1, RequestFrame
<1>3. ASSUME NEW q \in Threads, q # t
      PROVE  KeyFits(q)'
  <2>1. KeyFits(q)
    BY <1>1 DEF TypeOK
  <2>2. pc'[q] = pc[q] /\ key'[q] = key[q] /\ role'[q] = role[q] /\ actor'[q] = actor[q]
    BY <1>1, <1>3, RequestFrame
  <2> QED
    BY <2>1, <2>2 DEF KeyFits
<1>4. /\ users \in [Spellings -> Roles \cup {"none"}] /\ pc \in [Threads -> Places]
      /\ role \in [Threads -> Roles \cup {"none"}] /\ answer \in [Threads -> Answers]
      /\ inserted \in 0..MaxDomains /\ names \in [Ids -> Seq(Chars)]
      /\ author \in [Ids -> Spellings \cup {NoKey}] /\ actor \in [Threads -> Spellings \cup {NoKey}]
      /\ meant \in [Threads -> Seq(Chars)] /\ DOMAIN key = Threads
      /\ NoName \in Seq(Chars) /\ KeyFits(t)
  BY <1>1, EmptySeq DEF TypeOK, NoName
<1>5. {"userCreated", "userConflict", "userClash", "nameInvalid", "domainCreated",
       "nameConflict", "nameClash", "domainDeleted", "none"} \subseteq Answers
  BY DEF Answers
<1> DEFINE Rest ==
             /\ users' \in [Spellings -> Roles \cup {"none"}] /\ pc' \in [Threads -> Places]
             /\ role' \in [Threads -> Roles \cup {"none"}] /\ answer' \in [Threads -> Answers]
             /\ inserted' \in 0..MaxDomains /\ names' \in [Ids -> Seq(Chars)]
             /\ author' \in [Ids -> Spellings \cup {NoKey}] /\ actor' \in [Threads -> Spellings \cup {NoKey}]
             /\ meant' \in [Threads -> Seq(Chars)] /\ KeyFits(t)'
<1>6. ASSUME NEW a \in Spellings, NEW email \in Spellings, NEW newRole \in Roles,
             StartRegister(t, a, email, newRole), Forget(t), UNCHANGED domainVars
      PROVE  Rest
  <2>1. pc'[t] = "checkUser" /\ key'[t] = email /\ role'[t] = newRole
    BY <1>4, <1>6 DEF StartRegister
  <2>2. KeyFits(t)'
    BY <2>1 DEF KeyFits
  <2> QED
    BY <1>4, <1>5, <1>6, <2>2 DEF StartRegister, Places
<1>7. ASSUME CheckUser(t), Forget(t), UNCHANGED domainVars
      PROVE  Rest
  <2>1. CASE Answered(t, "userConflict")
    <3> HIDE DEF Answered
    <3> QED
      BY <1>1, <1>4, <1>5, <1>7, <2>1, AnsweredTypes DEF CheckUser
  <2>2. CASE pc' = [pc EXCEPT ![t] = "insertUser"] /\ UNCHANGED <<key, role, answer>>
    <3>1. pc[t] = "checkUser" /\ pc'[t] = "insertUser" /\ key'[t] = key[t] /\ role'[t] = role[t]
      BY <1>4, <1>7, <2>2 DEF CheckUser
    <3>2. KeyFits(t)'
      BY <1>4, <3>1 DEF KeyFits
    <3> QED
      BY <1>4, <1>7, <2>2, <3>2 DEF CheckUser, Places
  <2> QED
    BY <1>7, <2>1, <2>2 DEF CheckUser
<1>8. ASSUME InsertUser(t), Forget(t), UNCHANGED domainVars
      PROVE  Rest
  <2> HIDE DEF Answered
  <2>1. pc[t] = "insertUser"
    BY <1>8 DEF InsertUser
  <2>2. key[t] \in Spellings /\ role[t] \in Roles
    BY <1>4, <2>1 DEF KeyFits
  <2>3. users' \in [Spellings -> Roles \cup {"none"}]
    BY <1>4, <1>8, <2>2, NormalSpelling DEF InsertUser
  <2>4. Answered(t, "userCreated") \/ Answered(t, "userClash")
    BY <1>8 DEF InsertUser
  <2> QED
    BY <1>1, <1>4, <1>5, <1>8, <2>3, <2>4, AnsweredTypes
<1>9. ASSUME NEW a \in Spellings, NEW reading \in Readings, StartCreate(t, a, reading)
      PROVE  Rest
  <2>1. reading.name \in Seq(Chars) /\ reading.meant \in Seq(Chars)
    BY ReadingsAgree
  <2>2. pc'[t] = "checkName" /\ key'[t] = reading.name /\ actor'[t] = a
    BY <1>4, <1>9 DEF StartCreate
  <2>3. KeyFits(t)'
    BY <2>1, <2>2 DEF KeyFits
  <2> QED
    BY <1>4, <1>5, <1>9, <2>1, <2>3 DEF StartCreate, Places
<1>10. ASSUME NEW a \in Spellings, NEW reading \in Readings, RefuseName(t, a, reading)
       PROVE  Rest
  <2>1. reading.meant \in Seq(Chars)
    BY ReadingsAgree
  <2> HIDE DEF Answered
  <2>2. Answered(t, "nameInvalid")
    BY <1>10 DEF RefuseName
  <2> QED
    BY <1>1, <1>4, <1>5, <1>10, <2>1, <2>2, AnsweredTypes DEF RefuseName
<1>11. ASSUME CheckName(t)
       PROVE  Rest
  <2>1. CASE Answered(t, "nameConflict") /\ Forget(t)
    <3> HIDE DEF Answered
    <3> QED
      BY <1>1, <1>4, <1>5, <1>11, <2>1, AnsweredTypes DEF CheckName
  <2>2. CASE pc' = [pc EXCEPT ![t] = "insertName"] /\ UNCHANGED <<key, role, answer, createVars>>
    <3>1. pc[t] = "checkName" /\ pc'[t] = "insertName" /\ key'[t] = key[t] /\ actor'[t] = actor[t]
      BY <1>4, <1>11, <2>2 DEF CheckName
    <3>2. KeyFits(t)'
      BY <1>4, <3>1 DEF KeyFits
    <3> QED
      BY <1>4, <1>11, <2>2, <3>2 DEF CheckName, Places
  <2> QED
    BY <1>11, <2>1, <2>2 DEF CheckName
<1>12. ASSUME InsertName(t)
       PROVE  Rest
  <2>1. t \in Creators /\ pc[t] = "insertName"
    BY <1>12 DEF InsertName, Creators
  <2>2. inserted + 1 \in Ids /\ inserted + 1 \in 0..MaxDomains
    BY <1>1, <2>1, IdIsLeft DEF Ids
  <2>3. key[t] \in Seq(Chars) /\ actor[t] \in Spellings
    BY <1>4, <2>1 DEF KeyFits
  <2>4. /\ names' \in [Ids -> Seq(Chars)] /\ author' \in [Ids -> Spellings \cup {NoKey}]
        /\ inserted' \in 0..MaxDomains
    BY <1>4, <1>12, <2>2, <2>3 DEF InsertName, InsertRow
  <2>5. actor' \in [Threads -> Spellings \cup {NoKey}] /\ meant' \in [Threads -> Seq(Chars)]
    BY <1>4, <1>12 DEF InsertName
  <2> HIDE DEF Answered
  <2>6. Answered(t, "domainCreated") \/ Answered(t, "nameClash")
    BY <1>12 DEF InsertName, InsertRow
  <2> QED
    BY <1>1, <1>4, <1>5, <1>12, <2>4, <2>5, <2>6, AnsweredTypes DEF InsertName
<1>13. ASSUME NEW a \in Spellings, NEW i \in Ids, StartDelete(t, a, i)
       PROVE  Rest
  <2>1. pc'[t] = "deleteRow" /\ key'[t] = <<i>>
    BY <1>4, <1>13 DEF StartDelete
  <2>2. KeyFits(t)'
    BY <2>1 DEF KeyFits
  <2> QED
    BY <1>4, <1>5, <1>13, <2>2 DEF StartDelete, Places
<1>14. ASSUME DeleteRow(t)
       PROVE  Rest
  <2>1. PICK i \in Ids : key[t] = <<i>>
    BY <1>4, <1>14 DEF DeleteRow, KeyFits
  <2>2. names' \in [Ids -> Seq(Chars)] /\ author' \in [Ids -> Spellings \cup {NoKey}]
    BY <1>4, <1>14, <2>1 DEF DeleteRow
  <2> HIDE DEF Answered
  <2>3. Answered(t, "domainDeleted")
    BY <1>14 DEF DeleteRow
  <2> QED
    BY <1>1, <1>4, <1>5, <1>14, <2>2, <2>3, AnsweredTypes DEF DeleteRow
<1> HIDE DEF Rest
<1>15. Rest
  BY <1>6, <1>7, <1>8, <1>9, <1>10, <1>11, <1>12, <1>13, <1>14 DEF RequestStep
<1> QED
  BY <1>1, <1>2, <1>3, <1>15 DEF TypeOK, Rest, Places

\* Of requests, only a registration that ends makes an account.
LEMMA RequestsAndAccounts ==
  ASSUME TypeOK, ServedWhileUp, NEW t \in Threads, RequestStep(t)
  PROVE  \/ UNCHANGED users
         \/ /\ pc[t] = "insertUser" /\ ~UserExists(Normal(key[t]))
            /\ users' = [users EXCEPT ![Normal(key[t])] = role[t]]
BY DEF RequestStep, StartRegister, CheckUser, InsertUser, StartCreate, RefuseName, CheckName,
       InsertName, InsertRow, StartDelete, DeleteRow

LEMMA RequestsPreserveAccounts ==
  ASSUME RegistrationInvariant, NEW t \in Threads, RequestStep(t)
  PROVE  StoredNormally' /\ AdminIsFirst'
<1>1. TypeOK /\ StoredNormally /\ AdminIsFirst /\ ServedWhileUp
  BY DEF RegistrationInvariant
<1>2. api = "up" /\ api' = "up" /\ AdminExists
  BY <1>1, RequestFrame DEF AdminIsFirst
<1>3. CASE UNCHANGED users
  BY <1>1, <1>2, <1>3 DEF StoredNormally, AdminIsFirst, AdminExists, UserExists
<1>4. CASE /\ pc[t] = "insertUser" /\ ~UserExists(Normal(key[t]))
           /\ users' = [users EXCEPT ![Normal(key[t])] = role[t]]
  <2>1. key[t] \in Spellings /\ users \in [Spellings -> Roles \cup {"none"}]
    BY <1>1, <1>4 DEF TypeOK, KeyFits
  <2>2. Normal(key[t]) \in Spellings /\ Normal(Normal(key[t])) = Normal(key[t])
    BY <2>1, NormalSpelling
  <2>3. StoredNormally'
    BY <1>1, <1>4, <2>1, <2>2 DEF StoredNormally, UserExists
  <2>4. AdminExists'
    BY <1>2, <1>4, <2>1, <2>2 DEF AdminExists, UserExists
  <2> QED
    BY <1>2, <2>3, <2>4 DEF AdminIsFirst
<1> QED
  BY <1>1, <1>3, <1>4, RequestsAndAccounts

LEMMA RequestsPreserveService ==
  ASSUME TypeOK, ServedWhileUp, NEW t \in Threads, RequestStep(t)
  PROVE  ServedWhileUp'
<1>1. api' = "up" /\ \A q \in Threads : q # t => pc'[q] = pc[q] /\ answer'[q] = answer[q]
  BY RequestFrame
<1>2. pc'[t] # "idle" => answer'[t] = "none"
  BY DEF RequestStep, StartRegister, CheckUser, InsertUser, StartCreate, RefuseName, CheckName,
         InsertName, InsertRow, StartDelete, DeleteRow, TypeOK, ServedWhileUp
<1> QED
  BY <1>1, <1>2 DEF ServedWhileUp

\* What a request does to the requests that may insert a row.
LEMMA RequestsAndCreators ==
  ASSUME TypeOK, ServedWhileUp, NEW t \in Threads, RequestStep(t)
  PROVE  \/ Creators' = Creators /\ UNCHANGED inserted
         \/ /\ t \notin Creators /\ Creators' = Creators \cup {t} /\ UNCHANGED inserted /\ IdsLeft
         \/ /\ t \in Creators /\ Creators' = Creators \ {t} /\ inserted' \in {inserted, inserted + 1}
<1>1. pc \in [Threads -> Places]
  BY DEF TypeOK
<1>2. \A q \in Threads : q # t => pc'[q] = pc[q]
  BY RequestFrame
<1>3. \/ t \notin Creators /\ pc'[t] \notin {"checkName", "insertName"} /\ UNCHANGED inserted
      \/ t \in Creators /\ pc'[t] \in {"checkName", "insertName"} /\ UNCHANGED inserted
      \/ t \notin Creators /\ pc'[t] \in {"checkName", "insertName"} /\ UNCHANGED inserted /\ IdsLeft
      \/ /\ t \in Creators /\ pc'[t] \notin {"checkName", "insertName"}
         /\ inserted' \in {inserted, inserted + 1}
  BY <1>1 DEF RequestStep, StartRegister, CheckUser, InsertUser, StartCreate, RefuseName, CheckName,
              InsertName, InsertRow, StartDelete, DeleteRow, Creators
<1>4. pc'[t] \in {"checkName", "insertName"} <=> t \in Creators'
  BY DEF Creators
<1>5. \A q \in Threads : q # t => (q \in Creators' <=> q \in Creators)
  BY <1>2 DEF Creators
<1>6. Creators \subseteq Threads /\ Creators' \subseteq Threads
  BY DEF Creators
<1> QED
  BY <1>3, <1>4, <1>5, <1>6

LEMMA RequestsLeaveRoom ==
  ASSUME TypeOK, ServedWhileUp, RoomLeft, NEW t \in Threads, RequestStep(t)
  PROVE  RoomLeft'
<1>1. /\ IsFiniteSet(Creators) /\ Cardinality(Creators) \in Nat
      /\ inserted \in Nat /\ MaxDomains \in Nat
  BY CreatorsAreFinite, DomainsAssumption DEF TypeOK
<1>2. CASE Creators' = Creators /\ UNCHANGED inserted
  BY <1>2 DEF RoomLeft
<1>3. CASE t \notin Creators /\ Creators' = Creators \cup {t} /\ UNCHANGED inserted /\ IdsLeft
  <2>1. Cardinality(Creators') = Cardinality(Creators) + 1
    BY <1>1, <1>3, FS_AddElement
  <2> QED
    BY <1>1, <1>3, <2>1 DEF RoomLeft, IdsLeft
<1>4. CASE t \in Creators /\ Creators' = Creators \ {t} /\ inserted' \in {inserted, inserted + 1}
  <2>1. Cardinality(Creators') = Cardinality(Creators) - 1
    BY <1>1, <1>4, FS_RemoveElement
  <2> QED
    BY <1>1, <1>4, <2>1 DEF RoomLeft
<1> QED
  BY <1>2, <1>3, <1>4, RequestsAndCreators

LEMMA RequestsKnowTheirNames ==
  ASSUME RegistrationInvariant, NEW t \in Threads, RequestStep(t)
  PROVE  CreatorsKnow' /\ InvalidMeansMalformed'
<1>1. TypeOK /\ ServedWhileUp /\ CreatorsKnow /\ InvalidMeansMalformed
  BY DEF RegistrationInvariant
<1>2. \A q \in Threads : q # t =>
        /\ pc'[q] = pc[q] /\ key'[q] = key[q] /\ answer'[q] = answer[q]
        /\ actor'[q] = actor[q] /\ meant'[q] = meant[q]
  BY <1>1, RequestFrame
<1> DEFINE Knows(q) == key[q] = meant[q] /\ meant[q] \in Meanings
<1>3. ASSUME NEW q \in Threads, q # t, q \in Creators'
      PROVE  Knows(q)'
  <2>1. q \in Creators
    BY <1>2, <1>3 DEF Creators
  <2>2. Knows(q)
    BY <1>1, <2>1 DEF CreatorsKnow
  <2> QED
    BY <1>2, <1>3, <2>2
<1>4. /\ pc \in [Threads -> Places] /\ answer \in [Threads -> Answers] /\ DOMAIN key = Threads
      /\ actor \in [Threads -> Spellings \cup {NoKey}] /\ meant \in [Threads -> Seq(Chars)]
  BY <1>1 DEF TypeOK
<1> DEFINE KnowsNext == /\ t \in Creators' => Knows(t)'
                        /\ answer'[t] = "nameInvalid" => meant'[t] = NotAName
<1>5. ASSUME NEW a \in Spellings, NEW reading \in Readings, StartCreate(t, a, reading)
      PROVE  KnowsNext
  <2>1. reading.name = reading.meant /\ reading.meant \in Meanings
    BY <1>5, ReadingsAgree DEF StartCreate
  <2>2. key'[t] = reading.name /\ meant'[t] = reading.meant /\ answer'[t] = "none"
    BY <1>4, <1>5 DEF StartCreate
  <2> QED
    BY <2>1, <2>2
<1>6. ASSUME NEW a \in Spellings, NEW reading \in Readings, RefuseName(t, a, reading)
      PROVE  KnowsNext
  <2>1. reading.meant = NotAName
    BY <1>6, ReadingsAgree DEF RefuseName
  <2> QED
    BY <1>4, <1>6, <2>1 DEF RefuseName, Creators
<1>7. ASSUME CheckName(t)
      PROVE  KnowsNext
  <2>1. pc[t] = "checkName" /\ answer[t] = "none" /\ t \in Creators
    BY <1>1, <1>7 DEF CheckName, ServedWhileUp, Creators
  <2>2. CASE UNCHANGED <<key, answer, createVars>>
    BY <1>1, <2>1, <2>2 DEF CreatorsKnow
  <2>3. CASE Answered(t, "nameConflict")
    BY <1>4, <2>3 DEF Creators
  <2> QED
    BY <1>7, <2>2, <2>3 DEF CheckName
<1>8. ASSUME \/ \E a, email \in Spellings, newRole \in Roles :
                  StartRegister(t, a, email, newRole) /\ Forget(t) /\ UNCHANGED domainVars
             \/ CheckUser(t) \/ InsertUser(t) \/ InsertName(t)
             \/ \E a \in Spellings, i \in Ids : StartDelete(t, a, i)
             \/ DeleteRow(t)
      PROVE  KnowsNext
  <2>1. pc'[t] \notin {"checkName", "insertName"} /\ answer'[t] # "nameInvalid"
    BY <1>1, <1>4, <1>8
       DEF StartRegister, CheckUser, InsertUser, InsertName, InsertRow, StartDelete, DeleteRow,
           ServedWhileUp
  <2> QED
    BY <2>1 DEF Creators
<1> HIDE DEF Knows
<1>9. KnowsNext
  <2> HIDE DEF KnowsNext
  <2> QED
    BY <1>5, <1>6, <1>7, <1>8 DEF RequestStep
<1>10. CreatorsKnow'
  BY <1>3, <1>9 DEF CreatorsKnow, Creators, Knows
<1>11. InvalidMeansMalformed'
  BY <1>1, <1>2, <1>9 DEF InvalidMeansMalformed
<1> QED
  BY <1>10, <1>11

\* What a request does to the rows of domains.
LEMMA RequestsAndRows ==
  ASSUME TypeOK, ServedWhileUp, NEW t \in Threads, RequestStep(t)
  PROVE  \/ UNCHANGED <<names, author, inserted>>
         \/ /\ t \in Creators /\ ~NameTaken(key[t])
            /\ inserted' = inserted + 1
            /\ names' = [names EXCEPT ![inserted + 1] = key[t]]
            /\ author' = [author EXCEPT ![inserted + 1] = actor[t]]
         \/ \E i \in Ids : /\ key[t] = <<i>> /\ UNCHANGED inserted
                           /\ names' = [names EXCEPT ![i] = NoName]
                           /\ author' = [author EXCEPT ![i] = NoKey]
<1>1. CASE DeleteRow(t)
  <2>1. PICK i \in Ids : key[t] = <<i>>
    BY <1>1 DEF TypeOK, KeyFits, DeleteRow
  <2>2. key[t][1] = i
    BY <2>1
  <2> QED
    BY <1>1, <2>1, <2>2 DEF DeleteRow
<1>2. CASE InsertName(t)
  BY <1>2 DEF InsertName, InsertRow, Creators
<1> QED
  BY <1>1, <1>2 DEF RequestStep, StartRegister, CheckUser, InsertUser, StartCreate, RefuseName,
                    CheckName, StartDelete

LEMMA RequestsKeepRows ==
  ASSUME RegistrationInvariant, NEW t \in Threads, RequestStep(t)
  PROVE  RowsAreKeyed'
<1>1. TypeOK /\ ServedWhileUp /\ CreatorsKnow /\ RowsAreKeyed /\ RoomLeft
  BY DEF RegistrationInvariant
<1>2. /\ names \in [Ids -> Seq(Chars)] /\ author \in [Ids -> Spellings \cup {NoKey}]
      /\ inserted \in Nat /\ Ids \subseteq Nat
  BY <1>1, DomainsAssumption DEF TypeOK, Ids
<1>3. CASE UNCHANGED <<names, author, inserted>>
  BY <1>1, <1>3 DEF RowsAreKeyed
<1>4. CASE /\ t \in Creators /\ ~NameTaken(key[t])
           /\ inserted' = inserted + 1
           /\ names' = [names EXCEPT ![inserted + 1] = key[t]]
           /\ author' = [author EXCEPT ![inserted + 1] = actor[t]]
  <2>1. inserted + 1 \in Ids
    BY <1>1, <1>4, IdIsLeft
  <2>2. key[t] \in Meanings /\ key[t] # NoName /\ actor[t] \in Spellings
    BY <1>1, <1>4, MeaningsAreNames DEF CreatorsKnow, TypeOK, KeyFits, Creators
  <2>3. /\ names'[inserted + 1] = key[t] /\ author'[inserted + 1] = actor[t]
        /\ \A i \in Ids : i # inserted + 1 => names'[i] = names[i] /\ author'[i] = author[i]
    BY <1>2, <1>4, <2>1
  <2>4. \A i \in Ids : names[i] # key[t]
    BY <1>4 DEF NameTaken
  <2>5. ASSUME NEW i \in Ids, names'[i] # NoName
        PROVE  i <= inserted' /\ names'[i] \in Meanings /\ author'[i] \in Spellings
    <3>1. CASE i = inserted + 1
      BY <1>2, <1>4, <2>2, <2>3, <3>1
    <3>2. CASE i # inserted + 1
      <4>1. i <= inserted /\ names[i] \in Meanings /\ author[i] \in Spellings
        BY <1>1, <2>3, <2>5, <3>2 DEF RowsAreKeyed
      <4> QED
        BY <1>2, <1>4, <2>3, <3>2, <4>1
    <3> QED
      BY <3>1, <3>2
  <2>6. ASSUME NEW i \in Ids, NEW j \in Ids, names'[i] # NoName, names'[i] = names'[j]
        PROVE  i = j
    <3>1. i # inserted + 1 /\ j # inserted + 1 => i = j
      BY <1>1, <2>3, <2>6 DEF RowsAreKeyed
    <3> QED
      BY <2>3, <2>4, <2>6, <3>1
  <2> QED
    BY <2>5, <2>6 DEF RowsAreKeyed
<1>5. ASSUME NEW i \in Ids, UNCHANGED inserted,
             names' = [names EXCEPT ![i] = NoName], author' = [author EXCEPT ![i] = NoKey]
      PROVE  RowsAreKeyed'
  <2>1. /\ names'[i] = NoName
        /\ \A j \in Ids : j # i => names'[j] = names[j] /\ author'[j] = author[j]
    BY <1>2, <1>5
  <2> QED
    BY <1>1, <1>5, <2>1 DEF RowsAreKeyed
<1> QED
  BY <1>1, <1>3, <1>4, <1>5, RequestsAndRows

LEMMA RequestsPreserve ==
  ASSUME RegistrationInvariant, NEW t \in Threads, RequestStep(t)
  PROVE  RegistrationInvariant'
<1>1. TypeOK /\ ServedWhileUp /\ RoomLeft
  BY DEF RegistrationInvariant
<1> QED
  BY <1>1, RequestsPreserveTypes, RequestsPreserveAccounts, RequestsPreserveService,
     RequestsKnowTheirNames, RequestsKeepRows, RequestsLeaveRoom DEF RegistrationInvariant

-----------------------------------------------------------------------------
(* The process preserves the invariant *)

LEMMA NobodyCreates ==
  ASSUME \A t \in Threads : pc[t] = "idle"
  PROVE  Creators = {} /\ Cardinality(Creators) = 0
<1>1. Creators = {}
  BY DEF Creators
<1> QED
  BY <1>1, FS_EmptySet

\* Where the process starts, no request is under way; the seed enters an admin
\* before there is any account.
LEMMA StartPreserves ==
  ASSUME RegistrationInvariant, Process
  PROVE  RegistrationInvariant'
<1>1. /\ TypeOK /\ StoredNormally /\ AdminIsFirst /\ ServedWhileUp /\ CreatorsKnow
      /\ InvalidMeansMalformed /\ RowsAreKeyed /\ RoomLeft
  BY DEF RegistrationInvariant
<1>2. UNCHANGED <<restarts, requestVars, domainVars, createVars>> /\ api # "up"
  BY DEF Process, ProcessStep, StartApi, CheckAdmin, InsertAdmin, Serve
<1>3. \A t \in Threads : pc[t] = "idle"
  BY <1>1, <1>2 DEF ServedWhileUp
<1>4. /\ users \in [Spellings -> Roles \cup {"none"}] /\ adminEmail \in AdminEmails
      /\ AdminEmails \subseteq Spellings
  BY <1>1, AdminEmailsAssumption DEF TypeOK
<1>5. /\ users' \in [Spellings -> Roles \cup {"none"}] /\ adminEmail' \in AdminEmails
      /\ api' \in {"seed", "insertAdmin", "recover", "up"}
  BY <1>4, NormalSpelling
     DEF Process, ProcessStep, StartApi, CheckAdmin, InsertAdmin, Serve, Roles
<1>6. /\ UNCHANGED users
      \/ /\ api = "insertAdmin" /\ api' = "recover"
         /\ ~UserExists(Normal(adminEmail))
         /\ users' = [users EXCEPT ![Normal(adminEmail)] = "ADMIN"]
  BY DEF Process, ProcessStep, StartApi, CheckAdmin, InsertAdmin, Serve
<1>7. TypeOK'
  <2>1. ASSUME NEW t \in Threads
        PROVE  KeyFits(t)'
    <3>1. KeyFits(t)
      BY <1>1 DEF TypeOK
    <3> QED
      BY <1>2, <3>1 DEF KeyFits
  <2> QED
    BY <1>1, <1>2, <1>5, <2>1 DEF TypeOK
<1>8. StoredNormally' /\ AdminIsFirst'
  <2>1. CASE UNCHANGED users
    <3>1. StoredNormally'
      BY <1>1, <2>1 DEF StoredNormally, UserExists
    <3>2. /\ api' = "insertAdmin" => ~AdminExists
          /\ api' \in {"recover", "up"} => AdminExists
      <4>1. CASE StartApi
        BY <4>1 DEF StartApi
      <4>2. CASE CheckAdmin
        BY <4>2 DEF CheckAdmin, AdminExists
      <4>3. CASE InsertAdmin
        BY <1>4, <2>1, <4>3, NormalSpelling DEF InsertAdmin, UserExists, AdminExists
      <4>4. CASE Serve
        BY <1>1, <4>4 DEF Serve, AdminIsFirst
      <4> QED
        BY <4>1, <4>2, <4>3, <4>4 DEF Process, ProcessStep
    <3> QED
      BY <1>1, <2>1, <3>1, <3>2 DEF AdminIsFirst, AdminExists, UserExists
  <2>2. CASE /\ api = "insertAdmin" /\ api' = "recover"
             /\ ~UserExists(Normal(adminEmail))
             /\ users' = [users EXCEPT ![Normal(adminEmail)] = "ADMIN"]
    <3>1. /\ Normal(adminEmail) \in Spellings
          /\ Normal(Normal(adminEmail)) = Normal(adminEmail)
      BY <1>4, NormalSpelling
    <3>2. AdminExists'
      BY <1>4, <2>2, <3>1 DEF AdminExists
    <3>3. \A s \in Spellings : s # Normal(adminEmail) => ~UserExists(s)'
      BY <1>1, <1>4, <2>2, <3>1 DEF AdminIsFirst, UserExists
    <3>4. StoredNormally'
      BY <3>1, <3>3 DEF StoredNormally
    <3> QED
      BY <2>2, <3>2, <3>4 DEF AdminIsFirst
  <2> QED
    BY <1>6, <2>1, <2>2
<1>9. ServedWhileUp' /\ CreatorsKnow' /\ RoomLeft' /\ InvalidMeansMalformed' /\ RowsAreKeyed'
  <2>1. Creators' = {} /\ Creators = {}
    BY <1>2, <1>3, NobodyCreates DEF Creators
  <2> QED
    BY <1>1, <1>2, <1>3, <2>1
       DEF ServedWhileUp, CreatorsKnow, RoomLeft, InvalidMeansMalformed, RowsAreKeyed
<1> QED
  BY <1>7, <1>8, <1>9 DEF RegistrationInvariant

LEMMA StopPreserves ==
  ASSUME RegistrationInvariant, Stop
  PROVE  RegistrationInvariant'
<1>1. TypeOK /\ StoredNormally /\ AdminIsFirst /\ RowsAreKeyed
  BY DEF RegistrationInvariant
<1>2. /\ UNCHANGED <<users, adminEmail, domainVars>> /\ api' = "down" /\ restarts' \in 0..MaxRestarts
      /\ pc' = [t \in Threads |-> "idle"] /\ key' = [t \in Threads |-> NoKey]
      /\ role' = [t \in Threads |-> "none"] /\ answer' = [t \in Threads |-> "none"]
      /\ actor' = [t \in Threads |-> NoKey] /\ meant' = [t \in Threads |-> NoName]
  BY <1>1, RestartsAssumption DEF Stop, StopApi, TypeOK
<1>3. Creators' = {}
  BY <1>2 DEF Creators
<1>4. TypeOK'
  <2>1. \A t \in Threads : KeyFits(t)'
    BY <1>2 DEF KeyFits
  <2>2. /\ users \in [Spellings -> Roles \cup {"none"}] /\ adminEmail \in AdminEmails
        /\ inserted \in 0..MaxDomains /\ names \in [Ids -> Seq(Chars)]
        /\ author \in [Ids -> Spellings \cup {NoKey}] /\ NoName \in Seq(Chars)
    BY <1>1, EmptySeq DEF TypeOK, NoName
  <2>3. /\ pc' \in [Threads -> Places] /\ role' \in [Threads -> Roles \cup {"none"}]
        /\ answer' \in [Threads -> Answers] /\ actor' \in [Threads -> Spellings \cup {NoKey}]
        /\ meant' \in [Threads -> Seq(Chars)] /\ DOMAIN key' = Threads
    BY <1>2, <2>2 DEF Places, Answers
  <2> QED
    BY <1>2, <2>1, <2>2, <2>3 DEF TypeOK
<1>5. StoredNormally' /\ AdminIsFirst' /\ RowsAreKeyed'
  BY <1>1, <1>2 DEF StoredNormally, AdminIsFirst, AdminExists, RowsAreKeyed, UserExists
<1>6. ServedWhileUp' /\ CreatorsKnow' /\ InvalidMeansMalformed'
  BY <1>2, <1>3 DEF ServedWhileUp, CreatorsKnow, InvalidMeansMalformed, NoName, NotAName
<1>7. RoomLeft'
  <2>1. Cardinality(Creators') = 0
    BY <1>3, FS_EmptySet
  <2> QED
    BY <1>1, <1>2, <2>1, DomainsAssumption DEF RoomLeft, TypeOK
<1> QED
  BY <1>4, <1>5, <1>6, <1>7 DEF RegistrationInvariant

LEMMA InitEstablishes == Init => RegistrationInvariant
<1> SUFFICES ASSUME Init  PROVE RegistrationInvariant
  OBVIOUS
<1> USE DEF Init, AccountsInit, DomainNamesInit
<1>1. Creators = {} /\ Cardinality(Creators) = 0
  BY NobodyCreates
<1>2. NoName \in Seq(Chars) /\ 0 \in 0..MaxDomains /\ 0 \in 0..MaxRestarts
  BY EmptySeq, DomainsAssumption, RestartsAssumption DEF NoName
<1>3. \A t \in Threads : KeyFits(t)
  BY DEF KeyFits
<1>4. TypeOK
  BY <1>2, <1>3 DEF TypeOK, Places, Answers
<1>5. StoredNormally /\ AdminIsFirst /\ ServedWhileUp /\ RowsAreKeyed
  BY DEF StoredNormally, AdminIsFirst, ServedWhileUp, RowsAreKeyed, UserExists
<1>6. CreatorsKnow /\ InvalidMeansMalformed /\ RoomLeft
  BY <1>1, DomainsAssumption DEF CreatorsKnow, InvalidMeansMalformed, RoomLeft
<1> QED
  BY <1>4, <1>5, <1>6 DEF RegistrationInvariant

LEMMA IdlePreserves ==
  ASSUME RegistrationInvariant, UNCHANGED vars
  PROVE  RegistrationInvariant'
<1>1. \A t \in Threads : KeyFits(t) => KeyFits(t)'
  BY DEF vars, KeyFits
<1>2. Creators' = Creators
  BY DEF vars, Creators
<1>3. TypeOK'
  BY <1>1 DEF RegistrationInvariant, TypeOK, vars
<1>4. (StoredNormally /\ AdminIsFirst /\ ServedWhileUp /\ InvalidMeansMalformed)'
  BY DEF vars, RegistrationInvariant, StoredNormally, AdminIsFirst, AdminExists, ServedWhileUp,
         InvalidMeansMalformed, UserExists
<1>5. (CreatorsKnow /\ RowsAreKeyed /\ RoomLeft)'
  BY <1>2 DEF vars, RegistrationInvariant, CreatorsKnow, RowsAreKeyed, RoomLeft
<1> QED
  BY <1>3, <1>4, <1>5 DEF RegistrationInvariant

\* The inductive invariant: no account precedes the seeded admin and none but the
\* first admin is ever seeded, over any number of restarts with any ADMIN_EMAIL;
\* whoever waits to insert a row keeps the name its client means.
THEOREM RegistrationInvariantHolds == Spec => []RegistrationInvariant
<1>1. RegistrationInvariant /\ [Next]_vars => RegistrationInvariant'
  BY StepCases, StartPreserves, StopPreserves, RequestsPreserve, IdlePreserves
<1> QED
  BY <1>1, InitEstablishes, PTL DEF Spec

-----------------------------------------------------------------------------
(* What follows from it *)

\* Variables stay in their ranges, and a request under way has the key it needs.
THEOREM TypeCorrect == Spec => []TypeOK
<1>1. RegistrationInvariant => TypeOK
  BY DEF RegistrationInvariant
<1> QED
  BY <1>1, RegistrationInvariantHolds, PTL

\* The seed of the bootstrap admin never fails, so that the API can always start
\* again, and whoever is served finds an admin.
THEOREM SeedNeverFails == Spec => []SeedSucceeds
<1>1. RegistrationInvariant => SeedSucceeds
  <2> SUFFICES ASSUME RegistrationInvariant  PROVE SeedSucceeds
    OBVIOUS
  <2>1. AdminIsFirst /\ adminEmail \in Spellings
    BY AdminEmailsAssumption DEF RegistrationInvariant, TypeOK
  <2>2. Normal(adminEmail) \in Spellings
    BY <2>1, NormalSpelling
  <2> QED
    BY <2>1, <2>2 DEF AdminIsFirst, AdminExists, SeedSucceeds
<1> QED
  BY <1>1, RegistrationInvariantHolds, PTL

\* An address has one account at most, however it is spelled.
THEOREM OneAccountEach == Spec => []OneAccountPerMailbox
<1>1. RegistrationInvariant => OneAccountPerMailbox
  BY DEF RegistrationInvariant, StoredNormally, OneAccountPerMailbox, Normal
<1> QED
  BY <1>1, RegistrationInvariantHolds, PTL

\* What the domains table holds is a DNS name in the spelling the code stores.
THEOREM NamesAreFqdns == Spec => []StoredNamesAreFqdns
<1>1. RegistrationInvariant => StoredNamesAreFqdns
  BY MeaningsAreNames DEF RegistrationInvariant, RowsAreKeyed, StoredNamesAreFqdns
<1> QED
  BY <1>1, RegistrationInvariantHolds, PTL

\* Only a text that stands for no DNS name is refused as an invalid one.
THEOREM RefusalsAreRight == Spec => []InvalidMeansMalformed
<1>1. RegistrationInvariant => InvalidMeansMalformed
  BY DEF RegistrationInvariant
<1> QED
  BY <1>1, RegistrationInvariantHolds, PTL

-----------------------------------------------------------------------------
(* The users table is a registry *)

LEMMA AccountFrame ==
  ASSUME RegistrationInvariant, NEW t \in Threads, RequestStep(t)
  PROVE  \A q \in Threads : q # t =>
           /\ AskedAddress(q)' = AskedAddress(q) /\ AccountOutcome(q)' = AccountOutcome(q)
           /\ AskedName(q)' = AskedName(q) /\ CreationOutcome(q)' = CreationOutcome(q)
<1>1. TypeOK /\ ServedWhileUp
  BY DEF RegistrationInvariant
<1>2. ASSUME NEW q \in Threads, q # t
      PROVE  pc'[q] = pc[q] /\ key'[q] = key[q] /\ answer'[q] = answer[q] /\ meant'[q] = meant[q]
  BY <1>1, <1>2, RequestFrame
<1> QED
  BY <1>2 DEF AskedAddress, AskedName, AccountOutcome, CreationOutcome, Outcome

LEMMA AddressEntered ==
  ASSUME TypeOK, StoredNormally, NEW email \in Spellings, ~UserExists(Normal(email)),
         NEW newRole \in Roles, users' = [users EXCEPT ![Normal(email)] = newRole]
  PROVE  email[1] \notin Addresses /\ Addresses' = Addresses \cup {email[1]}
<1>1. /\ Normal(email) \in Spellings /\ Normal(email)[1] = email[1]
      /\ users \in [Spellings -> Roles \cup {"none"}] /\ newRole # "none"
  BY NormalSpelling DEF TypeOK, Roles
<1>2. \A s \in Spellings : UserExists(s)' <=> UserExists(s) \/ s = Normal(email)
  BY <1>1 DEF UserExists
<1>3. email[1] \notin Addresses
  <2> SUFFICES ASSUME NEW s \in Spellings, UserExists(s), s[1] = email[1]
               PROVE  FALSE
    BY DEF Addresses
  <2>1. s = Normal(s)
    BY DEF StoredNormally
  <2>2. Normal(s) = Normal(email)
    BY DEF Normal
  <2> QED
    BY <2>1, <2>2
<1>4. Addresses' = Addresses \cup {email[1]}
  BY <1>1, <1>2 DEF Addresses
<1> QED
  BY <1>3, <1>4

LEMMA RequestsKeepAccountRegistry ==
  ASSUME RegistrationInvariant, NEW t \in Threads, RequestStep(t)
  PROVE  UserRegistry!RegistryNext \/ UNCHANGED UserRegistry!registryVars
<1>1. TypeOK /\ StoredNormally /\ ServedWhileUp /\ KeyFits(t)
  BY DEF RegistrationInvariant, TypeOK
<1>2. /\ pc \in [Threads -> Places] /\ answer \in [Threads -> Answers] /\ DOMAIN key = Threads
      /\ role \in [Threads -> Roles \cup {"none"}]
  BY <1>1 DEF TypeOK
<1>3. \A q \in Threads : q # t =>
        AskedAddress(q)' = AskedAddress(q) /\ AccountOutcome(q)' = AccountOutcome(q)
  BY AccountFrame
<1> DEFINE asked == [q \in Threads |-> AskedAddress(q)]
           outcome == [q \in Threads |-> AccountOutcome(q)]
<1>4. /\ asked' = [asked EXCEPT ![t] = AskedAddress(t)']
      /\ outcome' = [outcome EXCEPT ![t] = AccountOutcome(t)']
      /\ asked[t] = AskedAddress(t) /\ outcome[t] = AccountOutcome(t)
  BY <1>3
<1>5. ASSUME NEW a \in Spellings, NEW email \in Spellings, NEW newRole \in Roles,
             StartRegister(t, a, email, newRole)
      PROVE  UserRegistry!RegistryNext
  <2>1. /\ UNCHANGED users /\ pc[t] = "idle" /\ pc'[t] = "checkUser" /\ key'[t] = email
        /\ answer'[t] = "none"
    BY <1>2, <1>5 DEF StartRegister
  <2>2. AskedAddress(t) = NoKey /\ AskedAddress(t)' = email[1] /\ AccountOutcome(t)' = "none"
    BY <2>1 DEF AskedAddress, AccountOutcome, Outcome
  <2>3. UNCHANGED Addresses
    BY <2>1 DEF Addresses, UserExists
  <2>4. UserRegistry!Ask(t, email[1])
    BY <1>4, <2>2, <2>3 DEF UserRegistry!Ask
  <2> QED
    BY <2>4, NormalSpelling DEF UserRegistry!RegistryNext
<1>6. ASSUME pc[t] \in {"checkUser", "insertUser"}
      PROVE  /\ key[t] \in Spellings /\ AskedAddress(t) = key[t][1] /\ AskedAddress(t) # NoKey
             /\ Normal(key[t]) \in Spellings /\ Normal(key[t])[1] = key[t][1]
             /\ answer[t] = "none" /\ role[t] \in Roles
  <2>1. key[t] \in Spellings /\ role[t] \in Roles
    BY <1>1, <1>6 DEF KeyFits
  <2>2. AskedAddress(t) = key[t][1]
    BY <1>6 DEF AskedAddress
  <2> QED
    BY <1>1, <1>6, <2>1, <2>2, NormalSpelling, MailboxesAssumption DEF ServedWhileUp
<1>7. ASSUME pc[t] \in {"checkUser", "insertUser"}, UserExists(Normal(key[t])), UNCHANGED users,
             pc'[t] = "idle", answer'[t] \in {"userConflict", "userClash"}
      PROVE  UserRegistry!RegistryNext
  <2>1. AskedAddress(t)' = NoKey /\ AccountOutcome(t)' = "refused"
    BY <1>7 DEF AskedAddress, AccountOutcome, Outcome
  <2>2. UNCHANGED Addresses
    BY <1>7 DEF Addresses, UserExists
  <2>3. AskedAddress(t) \in Addresses
    BY <1>6, <1>7 DEF Addresses
  <2>4. UserRegistry!Refuse(t)
    BY <1>4, <1>6, <1>7, <2>1, <2>2, <2>3 DEF UserRegistry!Refuse, UserRegistry!Answer
  <2> QED
    BY <2>4 DEF UserRegistry!RegistryNext
<1>8. ASSUME CheckUser(t)
      PROVE  UserRegistry!RegistryNext \/ UNCHANGED UserRegistry!registryVars
  <2>1. pc[t] = "checkUser" /\ UNCHANGED users
    BY <1>8 DEF CheckUser
  <2>2. CASE UserExists(Normal(key[t])) /\ Answered(t, "userConflict")
    <3>1. pc'[t] = "idle" /\ answer'[t] = "userConflict"
      BY <1>2, <2>2
    <3> QED
      BY <1>7, <2>1, <2>2, <3>1
  <2>3. CASE pc' = [pc EXCEPT ![t] = "insertUser"] /\ UNCHANGED <<key, answer>>
    <3>1. AskedAddress(t)' = AskedAddress(t) /\ AccountOutcome(t)' = AccountOutcome(t)
      BY <1>2, <2>1, <2>3 DEF AskedAddress, AccountOutcome, Outcome
    <3>2. UNCHANGED Addresses
      BY <2>1 DEF Addresses, UserExists
    <3>3. asked' = asked /\ outcome' = outcome
      BY <1>3, <3>1
    <3> QED
      BY <3>2, <3>3 DEF UserRegistry!registryVars
  <2> QED
    BY <1>8, <2>2, <2>3 DEF CheckUser
<1>9. ASSUME InsertUser(t)
      PROVE  UserRegistry!RegistryNext
  <2>1. pc[t] = "insertUser"
    BY <1>9 DEF InsertUser
  <2>2. CASE /\ ~UserExists(Normal(key[t]))
             /\ users' = [users EXCEPT ![Normal(key[t])] = role[t]]
             /\ Answered(t, "userCreated")
    <3>1. pc'[t] = "idle" /\ answer'[t] = "userCreated"
      BY <1>2, <2>2
    <3>2. AskedAddress(t)' = NoKey /\ AccountOutcome(t)' = "accepted"
      BY <3>1 DEF AskedAddress, AccountOutcome, Outcome
    <3>3. AskedAddress(t) \notin Addresses /\ Addresses' = Addresses \cup {AskedAddress(t)}
      BY <1>1, <1>6, <2>1, <2>2, AddressEntered
    <3>4. UserRegistry!Accept(t)
      BY <1>4, <1>6, <2>1, <3>2, <3>3 DEF UserRegistry!Accept, UserRegistry!Answer
    <3> QED
      BY <3>4 DEF UserRegistry!RegistryNext
  <2>3. CASE UserExists(Normal(key[t])) /\ UNCHANGED users /\ Answered(t, "userClash")
    <3>1. pc'[t] = "idle" /\ answer'[t] = "userClash"
      BY <1>2, <2>3
    <3> QED
      BY <1>7, <2>1, <2>3, <3>1
  <2> QED
    BY <1>9, <2>2, <2>3 DEF InsertUser
<1>10. ASSUME \/ \E a \in Spellings, reading \in Readings : StartCreate(t, a, reading)
              \/ \E a \in Spellings, reading \in Readings : RefuseName(t, a, reading)
              \/ CheckName(t) \/ InsertName(t)
              \/ \E a \in Spellings, i \in Ids : StartDelete(t, a, i)
              \/ DeleteRow(t)
       PROVE  UserRegistry!RegistryNext
  <2>1. /\ UNCHANGED users
        /\ pc[t] \notin {"checkUser", "insertUser"} /\ pc'[t] \notin {"checkUser", "insertUser"}
        /\ answer'[t] \notin {"userCreated", "userConflict", "userClash"}
    BY <1>1, <1>2, <1>10
       DEF StartCreate, RefuseName, CheckName, InsertName, InsertRow, StartDelete, DeleteRow,
           ServedWhileUp
  <2>2. AskedAddress(t)' = NoKey /\ AccountOutcome(t)' = "none"
    BY <2>1 DEF AskedAddress, AccountOutcome, Outcome
  <2>3. UNCHANGED Addresses
    BY <2>1 DEF Addresses, UserExists
  <2>4. /\ asked' = [q \in Threads |-> IF q \in {t} THEN NoKey ELSE asked[q]]
        /\ outcome' = [q \in Threads |-> IF q \in {t} THEN "none" ELSE outcome[q]]
    BY <1>3, <2>2
  <2>5. UserRegistry!Leave({t})
    BY <2>3, <2>4 DEF UserRegistry!Leave
  <2>6. {t} \in SUBSET Threads
    OBVIOUS
  <2> QED
    BY <2>5, <2>6 DEF UserRegistry!RegistryNext
<1> QED
  BY <1>5, <1>8, <1>9, <1>10 DEF RequestStep

\* The seed enters an address of the process's own; the rest of its start changes
\* no account, and its stop leaves every request without an answer.
LEMMA ProcessKeepsAccountRegistry ==
  ASSUME RegistrationInvariant, Process
  PROVE  UserRegistry!RegistryNext \/ UNCHANGED UserRegistry!registryVars
<1>1. TypeOK /\ StoredNormally /\ adminEmail \in Spellings
  BY AdminEmailsAssumption DEF RegistrationInvariant, TypeOK
<1>2. UNCHANGED requestVars
  BY DEF Process, ProcessStep, StartApi, CheckAdmin, InsertAdmin, Serve
<1> DEFINE asked == [q \in Threads |-> AskedAddress(q)]
           outcome == [q \in Threads |-> AccountOutcome(q)]
<1>3. asked' = asked /\ outcome' = outcome
  BY <1>2 DEF AskedAddress, AccountOutcome, Outcome
<1>4. CASE UNCHANGED users
  <2>1. UNCHANGED Addresses
    BY <1>4 DEF Addresses, UserExists
  <2> QED
    BY <1>3, <2>1 DEF UserRegistry!registryVars
<1>5. CASE InsertAdmin
  <2>1. /\ adminEmail[1] \in Mailboxes /\ adminEmail[1] \notin Addresses
        /\ Addresses' = Addresses \cup {adminEmail[1]}
    BY <1>1, <1>5, AddressEntered, NormalSpelling DEF InsertAdmin, Roles
  <2>2. UserRegistry!Enter(adminEmail[1])
    BY <1>3, <2>1 DEF UserRegistry!Enter
  <2> QED
    BY <2>1, <2>2 DEF UserRegistry!RegistryNext
<1> QED
  BY <1>4, <1>5 DEF Process, ProcessStep, StartApi, CheckAdmin, Serve

\* What the end of the process, or a step of nothing, is to either registry.
LEMMA NobodyAsks ==
  ASSUME \A t \in Threads : pc[t] = "idle" /\ answer[t] = "none"
  PROVE  \A t \in Threads :
           /\ AskedAddress(t) = NoKey /\ AccountOutcome(t) = "none"
           /\ AskedName(t) = NoName /\ CreationOutcome(t) = "none"
BY DEF AskedAddress, AccountOutcome, AskedName, CreationOutcome, Outcome

LEMMA StopAsksNothing ==
  ASSUME Stop
  PROVE  /\ UNCHANGED <<users, domainVars>>
         /\ \A t \in Threads :
              /\ AskedAddress(t)' = NoKey /\ AccountOutcome(t)' = "none"
              /\ AskedName(t)' = NoName /\ CreationOutcome(t)' = "none"
<1>1. /\ UNCHANGED <<users, domainVars>>
      /\ \A t \in Threads : pc'[t] = "idle" /\ answer'[t] = "none"
  BY DEF Stop, StopApi
<1> QED
  BY <1>1 DEF AskedAddress, AccountOutcome, AskedName, CreationOutcome, Outcome

LEMMA StopKeepsAccountRegistry ==
  ASSUME Stop
  PROVE  UserRegistry!RegistryNext
<1> DEFINE asked == [q \in Threads |-> AskedAddress(q)]
           outcome == [q \in Threads |-> AccountOutcome(q)]
<1>1. UNCHANGED Addresses
  BY StopAsksNothing DEF Addresses, UserExists
<1>2. /\ asked' = [q \in Threads |-> IF q \in Threads THEN NoKey ELSE asked[q]]
      /\ outcome' = [q \in Threads |-> IF q \in Threads THEN "none" ELSE outcome[q]]
  BY StopAsksNothing
<1>3. UserRegistry!Leave(Threads)
  BY <1>1, <1>2 DEF UserRegistry!Leave
<1> QED
  BY <1>3 DEF UserRegistry!RegistryNext

LEMMA IdleKeepsAccountRegistry ==
  ASSUME UNCHANGED vars
  PROVE  UNCHANGED UserRegistry!registryVars
<1>1. UNCHANGED Addresses
  BY DEF vars, Addresses, UserExists
<1>2. \A t \in Threads : AskedAddress(t)' = AskedAddress(t) /\ AccountOutcome(t)' = AccountOutcome(t)
  BY DEF vars, AskedAddress, AccountOutcome, Outcome
<1> QED
  BY <1>1, <1>2 DEF UserRegistry!registryVars

LEMMA InitIsEmptyAccountRegistry == Init => UserRegistry!RegistryInit
<1> SUFFICES ASSUME Init  PROVE UserRegistry!RegistryInit
  OBVIOUS
<1>1. Addresses = {} /\ \A t \in Threads : pc[t] = "idle" /\ answer[t] = "none"
  BY DEF Init, AccountsInit, Addresses, UserExists
<1> QED
  BY <1>1, NobodyAsks DEF UserRegistry!RegistryInit

\* Although an address is looked up in one transaction and inserted in another, a
\* registration takes effect at one moment: its address is entered once, and it is
\* refused only an address that is entered.
THEOREM AccountsRefineRegistry == Spec => AccountsAreARegistry
<1>1. RegistrationInvariant /\ [Next]_vars
        => [UserRegistry!RegistryNext]_(UserRegistry!registryVars)
  <2> SUFFICES ASSUME RegistrationInvariant, [Next]_vars
               PROVE  UserRegistry!RegistryNext \/ UNCHANGED UserRegistry!registryVars
    OBVIOUS
  <2> QED
    BY StepCases, ProcessKeepsAccountRegistry, StopKeepsAccountRegistry,
       RequestsKeepAccountRegistry, IdleKeepsAccountRegistry
<1> QED
  BY <1>1, InitIsEmptyAccountRegistry, RegistrationInvariantHolds, PTL
     DEF Spec, AccountsAreARegistry, UserRegistry!RegistrySpec

-----------------------------------------------------------------------------
(* The domains table is a registry *)

LEMMA NameEntered ==
  ASSUME RegistrationInvariant, NEW t \in Creators, ~NameTaken(key[t]),
         names' = [names EXCEPT ![inserted + 1] = key[t]]
  PROVE  key[t] \notin DomainNameSet /\ DomainNameSet' = DomainNameSet \cup {key[t]}
<1>1. TypeOK /\ RowsAreKeyed /\ RoomLeft /\ CreatorsKnow
  BY DEF RegistrationInvariant
<1>2. names \in [Ids -> Seq(Chars)] /\ inserted + 1 \in Ids /\ inserted \in Nat
  BY <1>1, IdIsLeft, DomainsAssumption DEF TypeOK
<1>3. key[t] # NoName
  BY <1>1, MeaningsAreNames DEF CreatorsKnow
<1>4. names[inserted + 1] = NoName
  <2>1. ~(inserted + 1 <= inserted)
    BY <1>2
  <2> QED
    BY <1>1, <1>2, <2>1 DEF RowsAreKeyed
<1>5. /\ names'[inserted + 1] = key[t]
      /\ \A i \in Ids : i # inserted + 1 => names'[i] = names[i]
  BY <1>2
<1>6. key[t] \notin DomainNameSet
  BY DEF DomainNameSet, NameTaken
<1>7. DomainNameSet' = DomainNameSet \cup {key[t]}
  <2>1. \A n : n \in DomainNameSet' <=> n # NoName /\ \E i \in Ids : names'[i] = n
    BY DEF DomainNameSet
  <2>2. \A n : n \in DomainNameSet <=> n # NoName /\ \E i \in Ids : names[i] = n
    BY DEF DomainNameSet
  <2> QED
    BY <1>2, <1>3, <1>4, <1>5, <2>1, <2>2
<1> QED
  BY <1>6, <1>7

\* Rows have names of their own, and so the name of a deleted row is gone.
LEMMA NameRemoved ==
  ASSUME RegistrationInvariant, NEW i \in Ids, names' = [names EXCEPT ![i] = NoName]
  PROVE  DomainNameSet' = DomainNameSet \ {names[i]}
<1>1. TypeOK /\ RowsAreKeyed
  BY DEF RegistrationInvariant
<1>2. names'[i] = NoName /\ \A j \in Ids : j # i => names'[j] = names[j]
  BY <1>1 DEF TypeOK
<1>3. \A n : n \in DomainNameSet' <=> n # NoName /\ \E j \in Ids : names'[j] = n
  BY DEF DomainNameSet
<1>4. \A n : n \in DomainNameSet <=> n # NoName /\ \E j \in Ids : names[j] = n
  BY DEF DomainNameSet
<1>5. \A j, k \in Ids : (names[j] # NoName /\ names[j] = names[k]) => j = k
  BY <1>1 DEF RowsAreKeyed
<1>6. \A n : n \in DomainNameSet' <=> n \in DomainNameSet /\ n # names[i]
  BY <1>2, <1>3, <1>4, <1>5
<1> QED
  BY <1>6

LEMMA RequestsKeepNameRegistry ==
  ASSUME RegistrationInvariant, NEW t \in Threads, RequestStep(t)
  PROVE  NameRegistry!RegistryNext \/ UNCHANGED NameRegistry!registryVars
<1>1. TypeOK /\ ServedWhileUp /\ CreatorsKnow /\ RowsAreKeyed
  BY DEF RegistrationInvariant
<1>2. /\ pc \in [Threads -> Places] /\ answer \in [Threads -> Answers] /\ DOMAIN key = Threads
      /\ meant \in [Threads -> Seq(Chars)] /\ names \in [Ids -> Seq(Chars)]
  BY <1>1 DEF TypeOK
<1>3. \A q \in Threads : q # t =>
        AskedName(q)' = AskedName(q) /\ CreationOutcome(q)' = CreationOutcome(q)
  BY AccountFrame
<1> DEFINE asked == [q \in Threads |-> AskedName(q)]
           outcome == [q \in Threads |-> CreationOutcome(q)]
<1>4. /\ asked' = [asked EXCEPT ![t] = AskedName(t)']
      /\ outcome' = [outcome EXCEPT ![t] = CreationOutcome(t)']
      /\ asked[t] = AskedName(t) /\ outcome[t] = CreationOutcome(t)
  BY <1>3
<1>5. ASSUME NEW a \in Spellings, NEW reading \in Readings, StartCreate(t, a, reading)
      PROVE  NameRegistry!RegistryNext
  <2>1. /\ UNCHANGED names /\ pc[t] = "idle" /\ pc'[t] = "checkName" /\ answer'[t] = "none"
        /\ meant'[t] = reading.meant
    BY <1>2, <1>5 DEF StartCreate
  <2>2. /\ AskedName(t) = NoName /\ AskedName(t)' = reading.meant
        /\ CreationOutcome(t)' = "none"
    BY <2>1 DEF AskedName, CreationOutcome, Outcome
  <2>3. UNCHANGED DomainNameSet
    BY <2>1 DEF DomainNameSet
  <2>4. NameRegistry!Ask(t, reading.meant)
    BY <1>4, <2>2, <2>3 DEF NameRegistry!Ask
  <2>5. reading.meant \in Meanings
    BY <1>5, ReadingsAgree DEF StartCreate
  <2> QED
    BY <2>4, <2>5 DEF NameRegistry!RegistryNext
<1>6. ASSUME pc[t] \in {"checkName", "insertName"}
      PROVE  /\ t \in Creators /\ AskedName(t) = key[t] /\ key[t] # NoName /\ answer[t] = "none"
  <2>1. t \in Creators /\ AskedName(t) = meant[t]
    BY <1>6 DEF AskedName, Creators
  <2> QED
    BY <1>1, <1>6, <2>1, MeaningsAreNames DEF CreatorsKnow, ServedWhileUp
<1>7. ASSUME pc[t] \in {"checkName", "insertName"}, NameTaken(key[t]), UNCHANGED names,
             pc'[t] = "idle", answer'[t] \in {"nameConflict", "nameClash"}
      PROVE  NameRegistry!RegistryNext
  <2>1. AskedName(t)' = NoName /\ CreationOutcome(t)' = "refused"
    BY <1>7 DEF AskedName, CreationOutcome, Outcome
  <2>2. UNCHANGED DomainNameSet
    BY <1>7 DEF DomainNameSet
  <2>3. AskedName(t) \in DomainNameSet
    BY <1>6, <1>7 DEF DomainNameSet, NameTaken
  <2>4. NameRegistry!Refuse(t)
    BY <1>4, <1>6, <1>7, <2>1, <2>2, <2>3 DEF NameRegistry!Refuse, NameRegistry!Answer
  <2> QED
    BY <2>4 DEF NameRegistry!RegistryNext
<1>8. ASSUME CheckName(t)
      PROVE  NameRegistry!RegistryNext \/ UNCHANGED NameRegistry!registryVars
  <2>1. pc[t] = "checkName" /\ UNCHANGED names
    BY <1>8 DEF CheckName
  <2>2. CASE NameTaken(key[t]) /\ Answered(t, "nameConflict")
    <3>1. pc'[t] = "idle" /\ answer'[t] = "nameConflict"
      BY <1>2, <2>2
    <3> QED
      BY <1>7, <2>1, <2>2, <3>1
  <2>3. CASE pc' = [pc EXCEPT ![t] = "insertName"] /\ UNCHANGED <<answer, meant>>
    <3>1. AskedName(t)' = AskedName(t) /\ CreationOutcome(t)' = CreationOutcome(t)
      BY <1>2, <2>1, <2>3 DEF AskedName, CreationOutcome, Outcome
    <3>2. UNCHANGED DomainNameSet
      BY <2>1 DEF DomainNameSet
    <3>3. asked' = asked /\ outcome' = outcome
      BY <1>3, <3>1
    <3> QED
      BY <3>2, <3>3 DEF NameRegistry!registryVars
  <2> QED
    BY <1>8, <2>2, <2>3 DEF CheckName, createVars
<1>9. ASSUME InsertName(t)
      PROVE  NameRegistry!RegistryNext
  <2>1. pc[t] = "insertName"
    BY <1>9 DEF InsertName
  <2>2. CASE ~NameTaken(key[t]) /\ InsertRow(t)
    <3>1. pc'[t] = "idle" /\ answer'[t] = "domainCreated"
      BY <1>2, <2>2 DEF InsertRow
    <3>2. AskedName(t)' = NoName /\ CreationOutcome(t)' = "accepted"
      BY <3>1 DEF AskedName, CreationOutcome, Outcome
    <3>3. AskedName(t) \notin DomainNameSet /\ DomainNameSet' = DomainNameSet \cup {AskedName(t)}
      BY <1>6, <2>1, <2>2, NameEntered DEF InsertRow
    <3>4. NameRegistry!Accept(t)
      BY <1>4, <1>6, <2>1, <3>2, <3>3 DEF NameRegistry!Accept, NameRegistry!Answer
    <3> QED
      BY <3>4 DEF NameRegistry!RegistryNext
  <2>3. CASE NameTaken(key[t]) /\ Answered(t, "nameClash") /\ UNCHANGED domainVars
    <3>1. pc'[t] = "idle" /\ answer'[t] = "nameClash"
      BY <1>2, <2>3
    <3> QED
      BY <1>7, <2>1, <2>3, <3>1
  <2> QED
    BY <1>9, <2>2, <2>3 DEF InsertName
<1>10. ASSUME DeleteRow(t)
       PROVE  NameRegistry!RegistryNext \/ UNCHANGED NameRegistry!registryVars
  <2>1. PICK i \in Ids : key[t] = <<i>>
    BY <1>1, <1>10 DEF TypeOK, KeyFits, DeleteRow
  <2>2. key[t][1] = i
    BY <2>1
  <2>3. names' = [names EXCEPT ![i] = NoName]
    BY <1>10, <2>2 DEF DeleteRow
  <2>4. pc[t] = "deleteRow" /\ pc'[t] = "idle" /\ answer[t] = "none" /\ answer'[t] = "domainDeleted"
    BY <1>1, <1>2, <1>10 DEF DeleteRow, ServedWhileUp
  <2>5. AskedName(t)' = AskedName(t) /\ CreationOutcome(t)' = CreationOutcome(t)
    BY <2>4 DEF AskedName, CreationOutcome, Outcome
  <2>6. asked' = asked /\ outcome' = outcome
    BY <1>3, <2>5
  <2>7. DomainNameSet' = DomainNameSet \ {names[i]}
    BY <2>3, NameRemoved
  <2>8. CASE names[i] = NoName
    <3>1. UNCHANGED DomainNameSet
      BY <2>7, <2>8 DEF DomainNameSet
    <3> QED
      BY <2>6, <3>1 DEF NameRegistry!registryVars
  <2>9. CASE names[i] # NoName
    <3>1. names[i] \in Meanings
      BY <1>1, <2>9 DEF RowsAreKeyed
    <3>2. NameRegistry!Remove(names[i])
      BY <2>6, <2>7 DEF NameRegistry!Remove
    <3> QED
      BY <3>1, <3>2 DEF NameRegistry!RegistryNext
  <2> QED
    BY <2>8, <2>9
<1>11. ASSUME \/ \E a, email \in Spellings, newRole \in Roles :
                   StartRegister(t, a, email, newRole) /\ Forget(t) /\ UNCHANGED domainVars
              \/ CheckUser(t) /\ Forget(t) /\ UNCHANGED domainVars
              \/ InsertUser(t) /\ Forget(t) /\ UNCHANGED domainVars
              \/ \E a \in Spellings, reading \in Readings : RefuseName(t, a, reading)
              \/ \E a \in Spellings, i \in Ids : StartDelete(t, a, i)
       PROVE  NameRegistry!RegistryNext
  <2>1. /\ UNCHANGED names
        /\ pc'[t] \notin {"checkName", "insertName"}
        /\ answer'[t] \notin {"domainCreated", "nameConflict", "nameClash"}
    BY <1>1, <1>2, <1>11
       DEF StartRegister, CheckUser, InsertUser, RefuseName, StartDelete, ServedWhileUp
  <2>2. AskedName(t)' = NoName /\ CreationOutcome(t)' = "none"
    BY <2>1 DEF AskedName, CreationOutcome, Outcome
  <2>3. UNCHANGED DomainNameSet
    BY <2>1 DEF DomainNameSet
  <2>4. /\ asked' = [q \in Threads |-> IF q \in {t} THEN NoName ELSE asked[q]]
        /\ outcome' = [q \in Threads |-> IF q \in {t} THEN "none" ELSE outcome[q]]
    BY <1>3, <2>2
  <2>5. NameRegistry!Leave({t})
    BY <2>3, <2>4 DEF NameRegistry!Leave
  <2>6. {t} \in SUBSET Threads
    OBVIOUS
  <2> QED
    BY <2>5, <2>6 DEF NameRegistry!RegistryNext
<1> QED
  BY <1>5, <1>8, <1>9, <1>10, <1>11 DEF RequestStep

LEMMA ProcessKeepsNameRegistry ==
  ASSUME Process
  PROVE  UNCHANGED NameRegistry!registryVars
<1>1. UNCHANGED <<requestVars, domainVars, createVars>>
  BY DEF Process, ProcessStep, StartApi, CheckAdmin, InsertAdmin, Serve
<1>2. UNCHANGED DomainNameSet
  BY <1>1 DEF DomainNameSet
<1>3. \A t \in Threads : AskedName(t)' = AskedName(t) /\ CreationOutcome(t)' = CreationOutcome(t)
  BY <1>1 DEF AskedName, CreationOutcome, Outcome
<1> QED
  BY <1>2, <1>3 DEF NameRegistry!registryVars

LEMMA StopKeepsNameRegistry ==
  ASSUME Stop
  PROVE  NameRegistry!RegistryNext
<1> DEFINE asked == [q \in Threads |-> AskedName(q)]
           outcome == [q \in Threads |-> CreationOutcome(q)]
<1>1. UNCHANGED DomainNameSet
  BY StopAsksNothing DEF DomainNameSet
<1>2. /\ asked' = [q \in Threads |-> IF q \in Threads THEN NoName ELSE asked[q]]
      /\ outcome' = [q \in Threads |-> IF q \in Threads THEN "none" ELSE outcome[q]]
  BY StopAsksNothing
<1>3. NameRegistry!Leave(Threads)
  BY <1>1, <1>2 DEF NameRegistry!Leave
<1> QED
  BY <1>3 DEF NameRegistry!RegistryNext

LEMMA IdleKeepsNameRegistry ==
  ASSUME UNCHANGED vars
  PROVE  UNCHANGED NameRegistry!registryVars
<1>1. UNCHANGED DomainNameSet
  BY DEF vars, DomainNameSet
<1>2. \A t \in Threads : AskedName(t)' = AskedName(t) /\ CreationOutcome(t)' = CreationOutcome(t)
  BY DEF vars, AskedName, CreationOutcome, Outcome
<1> QED
  BY <1>1, <1>2 DEF NameRegistry!registryVars

LEMMA InitIsEmptyNameRegistry == Init => NameRegistry!RegistryInit
<1> SUFFICES ASSUME Init  PROVE NameRegistry!RegistryInit
  OBVIOUS
<1>1. DomainNameSet = {} /\ \A t \in Threads : pc[t] = "idle" /\ answer[t] = "none"
  BY DEF Init, AccountsInit, DomainNamesInit, DomainNameSet
<1> QED
  BY <1>1, NobodyAsks DEF NameRegistry!RegistryInit

\* Creating a domain enters the name its client means at one moment, at most once
\* while the domain exists, and is refused only a name that a domain has; and
\* deleting a domain, however often, removes its name and no other.
THEOREM NamesRefineRegistry == Spec => NamesAreARegistry
<1>1. RegistrationInvariant /\ [Next]_vars
        => [NameRegistry!RegistryNext]_(NameRegistry!registryVars)
  <2> SUFFICES ASSUME RegistrationInvariant, [Next]_vars
               PROVE  NameRegistry!RegistryNext \/ UNCHANGED NameRegistry!registryVars
    OBVIOUS
  <2> QED
    BY StepCases, ProcessKeepsNameRegistry, StopKeepsNameRegistry, RequestsKeepNameRegistry,
       IdleKeepsNameRegistry
<1> QED
  BY <1>1, InitIsEmptyNameRegistry, RegistrationInvariantHolds, PTL
     DEF Spec, NamesAreARegistry, NameRegistry!RegistrySpec

=============================================================================
