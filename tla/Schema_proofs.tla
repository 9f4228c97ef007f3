--------------------------- MODULE Schema_proofs ---------------------------
(***************************************************************************)
(* Proofs about the two components that live in the database: animals with *)
(* their pedigree (Pedigree), and listings with the job that expires them  *)
(* under the scheduler lock (Listings, AdvisoryLock).  In both, a trigger  *)
(* or an UPDATE looks at what is committed and writes later, and what it   *)
(* has seen may no longer be so.                                           *)
(***************************************************************************)
EXTENDS Pedigree, Listings, FiniteSetTheorems, WellFoundedInduction, TLAPS

-----------------------------------------------------------------------------
(***************************************************************************)
(* Pedigree: parents fit and no pedigree has a cycle, for any animals,     *)
(* sessions, dates and depth of the trigger's walk.                        *)
(*                                                                         *)
(* What a trigger saw stays true enough until its statement commits: ids   *)
(* are not used twice and species, sex and dob do not change (Keeps), so   *)
(* that a parent that is still there still fits (Checked).                 *)
(***************************************************************************)

(* A parent that was checked is gone for good or still fits.                 *)
Matches(p, sex, r) ==
  p = None \/ /\ p \in used
              /\ p \in live => Suits(p, sex, r)

Checked ==
  \A s \in Writer : stmt[s] # Idle =>
    LET r == stmt[s].new IN
    /\ ~ At(s, "mother") => Matches(r.mother, "Female", r)
    /\ At(s, "walk") \/ At(s, "write") => Matches(r.father, "Male", r)

(* The row a statement is about is new, or there and of the same birth.      *)
OwnRow ==
  \A s \in Writer : stmt[s] # Idle /\ stmt[s].id \in used =>
    /\ stmt[s].id \in live
    /\ Unchanged(row[stmt[s].id], stmt[s].new)

RowLocks ==
  \A s, t \in Writer :
    s # t /\ stmt[s] # Idle /\ stmt[t] # Idle => stmt[s].id # stmt[t].id

PedigreeInv == PedigreeTypeOK /\ RowLocks /\ OwnRow /\ Checked /\ ParentsFit

(* What no step does: use an id again, or change what an animal is born with.*)
Keeps ==
  /\ used \subseteq used'
  /\ \A p \in live' : p \in used => p \in live /\ Unchanged(row[p], row'[p])

-----------------------------------------------------------------------------
LEMMA IdleIsNoStatement == \A x \in Statement : x # Idle /\ x.pc # "idle"
  BY DEF Statement, Idle

LEMMA BearType ==
  ASSUME NEW r \in AnimalRow, NEW m \in Id \cup {None}, NEW f \in Id \cup {None}
  PROVE  Bear(r, m, f) \in AnimalRow
  BY DEF Bear, AnimalRow

LEMMA BearSame ==
  ASSUME NEW r, NEW m, NEW f
  PROVE  /\ Bear(r, m, f).mother = m /\ Bear(r, m, f).father = f
         /\ Unchanged(r, Bear(r, m, f))
  BY DEF Bear, Unchanged

LEMMA InitHolds == PedigreeInit => PedigreeInv
  BY DEF PedigreeInit, PedigreeInv, PedigreeTypeOK, RowLocks, OwnRow, Checked, ParentsFit, Idle

LEMMA TypeStep == PedigreeTypeOK /\ [PedigreeNext]_animals => PedigreeTypeOK'
<1> SUFFICES ASSUME PedigreeTypeOK, [PedigreeNext]_animals PROVE PedigreeTypeOK'
  OBVIOUS
<1>0. \A x \in Statement \cup {Idle} : x.pc # "idle" => x \in Statement
  BY DEF Idle
<1>1. ASSUME NEW s \in Writer, NEW a \in Id \ used, NEW r \in AnimalRow, Insert(s, a, r)
      PROVE PedigreeTypeOK'
  <2>1. [pc |-> "mother", id |-> a, new |-> r] \in Statement
    BY DEF Statement
  <2>. QED  BY <1>1, <2>1 DEF Insert, Begin, PedigreeTypeOK
<1>2. ASSUME NEW s \in Writer, NEW a \in live, NEW r \in AnimalRow, SetParents(s, a, r)
      PROVE PedigreeTypeOK'
  <2>1. [pc |-> "mother", id |-> a, new |-> r] \in Statement
    BY DEF Statement, PedigreeTypeOK
  <2>. QED  BY <1>2, <2>1 DEF SetParents, Begin, PedigreeTypeOK
<1>3. ASSUME NEW s \in Writer, CheckMother(s) \/ CheckFather(s) \/ CheckCycle(s)
      PROVE PedigreeTypeOK'
  <2>1. stmt[s] \in Statement
    BY <1>3, <1>0 DEF CheckMother, CheckFather, CheckCycle, At, PedigreeTypeOK
  <2>2. \A at \in {"father", "walk", "write"} :
          [pc |-> at, id |-> stmt[s].id, new |-> stmt[s].new] \in Statement
    BY <2>1 DEF Statement
  <2>3. Return(s) \/ \E at \in {"father", "walk", "write"} : Proceed(s, at)
    BY <1>3 DEF CheckMother, CheckFather, CheckCycle
  <2>4. stmt' \in [Writer -> Statement \cup {Idle}]
    BY <2>2, <2>3 DEF Return, Proceed, PedigreeTypeOK
  <2>. QED  BY <1>3, <2>4 DEF CheckMother, CheckFather, CheckCycle, PedigreeTypeOK
<1>4. ASSUME NEW s \in Writer, CommitRow(s)
      PROVE PedigreeTypeOK'
  <2>1. stmt[s].id \in Id /\ stmt[s].new \in AnimalRow
    BY <1>4, <1>0 DEF CommitRow, At, PedigreeTypeOK, Statement
  <2>2. stmt' \in [Writer -> Statement \cup {Idle}]
    BY <1>4 DEF CommitRow, Return, PedigreeTypeOK
  <2>3. row' \in [live' -> AnimalRow] /\ used' \subseteq Id /\ live' \subseteq used'
    BY <1>4, <2>1 DEF CommitRow, PedigreeTypeOK
  <2>. QED  BY <2>2, <2>3 DEF PedigreeTypeOK
<1>5. ASSUME NEW a \in live, NEW r \in AnimalRow, Edit(a, r)
      PROVE PedigreeTypeOK'
  BY <1>5 DEF Edit, PedigreeTypeOK
<1>6. ASSUME NEW a \in live, Delete(a)
      PROVE PedigreeTypeOK'
  <2>1. \A b \in live : row[b] \in AnimalRow
    BY DEF PedigreeTypeOK
  <2>2. \A b \in live : Orphaned(row[b], a) \in AnimalRow
    BY <2>1, BearType DEF Orphaned, AnimalRow
  <2>3. row' \in [live' -> AnimalRow]
    BY <1>6, <2>1, <2>2 DEF Delete
  <2>. QED  BY <1>6, <2>3 DEF Delete, PedigreeTypeOK
<1>7. CASE UNCHANGED animals
  BY <1>7 DEF animals, PedigreeTypeOK
<1>. QED  BY <1>1, <1>2, <1>3, <1>4, <1>5, <1>6, <1>7 DEF PedigreeNext

(* Type correctness of the rows and of the statements under way.             *)
THEOREM PedigreeTypes == PedigreeSpec => []PedigreeTypeOK
<1>1. PedigreeInit => PedigreeTypeOK
  BY InitHolds DEF PedigreeInv
<1>. QED  BY <1>1, TypeStep, PTL DEF PedigreeSpec

-----------------------------------------------------------------------------
LEMMA KeepsStep == PedigreeTypeOK /\ OwnRow /\ [PedigreeNext]_animals => Keeps
<1> SUFFICES ASSUME PedigreeTypeOK, OwnRow, [PedigreeNext]_animals PROVE Keeps
  OBVIOUS
<1>1. ASSUME UNCHANGED <<row, used, live>> PROVE Keeps
  BY <1>1 DEF Keeps, Unchanged, PedigreeTypeOK
<1>2. ASSUME NEW s \in Writer, CommitRow(s) PROVE Keeps
  <2>1. stmt[s] # Idle
    BY <1>2 DEF CommitRow, At, Idle
  <2>2. CASE UNCHANGED <<row, used, live>>
    BY <2>2, <1>1
  <2>3. CASE /\ row' = [b \in live \cup {stmt[s].id} |->
                          IF b = stmt[s].id THEN stmt[s].new ELSE row[b]]
             /\ used' = used \cup {stmt[s].id} /\ live' = live \cup {stmt[s].id}
    BY <2>1, <2>3 DEF OwnRow, Keeps, Unchanged, PedigreeTypeOK
  <2>. QED  BY <1>2, <2>2, <2>3 DEF CommitRow
<1>3. ASSUME NEW a \in live, NEW r \in AnimalRow, Edit(a, r) PROVE Keeps
  BY <1>3 DEF Edit, Keeps, Unchanged, PedigreeTypeOK
<1>4. ASSUME NEW a \in live, Delete(a) PROVE Keeps
  <2>1. \A b \in live : Unchanged(row[b], Orphaned(row[b], a))
    BY BearSame DEF Orphaned
  <2>. QED  BY <1>4, <2>1 DEF Delete, Keeps, Unchanged, PedigreeTypeOK
<1>. QED
  BY <1>1, <1>2, <1>3, <1>4
     DEF PedigreeNext, animals, Insert, SetParents, CheckMother, CheckFather, CheckCycle

-----------------------------------------------------------------------------
LEMMA RowLocksStep == PedigreeTypeOK /\ RowLocks /\ [PedigreeNext]_animals => RowLocks'
<1> SUFFICES ASSUME PedigreeTypeOK, RowLocks, [PedigreeNext]_animals PROVE RowLocks'
  OBVIOUS
<1>1. ASSUME NEW s \in Writer, NEW a, NEW r, Begin(s, a, r)
      PROVE RowLocks'
  BY <1>1 DEF Begin, RowLocked, RowLocks, PedigreeTypeOK
<1>2. ASSUME NEW s \in Writer, NEW at, stmt[s] # Idle, Proceed(s, at)
      PROVE RowLocks'
  BY <1>2 DEF Proceed, RowLocks, PedigreeTypeOK
<1>3. ASSUME NEW s \in Writer, Return(s)
      PROVE RowLocks'
  BY <1>3 DEF Return, RowLocks, PedigreeTypeOK
<1>4. ASSUME NEW s \in Writer, CheckMother(s) \/ CheckFather(s) \/ CheckCycle(s) \/ CommitRow(s)
      PROVE stmt[s] # Idle /\ (Return(s) \/ \E at : Proceed(s, at))
  BY <1>4 DEF CheckMother, CheckFather, CheckCycle, CommitRow, At, Idle
<1>5. ASSUME UNCHANGED stmt PROVE RowLocks'
  BY <1>5 DEF RowLocks
<1>. QED
  BY <1>1, <1>2, <1>3, <1>4, <1>5 DEF PedigreeNext, animals, Insert, SetParents, Edit, Delete, PedigreeTypeOK

LEMMA OwnRowStep == PedigreeTypeOK /\ RowLocks /\ OwnRow /\ [PedigreeNext]_animals => OwnRow'
<1> SUFFICES ASSUME PedigreeTypeOK, RowLocks, OwnRow, [PedigreeNext]_animals PROVE OwnRow'
  OBVIOUS
<1>1. ASSUME NEW s \in Writer, NEW a \in Id \ used, NEW r, Insert(s, a, r)
      PROVE OwnRow'
  BY <1>1 DEF Insert, Begin, OwnRow, PedigreeTypeOK
<1>2. ASSUME NEW s \in Writer, NEW a \in live, NEW r, SetParents(s, a, r)
      PROVE OwnRow'
  BY <1>2 DEF SetParents, Begin, OwnRow, PedigreeTypeOK
<1>3. ASSUME NEW s \in Writer, CheckMother(s) \/ CheckFather(s) \/ CheckCycle(s)
      PROVE OwnRow'
  <2>1. stmt[s] # Idle /\ UNCHANGED <<row, used, live>>
    BY <1>3 DEF CheckMother, CheckFather, CheckCycle, At, Idle
  <2>2. Return(s) \/ \E at : Proceed(s, at)
    BY <1>3 DEF CheckMother, CheckFather, CheckCycle
  <2>. QED  BY <2>1, <2>2 DEF Return, Proceed, OwnRow, PedigreeTypeOK
<1>4. ASSUME NEW s \in Writer, CommitRow(s)
      PROVE OwnRow'
  <2>1. stmt[s] # Idle
    BY <1>4 DEF CommitRow, At, Idle
  <2>2. CASE UNCHANGED <<row, used, live>>
    BY <1>4, <2>2 DEF CommitRow, Return, OwnRow, PedigreeTypeOK
  <2>3. CASE /\ row' = [b \in live \cup {stmt[s].id} |->
                          IF b = stmt[s].id THEN stmt[s].new ELSE row[b]]
             /\ used' = used \cup {stmt[s].id} /\ live' = live \cup {stmt[s].id}
    BY <1>4, <2>1, <2>3 DEF CommitRow, Return, OwnRow, RowLocks, PedigreeTypeOK
  <2>. QED  BY <1>4, <2>2, <2>3 DEF CommitRow
<1>5. ASSUME NEW a \in live, NEW r \in AnimalRow, Edit(a, r)
      PROVE OwnRow'
  BY <1>5 DEF Edit, RowLocked, OwnRow, PedigreeTypeOK
<1>6. ASSUME NEW a \in live, Delete(a)
      PROVE OwnRow'
  <2>1. \A b \in live : Unchanged(row[b], Orphaned(row[b], a))
    BY BearSame DEF Orphaned
  <2>. QED  BY <1>6, <2>1 DEF Delete, RowLocked, OwnRow, Unchanged, PedigreeTypeOK
<1>7. CASE UNCHANGED animals
  BY <1>7 DEF animals, OwnRow
<1>. QED  BY <1>1, <1>2, <1>3, <1>4, <1>5, <1>6, <1>7 DEF PedigreeNext

(* A check outlives the steps of the others.                                 *)
LEMMA MatchesKept ==
  ASSUME NEW p, NEW sex, NEW r, PedigreeTypeOK, PedigreeTypeOK', Keeps, Matches(p, sex, r)
  PROVE  Matches(p, sex, r)'
BY DEF Matches, Keeps, Suits, Unchanged, PedigreeTypeOK

(* The statement of t has been checked as far as its pc says.                *)
CheckedAt(at, r) ==
  /\ at # "mother" => Matches(r.mother, "Female", r)
  /\ at \in {"walk", "write"} => Matches(r.father, "Male", r)

LEMMA SuitsMatches ==
  ASSUME PedigreeTypeOK, NEW p, NEW sex, NEW r, Suits(p, sex, r)
  PROVE  Matches(p, sex, r)
BY DEF Suits, Matches, PedigreeTypeOK

LEMMA CheckedStep == PedigreeTypeOK /\ PedigreeTypeOK' /\ Checked /\ Keeps /\ [PedigreeNext]_animals => Checked'
<1> SUFFICES ASSUME PedigreeTypeOK, PedigreeTypeOK', Checked, Keeps, [PedigreeNext]_animals PROVE Checked'
  OBVIOUS
<1>1. \A t \in Writer : stmt[t] # Idle => CheckedAt(stmt[t].pc, stmt[t].new)
  BY DEF Checked, CheckedAt, At
<1>2. ASSUME NEW t \in Writer, stmt'[t] # Idle
      PROVE CheckedAt(stmt'[t].pc, stmt'[t].new)
  <2>1. CASE stmt'[t] = stmt[t]
    BY <1>1, <1>2, <2>1
  <2>2. CASE \E a, r : Begin(t, a, r)
    BY <2>2 DEF Begin, PedigreeTypeOK, CheckedAt
  <2>3. CASE CheckMother(t)
    <3>1. Proceed(t, "father") /\ Suits(stmt[t].new.mother, "Female", stmt[t].new)
      BY <1>2, <2>3 DEF CheckMother, Return, PedigreeTypeOK
    <3>2. Matches(stmt[t].new.mother, "Female", stmt[t].new)
      BY <3>1, SuitsMatches
    <3>. QED  BY <3>1, <3>2 DEF Proceed, PedigreeTypeOK, CheckedAt
  <2>4. CASE CheckFather(t)
    <3>1. Proceed(t, "walk") /\ Suits(stmt[t].new.father, "Male", stmt[t].new)
      BY <1>2, <2>4 DEF CheckFather, Return, PedigreeTypeOK
    <3>2. Matches(stmt[t].new.father, "Male", stmt[t].new)
      BY <3>1, SuitsMatches
    <3>3. Matches(stmt[t].new.mother, "Female", stmt[t].new)
      BY <1>1, <2>4 DEF CheckFather, At, Idle, CheckedAt
    <3>. QED  BY <3>1, <3>2, <3>3 DEF Proceed, PedigreeTypeOK, CheckedAt
  <2>5. CASE CheckCycle(t)
    <3>1. Proceed(t, "write")
      BY <1>2, <2>5 DEF CheckCycle, Return, PedigreeTypeOK
    <3>2. CheckedAt("walk", stmt[t].new)
      BY <1>1, <2>5 DEF CheckCycle, At, Idle
    <3>. QED  BY <3>1, <3>2 DEF Proceed, PedigreeTypeOK, CheckedAt
  <2>6. ~ CommitRow(t)
    BY <1>2 DEF CommitRow, Return, PedigreeTypeOK
  <2>7. ASSUME NEW s \in Writer, s # t,
               (\E a, r : Begin(s, a, r)) \/ Return(s) \/ \E at : Proceed(s, at)
        PROVE stmt'[t] = stmt[t]
    BY <2>7 DEF Begin, Return, Proceed, PedigreeTypeOK
  <2>8. stmt' = stmt \/ \E s \in Writer :
          \/ \E a, r : Begin(s, a, r)
          \/ CheckMother(s) \/ CheckFather(s) \/ CheckCycle(s) \/ CommitRow(s)
    BY DEF PedigreeNext, animals, Insert, SetParents, Edit, Delete
  <2>9. \A s \in Writer : CheckMother(s) \/ CheckFather(s) \/ CheckCycle(s) \/ CommitRow(s)
          => Return(s) \/ \E at : Proceed(s, at)
    BY DEF CheckMother, CheckFather, CheckCycle, CommitRow
  <2>. QED  BY <2>1, <2>2, <2>3, <2>4, <2>5, <2>6, <2>7, <2>8, <2>9
<1>3. ASSUME NEW t \in Writer, stmt'[t] # Idle, NEW r, r = stmt'[t].new
      PROVE /\ ~ At(t, "mother")' => Matches(r.mother, "Female", r)'
            /\ (At(t, "walk") \/ At(t, "write"))' => Matches(r.father, "Male", r)'
  BY <1>2, <1>3, MatchesKept DEF CheckedAt, At
<1>4. ASSUME NEW t \in Writer, stmt'[t] # Idle
      PROVE /\ ~ At(t, "mother")' => Matches(stmt[t].new.mother, "Female", stmt[t].new)'
            /\ (At(t, "walk") \/ At(t, "write"))' => Matches(stmt[t].new.father, "Male", stmt[t].new)'
  <2>1. PICK r : r = stmt'[t].new
    OBVIOUS
  <2>. QED  BY <1>3, <1>4, <2>1 DEF Matches, Suits
<1>. QED  BY <1>4 DEF Checked

-----------------------------------------------------------------------------
LEMMA FitStep ==
  PedigreeTypeOK /\ PedigreeTypeOK' /\ OwnRow /\ Checked /\ ParentsFit /\ Keeps /\ [PedigreeNext]_animals => ParentsFit'
<1> SUFFICES ASSUME PedigreeTypeOK, PedigreeTypeOK', OwnRow, Checked, ParentsFit, Keeps, [PedigreeNext]_animals
             PROVE ParentsFit'
  OBVIOUS
(* Parents that still are there still fit.                                   *)
<1>1. ASSUME NEW p, NEW sex, NEW r, Matches(p, sex, r), p = None \/ p \in live'
      PROVE Suits(p, sex, r)'
  <2>1. Matches(p, sex, r)'
    BY <1>1, MatchesKept
  <2>. QED  BY <1>1, <2>1 DEF Matches, Suits
<1>2. \A a \in live : /\ Matches(row[a].mother, "Female", row[a])
                      /\ Matches(row[a].father, "Male", row[a])
                      /\ Parents(row[a]) \subseteq live
  BY SuitsMatches DEF ParentsFit, Parents, Suits
<1>3. SUFFICES ASSUME NEW a \in live', NEW r, r = row'[a]
               PROVE /\ Suits(r.mother, "Female", r)'
                     /\ Suits(r.father, "Male", r)'
  <2>1. ASSUME NEW a \in live'
        PROVE /\ Suits(row[a].mother, "Female", row[a])'
              /\ Suits(row[a].father, "Male", row[a])'
    <3>1. PICK r : r = row'[a]
      OBVIOUS
    <3>. QED  BY <1>3, <2>1, <3>1 DEF Suits
  <2>. QED  BY <2>1 DEF ParentsFit
<1>4. SUFFICES /\ Matches(r.mother, "Female", r)
               /\ Matches(r.father, "Male", r)
               /\ Parents(r) \subseteq live'
  BY <1>1 DEF Parents
<1>5. CASE a \in live /\ r = row[a] /\ live \subseteq live'
  BY <1>2, <1>5
<1>6. ASSUME NEW s \in Writer, CommitRow(s)
      PROVE /\ Matches(r.mother, "Female", r)
            /\ Matches(r.father, "Male", r)
            /\ Parents(r) \subseteq live'
  <2>1. CASE a = stmt[s].id /\ r = stmt[s].new /\ Parents(r) \subseteq live /\ live \subseteq live'
    BY <1>6, <2>1 DEF CommitRow, At, Idle, Checked
  <2>2. \/ a \in live /\ r = row[a] /\ live \subseteq live'
        \/ a = stmt[s].id /\ r = stmt[s].new /\ Parents(r) \subseteq live /\ live \subseteq live'
    BY <1>3, <1>6 DEF CommitRow, PedigreeTypeOK
  <2>. QED  BY <2>1, <2>2, <1>5
<1>7. ASSUME NEW b \in live, NEW q \in AnimalRow, Edit(b, q)
      PROVE /\ Matches(r.mother, "Female", r)
            /\ Matches(r.father, "Male", r)
            /\ Parents(r) \subseteq live'
  <2>1. a \in live /\ r.mother = row[a].mother /\ r.father = row[a].father /\ Unchanged(row[a], r)
    BY <1>3, <1>7 DEF Edit, PedigreeTypeOK, Unchanged
  <2>. QED  BY <1>2, <1>7, <2>1 DEF Edit, Matches, Suits, Unchanged, Parents
<1>8. ASSUME NEW b \in live, Delete(b)
      PROVE /\ Matches(r.mother, "Female", r)
            /\ Matches(r.father, "Male", r)
            /\ Parents(r) \subseteq live'
  <2>1. a \in live /\ live' = live \ {b}
    BY <1>3, <1>8 DEF Delete
  <2>2. CASE b \notin Parents(row[a])
    <3>1. r = row[a]
      BY <1>3, <1>8, <2>1, <2>2 DEF Delete
    <3>. QED  BY <1>2, <2>1, <2>2, <3>1
  <2>3. CASE b \in Parents(row[a])
    <3>1. /\ r = Orphaned(row[a], b)
          /\ Suits(r.mother, "Female", r) /\ Suits(r.father, "Male", r)
      BY <1>3, <1>8, <2>1, <2>3 DEF Delete
    <3>2. b # None
      BY <2>3 DEF Parents
    <3>3. b # r.mother /\ b # r.father
      BY <3>1, <3>2, BearSame DEF Orphaned
    <3>. QED  BY <2>1, <3>1, <3>3, SuitsMatches DEF Suits, Parents
  <2>. QED  BY <2>2, <2>3
<1>9. CASE UNCHANGED <<row, used, live>>
  BY <1>3, <1>5, <1>9
<1>. QED
  BY <1>6, <1>7, <1>8, <1>9
     DEF PedigreeNext, animals, Insert, SetParents, CheckMother, CheckFather, CheckCycle

LEMMA Inductive == PedigreeInv /\ [PedigreeNext]_animals => PedigreeInv'
BY TypeStep, KeepsStep, RowLocksStep, OwnRowStep, CheckedStep, FitStep DEF PedigreeInv

LEMMA PedigreeInvariance == PedigreeSpec => []PedigreeInv
BY InitHolds, Inductive, PTL DEF PedigreeSpec

(* Parents exist, have the right sex and species and are born before their   *)
(* offspring, whatever happens between a check and its commit.               *)
THEOREM FitTheorem == PedigreeSpec => []ParentsFit
<1>1. PedigreeInv => ParentsFit
  BY DEF PedigreeInv
<1>. QED  BY <1>1, PedigreeInvariance, PTL

-----------------------------------------------------------------------------
(* Of any animals, the eldest has no parent among them.                      *)
LEMMA EldestHasNoParent == PedigreeTypeOK /\ ParentsFit => Acyclic
<1> SUFFICES ASSUME PedigreeTypeOK, ParentsFit, NEW A \in SUBSET live, A # {}
             PROVE \E a \in A : Parents(row[a]) \cap A = {}
  BY DEF Acyclic
<1> DEFINE Dates == {row[a].dob : a \in A}
<1>1. \A a \in A : row[a].dob \in Nat
  BY PedigreeAssumption DEF PedigreeTypeOK, AnimalRow
<1>2. Dates \subseteq Nat /\ Dates # {}
  BY <1>1
<1>3. PICK d \in Dates : \A e \in Dates : ~ (<<e, d>> \in OpToRel(<, Nat))
  <2>. HIDE DEF Dates
  <2>. QED  BY <1>2, NatLessThanWellFounded, WFMin
<1>4. PICK a \in A : row[a].dob = d
  OBVIOUS
<1>5. \A b \in A : ~ (row[b].dob < row[a].dob)
  BY <1>1, <1>3, <1>4 DEF OpToRel
<1>6. \A p \in Parents(row[a]) : row[p].dob < row[a].dob
  BY DEF ParentsFit, Suits, Parents, BornBefore
<1>. QED  BY <1>5, <1>6

(* No pedigree has a cycle: the order of the birth dates is enough, without  *)
(* the ancestor walk, at any depth and with any statements side by side.     *)
THEOREM AcyclicTheorem == PedigreeSpec => []Acyclic
<1>1. PedigreeInv => Acyclic
  BY EldestHasNoParent DEF PedigreeInv
<1>. QED  BY <1>1, PedigreeInvariance, PTL

-----------------------------------------------------------------------------
(***************************************************************************)
(* The scheduler lock and the listings, for any number of instances,       *)
(* pooled connections, overlapping ticks, clients and rows.                *)
(*                                                                         *)
(* Of the lock, the types and HeldWhileBusy are inductive together, and    *)
(* mutual exclusion follows from them; every step of Listings is a step of *)
(* the lock or leaves it alone.  Of the listings, LInv says what the open  *)
(* transactions may rely on while others commit.                           *)
(***************************************************************************)

(* The lock has been taken at least as often as there are ticks that will    *)
(* still give it back, by a session of their instance.                       *)
HeldWhileBusy ==
  drops = 0 /\ Busy # {} =>
    /\ holder # Nobody
    /\ \A j \in Busy : PoolOf[holder] = HomeOf[j]
    /\ depth >= Cardinality(Busy)

IInv == TypeOK /\ HeldWhileBusy

-----------------------------------------------------------------------------
LEMMA BusyFinite == IsFiniteSet(Busy) /\ Cardinality(Busy) \in Nat
<1>1. Busy \subseteq Job
  BY DEF Busy
<1> QED
  BY <1>1, ConstantsAssumption, FS_Subset, FS_CardinalityType

LEMMA InitIInv == Init => IInv
<1> SUFFICES ASSUME Init PROVE IInv
  OBVIOUS
<1>1. Busy = {}
  BY DEF Init, Busy
<1>2. TypeOK
  BY ConstantsAssumption DEF Init, TypeOK
<1> QED
  BY <1>1, <1>2 DEF IInv, HeldWhileBusy

(* Where a tick goes is all that changes of the ticks. *)
LEMMA GotoStep ==
  ASSUME TypeOK, NEW j \in Job, NEW at \in {"idle", "work", "unlock"}, Goto(j, at)
  PROVE  /\ pc' \in [Job -> {"idle", "work", "unlock"}]
         /\ at # "idle" => Busy' = Busy \cup {j}
         /\ at = "idle" => Busy' = Busy \ {j}
<1>1. pc \in [Job -> {"idle", "work", "unlock"}] /\ pc' = [pc EXCEPT ![j] = at]
  BY DEF TypeOK, Goto
<1>2. pc' \in [Job -> {"idle", "work", "unlock"}]
  BY <1>1
<1>3. \A i \in Job : pc'[i] = IF i = j THEN at ELSE pc[i]
  BY <1>1
<1> QED
  BY <1>2, <1>3 DEF Busy

LEMMA UnlockType ==
  ASSUME TypeOK, NEW c \in Conn, Unlock(c)
  PROVE  /\ holder' \in Conn \cup {Nobody} /\ depth' \in 0..MaxDepth
         /\ depth' = 0 <=> holder' = Nobody
         /\ depth' >= depth - 1
         /\ depth' # 0 => holder' = holder
<1>1. holder \in Conn \cup {Nobody} /\ depth \in 0..MaxDepth /\ (depth = 0 <=> holder = Nobody)
      /\ MaxDepth \in Nat /\ Nobody \notin Conn
  BY ConstantsAssumption DEF TypeOK
<1>2. CASE holder = c
  BY <1>1, <1>2 DEF Unlock
<1>3. CASE holder # c
  BY <1>1, <1>3 DEF Unlock
<1> QED
  BY <1>2, <1>3

-----------------------------------------------------------------------------
LEMMA AcquireIInv ==
  ASSUME IInv, NEW j \in Job, Acquire(j)
  PROVE  IInv'
<1>1. PICK c \in PoolFor(j) : holder \in {Nobody, c} /\ holder' = c
  BY DEF Acquire
<1>2. c \in Conn /\ c # Nobody /\ PoolOf[c] = HomeOf[j]
  BY ConstantsAssumption DEF PoolFor
<1>3. TypeOK /\ pc[j] = "idle" /\ Goto(j, "work") /\ depth < MaxDepth
      /\ depth' = depth + 1 /\ drops' = drops
  BY DEF IInv, Acquire
<1>4. pc' \in [Job -> {"idle", "work", "unlock"}] /\ Busy' = Busy \cup {j}
  BY <1>3, GotoStep
<1>5. depth \in Nat /\ MaxDepth \in Nat /\ depth' \in 0..MaxDepth /\ depth' # 0
  BY <1>3, ConstantsAssumption DEF TypeOK
<1>6. TypeOK'
  BY <1>1, <1>2, <1>3, <1>4, <1>5 DEF TypeOK
<1>7. j \notin Busy
  BY <1>3 DEF Busy
<1>8. Cardinality(Busy') = Cardinality(Busy) + 1
  BY <1>4, <1>7, BusyFinite, FS_AddElement
<1>9. ASSUME drops' = 0
      PROVE  (\A i \in Busy' : PoolOf[holder'] = HomeOf[i]) /\ depth' >= Cardinality(Busy')
  <2>1. CASE Busy = {}
    <3>1. Cardinality(Busy) = 0
      BY <2>1, FS_EmptySet
    <3> QED
      BY <2>1, <3>1, <1>1, <1>2, <1>3, <1>4, <1>5, <1>8
  <2>2. CASE Busy # {}
    <3>1. holder = c /\ (\A i \in Busy : PoolOf[holder] = HomeOf[i]) /\ depth >= Cardinality(Busy)
      BY <2>2, <1>1, <1>3, <1>9 DEF IInv, HeldWhileBusy
    <3> QED
      BY <3>1, <1>1, <1>2, <1>3, <1>4, <1>5, <1>8, BusyFinite
  <2> QED
    BY <2>1, <2>2
<1>10. HeldWhileBusy'
  BY <1>1, <1>2, <1>9 DEF HeldWhileBusy
<1> QED
  BY <1>6, <1>10 DEF IInv

LEMMA AcquireLostIInv ==
  ASSUME IInv, NEW j \in Job, AcquireLost(j)
  PROVE  IInv'
<1>1. PICK c \in PoolFor(j) : holder \in {Nobody, c} /\ holder' = c
  BY DEF AcquireLost
<1>2. c \in Conn /\ c # Nobody
  BY ConstantsAssumption DEF PoolFor
<1>3. TypeOK /\ depth < MaxDepth /\ depth' = depth + 1 /\ UNCHANGED <<pc, drops>>
  BY DEF IInv, AcquireLost
<1>4. depth \in Nat /\ MaxDepth \in Nat /\ depth' \in 0..MaxDepth /\ depth' # 0
  BY <1>3, ConstantsAssumption DEF TypeOK
<1>5. TypeOK'
  BY <1>1, <1>2, <1>3, <1>4 DEF TypeOK
<1>6. Busy' = Busy
  BY <1>3 DEF Busy
<1>7. ASSUME drops' = 0, Busy' # {}
      PROVE  /\ holder' # Nobody /\ depth' >= Cardinality(Busy')
             /\ \A i \in Busy' : PoolOf[holder'] = HomeOf[i]
  <2>1. holder = c /\ (\A i \in Busy : PoolOf[holder] = HomeOf[i]) /\ depth >= Cardinality(Busy)
    BY <1>1, <1>3, <1>6, <1>7 DEF IInv, HeldWhileBusy
  <2> QED
    BY <2>1, <1>1, <1>2, <1>3, <1>4, <1>6, BusyFinite
<1>8. HeldWhileBusy'
  BY <1>7 DEF HeldWhileBusy
<1> QED
  BY <1>5, <1>8 DEF IInv

LEMMA FinishIInv ==
  ASSUME IInv, NEW j \in Job, Finish(j)
  PROVE  IInv'
<1>1. TypeOK /\ pc[j] = "work" /\ Goto(j, "unlock") /\ UNCHANGED <<holder, depth, drops>>
  BY DEF IInv, Finish
<1>2. pc' \in [Job -> {"idle", "work", "unlock"}] /\ Busy' = Busy \cup {j}
  BY <1>1, GotoStep
<1>3. Busy' = Busy
  BY <1>1, <1>2 DEF Busy
<1> QED
  BY <1>1, <1>2, <1>3 DEF IInv, TypeOK, HeldWhileBusy

LEMMA ReleaseIInv ==
  ASSUME IInv, NEW j \in Job, Release(j)
  PROVE  IInv'
<1>1. PICK c \in PoolFor(j) : Unlock(c)
  BY DEF Release
<1>2. TypeOK /\ pc[j] = "unlock" /\ Goto(j, "idle") /\ drops' = drops /\ c \in Conn
  BY DEF IInv, Release, PoolFor
<1>3. pc' \in [Job -> {"idle", "work", "unlock"}] /\ Busy' = Busy \ {j}
  BY <1>2, GotoStep
<1>4. /\ holder' \in Conn \cup {Nobody} /\ depth' \in 0..MaxDepth
      /\ depth' = 0 <=> holder' = Nobody
      /\ depth' >= depth - 1
      /\ depth' # 0 => holder' = holder
  BY <1>1, <1>2, UnlockType
<1>5. TypeOK'
  BY <1>2, <1>3, <1>4 DEF TypeOK
<1>6. j \in Busy
  BY <1>2 DEF Busy
<1>7. Cardinality(Busy') = Cardinality(Busy) - 1 /\ IsFiniteSet(Busy') /\ Cardinality(Busy') \in Nat
  BY <1>3, <1>6, BusyFinite, FS_RemoveElement, FS_CardinalityType
<1>8. ASSUME drops' = 0, Busy' # {}
      PROVE  /\ holder' # Nobody /\ depth' >= Cardinality(Busy')
             /\ \A i \in Busy' : PoolOf[holder'] = HomeOf[i]
  <2>1. depth >= Cardinality(Busy) /\ (\A i \in Busy : PoolOf[holder] = HomeOf[i])
    BY <1>2, <1>6, <1>8 DEF IInv, HeldWhileBusy
  <2>2. Cardinality(Busy') # 0
    BY <1>7, <1>8, FS_EmptySet
  <2>3. depth \in Nat /\ depth' \in Nat
    BY <1>2, <1>4, ConstantsAssumption DEF TypeOK
  <2>4. depth' >= Cardinality(Busy') /\ depth' # 0
    BY <2>1, <2>2, <2>3, <1>4, <1>7, BusyFinite
  <2> QED
    BY <2>1, <2>4, <1>3, <1>4
<1>9. HeldWhileBusy'
  BY <1>8 DEF HeldWhileBusy
<1> QED
  BY <1>5, <1>9 DEF IInv

LEMMA CrashIInv ==
  ASSUME IInv, NEW i \in Instance, Crash(i)
  PROVE  IInv'
<1>1. TypeOK /\ drops' = drops /\ pc' = [j \in Job |-> IF HomeOf[j] = i THEN "idle" ELSE pc[j]]
  BY DEF IInv, Crash
<1>2. Busy' = {j \in Busy : HomeOf[j] # i}
  BY <1>1 DEF Busy
<1>3. CASE holder # Nobody /\ PoolOf[holder] = i
  <2>1. holder' = Nobody /\ depth' = 0
    BY <1>3 DEF Crash
  <2>2. TypeOK'
    BY <1>1, <2>1, ConstantsAssumption DEF TypeOK
  <2>3. drops' = 0 => Busy' = {}
    BY <1>1, <1>2, <1>3 DEF IInv, HeldWhileBusy
  <2> QED
    BY <2>2, <2>3 DEF IInv, HeldWhileBusy
<1>4. CASE ~ (holder # Nobody /\ PoolOf[holder] = i)
  <2>1. UNCHANGED <<holder, depth>>
    BY <1>4 DEF Crash
  <2>2. TypeOK'
    BY <1>1, <2>1 DEF TypeOK
  <2>3. Busy' \subseteq Busy
    BY <1>2
  <2>4. Cardinality(Busy') <= Cardinality(Busy) /\ Cardinality(Busy') \in Nat
    BY <2>3, BusyFinite, FS_Subset, FS_CardinalityType
  <2>5. depth \in Nat
    BY <1>1, ConstantsAssumption DEF TypeOK
  <2>6. ASSUME drops' = 0, Busy' # {}
        PROVE  /\ holder' # Nobody /\ depth' >= Cardinality(Busy')
               /\ \A j \in Busy' : PoolOf[holder'] = HomeOf[j]
    <3>1. /\ holder # Nobody /\ depth >= Cardinality(Busy)
          /\ \A j \in Busy : PoolOf[holder] = HomeOf[j]
      BY <2>3, <2>6, <1>1 DEF IInv, HeldWhileBusy
    <3> QED
      BY <3>1, <2>1, <2>3, <2>4, <2>5, BusyFinite
  <2> QED
    BY <2>2, <2>6 DEF IInv, HeldWhileBusy
<1> QED
  BY <1>3, <1>4

LEMMA OtherIInv ==
  ASSUME IInv, DropSession \/ UNCHANGED vars
  PROVE  IInv'
<1>1. CASE DropSession
  <2>1. TypeOK' /\ drops' # 0
    BY <1>1, ConstantsAssumption DEF IInv, TypeOK, DropSession
  <2> QED
    BY <2>1 DEF IInv, HeldWhileBusy
<1>2. CASE UNCHANGED vars
  <2>1. Busy' = Busy
    BY <1>2 DEF vars, Busy
  <2> QED
    BY <2>1, <1>2 DEF vars, IInv, TypeOK, HeldWhileBusy
<1> QED
  BY <1>1, <1>2

LEMMA StepIInv == IInv /\ [Next]_vars => IInv'
<1>1. ASSUME NEW j \in Job, Skip(j) PROVE UNCHANGED vars
  BY <1>1 DEF Skip
<1> QED
  BY <1>1, AcquireIInv, AcquireLostIInv, FinishIInv, ReleaseIInv, CrashIInv, OtherIInv DEF Next

LEMMA Invariance == Spec => []IInv
BY InitIInv, StepIInv, PTL DEF Spec

-----------------------------------------------------------------------------
(* The lock is held, often enough and by the right instance, for every tick  *)
(* that will still give it back.                                             *)
THEOREM HeldTheorem == Spec => [](TypeOK /\ HeldWhileBusy)
BY Invariance, PTL DEF IInv

(* Ticks of two instances are never in the callback of runExclusive at once. *)
THEOREM ExclusionTheorem == Spec => []OneInstanceWorks
<1>1. HeldWhileBusy => OneInstanceWorks
  BY DEF HeldWhileBusy, OneInstanceWorks, Busy, Working
<1> QED
  BY <1>1, Invariance, PTL DEF IInv

-----------------------------------------------------------------------------
(* Listings: every step is one of the lock's, or leaves the lock alone.      *)
LEMMA LockIsKept == [ListingsNext]_<<vars, table>> => [Next]_vars
BY DEF ListingsNext, Write, Deactivate, Reactivate, TakeRow, Commit, Rollback, CommitExpiry, Expire,
       Report, LockStep, FinishTick, CrashWorker, Lapse, LoseSession, Next, vars

(* Of a deactivation under way: what it has written is off the market, and   *)
(* what of the owner's is on it is still to be taken, or a newcomer.         *)
Sweeping(t) ==
  t.on # Nobody /\ t.to = "off" /\ owner[t.on] = "live" =>
    /\ \A l \in DOMAIN t.rows : t.rows[l].status \notin Dealable
    /\ \A l \in Listing : Owns(t.on, l) /\ listing[l].status \in Dealable =>
         l \in t.todo \cup DOMAIN t.rows \cup t.late

(* Of an expiry: the rows it has written are, for all others, still ACTIVE,  *)
(* and it has something in hand only once it has committed.                  *)
Turning(t) ==
  /\ \A l \in DOMAIN t.rows : listing[l].status = "ACTIVE"
  /\ t.pc # "audit" => t.count = 0

Apart ==
  \A s, z \in Session : s # z =>
    /\ DOMAIN tx[s].rows \cap DOMAIN tx[z].rows = {}
    /\ tx[s].on # Nobody => tx[s].on # tx[z].on

TxInv ==
  /\ Apart
  /\ \A c \in Client : Sweeping(tx[c])
  /\ \A j \in Job : Turning(tx[j])

LInv == IInv /\ ListingsTypeOK /\ TxInv /\ ExpiryReportedOnce

-----------------------------------------------------------------------------
LEMMA NoRowsIsRows == NoRows \in Rows /\ DOMAIN NoRows = {}
<1>1. NoRows \in [{} -> Row] /\ DOMAIN NoRows = {}
  BY DEF NoRows
<1> QED
  BY <1>1 DEF Rows

LEMMA RowsAre == ASSUME NEW rows \in Rows
                 PROVE  DOMAIN rows \subseteq Listing /\ \A l \in DOMAIN rows : rows[l] \in Row
BY DEF Rows

LEMMA WithIsRows ==
  ASSUME NEW rows \in Rows, NEW l \in Listing, NEW r \in Row
  PROVE  With(rows, l, r) \in Rows
<1>1. PICK L \in SUBSET Listing : rows \in [L -> Row]
  BY DEF Rows
<1>2. DOMAIN rows = L /\ With(rows, l, r) \in [L \cup {l} -> Row] /\ L \cup {l} \in SUBSET Listing
  BY <1>1 DEF With
<1> QED
  BY <1>2 DEF With, Rows

LEMMA WithDomain ==
  ASSUME NEW rows, NEW l, NEW r
  PROVE  DOMAIN With(rows, l, r) = DOMAIN rows \cup {l}
BY DEF With

LEMMA WithValue ==
  ASSUME NEW rows, NEW l, NEW r, NEW k \in DOMAIN rows \cup {l}
  PROVE  With(rows, l, r)[k] = IF k = l THEN r ELSE rows[k]
BY DEF With

LEMMA IdleIsTx == IdleTx \in Tx /\ IdleTx.rows = NoRows /\ IdleTx.on = Nobody /\ IdleTx.count = 0 /\ IdleTx.pc = "idle"
<1>1. 0 \in 0..Cardinality(Listing)
  BY ListingsAssumption, FS_CardinalityType
<1> QED
  BY <1>1, NoRowsIsRows DEF IdleTx, Tx

(* A step that replaces one transaction. *)
LEMMA SetTypes ==
  ASSUME tx \in [Session -> Tx], NEW s \in Session, NEW t \in Tx, Set(s, t)
  PROVE  tx' \in [Session -> Tx] /\ tx'[s] = t /\ \A z \in Session : z # s => tx'[z] = tx[z]
BY DEF Set

LEMMA SetStep ==
  ASSUME ListingsTypeOK, TxInv, NEW s \in Session, NEW t \in Tx, Set(s, t), UNCHANGED <<listing, owner>>,
         \A l \in DOMAIN t.rows : l \in DOMAIN tx[s].rows \/ ~ Locked(l),
         t.on # Nobody => t.on = tx[s].on \/ ~ Held(t.on),
         s \in Client => Sweeping(t),
         s \in Job => Turning(t)
  PROVE  TxInv'
<1>1. tx \in [Session -> Tx] /\ tx'[s] = t /\ \A z \in Session : z # s => tx'[z] = tx[z]
  BY SetTypes DEF ListingsTypeOK
<1>2. ASSUME NEW z \in Session, z # s
      PROVE  /\ DOMAIN t.rows \cap DOMAIN tx[z].rows = {}
             /\ t.on # Nobody => t.on # tx[z].on
             /\ tx[z].on # Nobody => tx[z].on # t.on
  BY <1>2 DEF TxInv, Apart, Locked, Held
<1>3. Apart'
  BY <1>1, <1>2 DEF TxInv, Apart
<1>4. ASSUME NEW c \in Client PROVE Sweeping(tx[c])'
  <2>1. c \in Session
    BY DEF Session
  <2> QED
    BY <1>1, <2>1 DEF TxInv, Sweeping
<1>5. ASSUME NEW j \in Job PROVE Turning(tx[j])'
  <2>1. j \in Session
    BY DEF Session
  <2> QED
    BY <1>1, <2>1 DEF TxInv, Turning
<1> QED
  BY <1>3, <1>4, <1>5 DEF TxInv

(* A step that leaves every count as it is. *)
LEMMA CountKept ==
  ASSUME ListingsTypeOK, ExpiryReportedOnce, UNCHANGED <<owed, faults>>,
         \A j \in Job : tx'[j].count = tx[j].count
  PROVE  ExpiryReportedOnce'
BY DEF ExpiryReportedOnce

-----------------------------------------------------------------------------
(* A commit: others see what the transaction has written. *)
LEMMA ApplyStep ==
  ASSUME ListingsTypeOK, TxInv, NEW s \in Session, NEW then \in Tx, Apply(s, then),
         then.on = Nobody, then.rows = NoRows, then.pc # "audit" => then.count = 0,
         \A z \in Session : z # s /\ tx[z].on # Nobody => owner'[tx[z].on] = owner[tx[z].on]
  PROVE  /\ listing' \in [Listing -> Row] /\ tx' \in [Session -> Tx]
         /\ tx'[s] = then /\ \A z \in Session : z # s => tx'[z].count = tx[z].count
         /\ TxInv'
<1> DEFINE rows == tx[s].rows
           revived == {l \in DOMAIN rows : rows[l].status \in Dealable}
<1>1. tx \in [Session -> Tx] /\ listing \in [Listing -> Row]
  BY DEF ListingsTypeOK
<1>2. rows \in Rows /\ revived \in SUBSET Listing
  BY <1>1, RowsAre DEF Tx
<1>3. listing' = [l \in Listing |-> IF l \in DOMAIN rows THEN rows[l] ELSE listing[l]]
  BY DEF Apply
<1>4. listing' \in [Listing -> Row]
  BY <1>1, <1>2, <1>3, RowsAre
<1>5. tx' = [z \in Session |-> IF z = s THEN then
              ELSE IF tx[z].on = Nobody THEN tx[z]
              ELSE [tx[z] EXCEPT !.late = @ \cup revived]]
  BY DEF Apply
<1> HIDE DEF rows, revived
<1>6. ASSUME NEW z \in Session, z # s
      PROVE  /\ tx'[z] \in Tx
             /\ tx'[z].pc = tx[z].pc /\ tx'[z].on = tx[z].on /\ tx'[z].to = tx[z].to
             /\ tx'[z].todo = tx[z].todo /\ tx'[z].rows = tx[z].rows /\ tx'[z].count = tx[z].count
             /\ tx'[z].on # Nobody => tx'[z].late = tx[z].late \cup revived
  <2>1. tx[z] \in Tx
    BY <1>1
  <2>2. tx'[z] = IF tx[z].on = Nobody THEN tx[z] ELSE [tx[z] EXCEPT !.late = @ \cup revived]
    BY <1>5, <1>6
  <2> QED
    BY <2>1, <2>2, <1>2 DEF Tx
<1>7. tx'[s] = then
  BY <1>5
<1>8. tx' \in [Session -> Tx]
  BY <1>5, <1>6, <1>7
<1>9. Apart'
  BY <1>6, <1>7, NoRowsIsRows DEF TxInv, Apart
<1>10. ASSUME NEW c \in Client PROVE Sweeping(tx[c])'
  <2>1. c \in Session
    BY DEF Session
  <2>2. CASE c = s
    BY <1>7, <2>2 DEF Sweeping
  <2>3. CASE c # s
    <3> SUFFICES ASSUME tx[c].on # Nobody, tx[c].to = "off", owner[tx[c].on] = "live"
                 PROVE  /\ \A l \in DOMAIN tx[c].rows : tx[c].rows[l].status \notin Dealable
                        /\ \A l \in Listing : Owns(tx[c].on, l) /\ listing'[l].status \in Dealable =>
                             l \in tx[c].todo \cup DOMAIN tx[c].rows \cup tx'[c].late
      BY <1>6, <2>1, <2>3 DEF Sweeping
    <3>1. Sweeping(tx[c])
      BY DEF TxInv
    <3>2. tx'[c].late = tx[c].late \cup revived
      BY <1>6, <2>1, <2>3
    <3> QED
      BY <3>1, <3>2, <1>3 DEF Sweeping, revived
  <2> QED
    BY <2>2, <2>3
<1>11. ASSUME NEW j \in Job PROVE Turning(tx[j])'
  <2>1. j \in Session
    BY DEF Session
  <2>2. CASE j = s
    BY <1>7, <2>2, NoRowsIsRows DEF Turning
  <2>3. CASE j # s
    <3>1. DOMAIN tx[j].rows \cap DOMAIN rows = {} /\ tx[j].rows \in Rows
      BY <2>1, <2>3, <1>1 DEF TxInv, Apart, rows, Tx
    <3>2. \A l \in DOMAIN tx[j].rows : listing'[l] = listing[l]
      BY <3>1, <1>3, RowsAre
    <3> QED
      BY <3>2, <1>6, <2>1, <2>3 DEF TxInv, Turning
  <2> QED
    BY <2>2, <2>3
<1> QED
  BY <1>4, <1>6, <1>7, <1>8, <1>9, <1>10, <1>11 DEF TxInv

-----------------------------------------------------------------------------
LEMMA SessionsDiffer == /\ \A c \in Client : c \in Session /\ c \notin Job
                        /\ \A j \in Job : j \in Session /\ j \notin Client
                        /\ \A x \in Owner : x # Nobody
BY ListingsAssumption DEF Session

(* Of every step that leaves the lock alone. *)
LEMMA LockTypes == ListingsTypeOK /\ UNCHANGED vars => TypeOK'
BY DEF ListingsTypeOK, TypeOK, vars

LEMMA Bounded == ASSUME ListingsTypeOK
                 PROVE  /\ writes \in Nat /\ faults \in Nat /\ MaxWrites \in Nat /\ MaxFaults \in Nat
                        /\ writes < MaxWrites => writes + 1 \in 0..MaxWrites
                        /\ faults < MaxFaults => faults + 1 \in 0..MaxFaults
BY ListingsAssumption DEF ListingsTypeOK

LEMMA WriteStep ==
  ASSUME LInv, NEW c \in Client, NEW l \in Listing, Write(c, l)
  PROVE  ListingsTypeOK' /\ TxInv' /\ ExpiryReportedOnce'
<1>1. PICK r \in Written : Set(c, [IdleTx EXCEPT !.pc = "commit", !.rows = With(NoRows, l, r)])
  BY DEF Write
<1> DEFINE t == [IdleTx EXCEPT !.pc = "commit", !.rows = With(NoRows, l, r)]
<1>2. r \in Row
  BY ListingsAssumption
<1>3. With(NoRows, l, r) \in Rows /\ DOMAIN With(NoRows, l, r) = {l}
  <2>1. With(NoRows, l, r) \in Rows
    BY <1>2, NoRowsIsRows, WithIsRows
  <2>2. DOMAIN With(NoRows, l, r) = DOMAIN NoRows \cup {l}
    BY WithDomain
  <2> QED
    BY <2>1, <2>2, NoRowsIsRows
<1>4. t \in Tx /\ t.on = Nobody /\ DOMAIN t.rows = {l}
  BY <1>3, IdleIsTx DEF Tx
<1>5. ListingsTypeOK /\ TxInv /\ ExpiryReportedOnce
  BY DEF LInv
<1> HIDE DEF t
<1>6. Set(c, t) /\ UNCHANGED <<listing, owner, faults, owed, vars>> /\ ~ Locked(l) /\ writes < MaxWrites
      /\ writes' = writes + 1
  BY <1>1 DEF Write, t
<1>7. TxInv'
  BY <1>4, <1>5, <1>6, SetStep, SessionsDiffer DEF Sweeping
<1>8. tx' \in [Session -> Tx] /\ \A j \in Job : tx'[j] = tx[j]
  BY <1>4, <1>5, <1>6, SetTypes, SessionsDiffer DEF ListingsTypeOK
<1>9. ListingsTypeOK'
  BY <1>5, <1>6, <1>8, LockTypes, Bounded DEF ListingsTypeOK
<1> QED
  BY <1>5, <1>6, <1>7, <1>8, <1>9, CountKept

LEMMA DeactivateStep ==
  ASSUME LInv, NEW c \in Client, NEW x \in Owner, Deactivate(c, x)
  PROVE  ListingsTypeOK' /\ TxInv' /\ ExpiryReportedOnce'
<1> DEFINE picked == {l \in Listing : owner[x] = "live" /\ Owns(x, l) /\ Cascaded(listing[l])}
           t == [IdleTx EXCEPT !.pc = "rows", !.on = x, !.to = "off", !.todo = picked]
<1>1. t \in Tx /\ t.on = x /\ t.rows = NoRows /\ t.todo = picked
  BY IdleIsTx DEF Tx
<1>2. ListingsTypeOK /\ TxInv /\ ExpiryReportedOnce
  BY DEF LInv
<1>3. \A r \in Row : r.status \in Dealable => Cascaded(r)
  BY DEF Dealable, Cascaded
<1>4. Sweeping(t)
  BY <1>1, <1>2, <1>3, NoRowsIsRows DEF Sweeping, ListingsTypeOK
<1>5. Set(c, t) /\ UNCHANGED <<listing, owner, faults, owed, vars>> /\ ~ Held(x) /\ writes < MaxWrites
      /\ writes' = writes + 1
  BY DEF Deactivate
<1> HIDE DEF t
<1>6. TxInv'
  BY <1>1, <1>2, <1>4, <1>5, SetStep, SessionsDiffer, NoRowsIsRows
<1>7. tx' \in [Session -> Tx] /\ \A j \in Job : tx'[j] = tx[j]
  BY <1>1, <1>2, <1>5, SetTypes, SessionsDiffer DEF ListingsTypeOK
<1>8. ListingsTypeOK'
  BY <1>2, <1>5, <1>7, LockTypes, Bounded DEF ListingsTypeOK
<1> QED
  BY <1>2, <1>5, <1>6, <1>7, <1>8, CountKept

LEMMA ReactivateStep ==
  ASSUME LInv, NEW c \in Client, NEW x \in Owner, Reactivate(c, x)
  PROVE  ListingsTypeOK' /\ TxInv' /\ ExpiryReportedOnce'
<1>1. PICK to \in {"live", "kept"} : Set(c, [IdleTx EXCEPT !.pc = "rows", !.on = x, !.to = to])
  BY DEF Reactivate
<1> DEFINE t == [IdleTx EXCEPT !.pc = "rows", !.on = x, !.to = to]
<1>2. t \in Tx /\ t.on = x /\ t.rows = NoRows /\ t.to # "off"
  BY IdleIsTx DEF Tx
<1>3. ListingsTypeOK /\ TxInv /\ ExpiryReportedOnce
  BY DEF LInv
<1>4. Set(c, t) /\ UNCHANGED <<listing, owner, faults, owed, vars>> /\ ~ Held(x) /\ writes < MaxWrites
      /\ writes' = writes + 1
  BY <1>1 DEF Reactivate
<1> HIDE DEF t
<1>5. TxInv'
  BY <1>2, <1>3, <1>4, SetStep, SessionsDiffer, NoRowsIsRows DEF Sweeping
<1>6. tx' \in [Session -> Tx] /\ \A j \in Job : tx'[j] = tx[j]
  BY <1>2, <1>3, <1>4, SetTypes, SessionsDiffer DEF ListingsTypeOK
<1>7. ListingsTypeOK'
  BY <1>3, <1>4, <1>6, LockTypes, Bounded DEF ListingsTypeOK
<1> QED
  BY <1>3, <1>4, <1>5, <1>6, <1>7, CountKept

LEMMA ExpireStep ==
  ASSUME LInv, NEW j \in Job, Expire(j)
  PROVE  ListingsTypeOK' /\ TxInv' /\ ExpiryReportedOnce'
<1> DEFINE t == [IdleTx EXCEPT !.pc = "rows", !.todo = {l \in Listing : Due(listing[l])}]
<1>1. t \in Tx /\ t.on = Nobody /\ t.rows = NoRows /\ t.count = 0
  BY IdleIsTx DEF Tx
<1>2. ListingsTypeOK /\ TxInv /\ ExpiryReportedOnce
  BY DEF LInv
<1>3. Set(j, t) /\ tx[j] = IdleTx /\ UNCHANGED <<listing, owner, writes, faults, owed, vars>>
  BY DEF Expire
<1> HIDE DEF t
<1>4. TxInv'
  BY <1>1, <1>2, <1>3, SetStep, SessionsDiffer, NoRowsIsRows DEF Turning
<1>5. tx' \in [Session -> Tx] /\ tx'[j] = t /\ \A i \in Job : i # j => tx'[i] = tx[i]
  BY <1>1, <1>2, <1>3, SetTypes, SessionsDiffer DEF ListingsTypeOK
<1>6. ListingsTypeOK'
  BY <1>2, <1>3, <1>5, LockTypes DEF ListingsTypeOK
<1>7. \A i \in Job : tx'[i].count = tx[i].count
  BY <1>1, <1>3, <1>5, IdleIsTx
<1> QED
  BY <1>2, <1>3, <1>4, <1>6, <1>7, CountKept

LEMMA TakeRowStep ==
  ASSUME LInv, NEW s \in Session, TakeRow(s)
  PROVE  ListingsTypeOK' /\ TxInv' /\ ExpiryReportedOnce'
<1>1. PICK l \in tx[s].todo :
        /\ ~ Locked(l)
        /\ Set(s, [tx[s] EXCEPT !.todo = @ \ {l},
                     !.rows = IF Wanted(s, listing[l])
                              THEN With(@, l, Rewritten(s, listing[l])) ELSE @])
  BY DEF TakeRow
<1> DEFINE new == Rewritten(s, listing[l])
           rows == IF Wanted(s, listing[l]) THEN With(tx[s].rows, l, new) ELSE tx[s].rows
           t == [tx[s] EXCEPT !.todo = @ \ {l}, !.rows = rows]
<1>2. ListingsTypeOK /\ TxInv /\ ExpiryReportedOnce
  BY DEF LInv
<1>3. tx[s] \in Tx /\ tx[s].rows \in Rows /\ l \in Listing /\ listing[l] \in Row
  BY <1>2 DEF ListingsTypeOK, Tx
<1>4. new \in Row /\ new.status = IF s \in Job THEN "EXPIRED" ELSE "DEACTIVATED"
  BY <1>3 DEF Rewritten, Row, Status
<1>5. /\ With(tx[s].rows, l, new) \in Rows
      /\ DOMAIN With(tx[s].rows, l, new) = DOMAIN tx[s].rows \cup {l}
      /\ \A k \in DOMAIN tx[s].rows \cup {l} : With(tx[s].rows, l, new)[k] = IF k = l THEN new ELSE tx[s].rows[k]
  <2>1. With(tx[s].rows, l, new) \in Rows
    BY <1>3, <1>4, WithIsRows
  <2>2. DOMAIN With(tx[s].rows, l, new) = DOMAIN tx[s].rows \cup {l}
    BY WithDomain
  <2>3. \A k \in DOMAIN tx[s].rows \cup {l} : With(tx[s].rows, l, new)[k] = IF k = l THEN new ELSE tx[s].rows[k]
    BY WithValue
  <2> QED
    BY <2>1, <2>2, <2>3
<1> HIDE DEF new
<1>6. rows \in Rows /\ DOMAIN rows \subseteq DOMAIN tx[s].rows \cup {l}
  BY <1>3, <1>5
<1>7. /\ t \in Tx /\ t.pc = tx[s].pc /\ t.on = tx[s].on /\ t.to = tx[s].to /\ t.todo = tx[s].todo \ {l}
      /\ t.late = tx[s].late /\ t.rows = rows /\ t.count = tx[s].count
  BY <1>3, <1>6 DEF Tx
<1>8. Set(s, t) /\ ~ Locked(l) /\ UNCHANGED <<listing, owner, writes, faults, owed, vars>>
  BY <1>1 DEF TakeRow, new
<1> HIDE DEF t
<1>9. ASSUME s \in Client PROVE Sweeping(t)
  <2>1. Sweeping(tx[s]) /\ s \notin Job
    BY <1>2, <1>9, SessionsDiffer DEF TxInv
  <2>2. CASE Wanted(s, listing[l])
    <3>1. \A k \in DOMAIN rows : rows[k] = new \/ (k \in DOMAIN tx[s].rows /\ rows[k] = tx[s].rows[k])
      BY <1>5, <2>2
    <3>2. DOMAIN rows = DOMAIN tx[s].rows \cup {l}
      BY <1>5, <2>2
    <3>3. new.status \notin Dealable
      BY <1>4, <2>1 DEF Dealable
    <3> HIDE DEF rows
    <3> QED
      BY <2>1, <3>1, <3>2, <3>3, <1>7 DEF Sweeping
  <2>3. CASE ~ Wanted(s, listing[l])
    <3>1. rows = tx[s].rows
      BY <2>3
    <3>2. listing[l].status \notin Dealable
      BY <2>1, <2>3 DEF Wanted, Cascaded, Dealable
    <3> HIDE DEF rows
    <3> QED
      BY <2>1, <3>1, <3>2, <1>7 DEF Sweeping
  <2> QED
    BY <2>2, <2>3
<1>10. ASSUME s \in Job PROVE Turning(t)
  <2>1. Turning(tx[s])
    BY <1>2, <1>10 DEF TxInv
  <2>2. l \in DOMAIN rows => l \in DOMAIN tx[s].rows \/ listing[l].status = "ACTIVE"
    BY <1>10 DEF Wanted, Due
  <2> HIDE DEF rows
  <2> QED
    BY <2>1, <2>2, <1>6, <1>7 DEF Turning
<1> HIDE DEF rows
<1>11. TxInv'
  BY <1>2, <1>6, <1>7, <1>8, <1>9, <1>10, SetStep
<1>12. tx' \in [Session -> Tx] /\ tx'[s] = t /\ \A z \in Session : z # s => tx'[z] = tx[z]
  BY <1>2, <1>7, <1>8, SetTypes DEF ListingsTypeOK
<1>13. ListingsTypeOK'
  BY <1>2, <1>8, <1>12, LockTypes DEF ListingsTypeOK
<1>14. \A j \in Job : tx'[j].count = tx[j].count
  BY <1>7, <1>12, SessionsDiffer
<1> QED
  BY <1>2, <1>8, <1>11, <1>13, <1>14, CountKept

LEMMA RollbackStep ==
  ASSUME LInv, NEW s \in Session, Rollback(s)
  PROVE  ListingsTypeOK' /\ TxInv' /\ ExpiryReportedOnce'
<1> DEFINE t == [IdleTx EXCEPT !.pc = IF s \in Job THEN "done" ELSE "idle"]
<1>1. t \in Tx /\ t.on = Nobody /\ t.rows = NoRows /\ t.count = 0
  BY IdleIsTx DEF Tx
<1>2. ListingsTypeOK /\ TxInv /\ ExpiryReportedOnce
  BY DEF LInv
<1>3. Set(s, t) /\ tx[s].pc # "audit" /\ UNCHANGED <<listing, owner, writes, faults, owed, vars>>
  BY DEF Rollback
<1> HIDE DEF t
<1>4. TxInv'
  BY <1>1, <1>2, <1>3, SetStep, NoRowsIsRows DEF Sweeping, Turning
<1>5. tx' \in [Session -> Tx] /\ tx'[s] = t /\ \A z \in Session : z # s => tx'[z] = tx[z]
  BY <1>1, <1>2, <1>3, SetTypes DEF ListingsTypeOK
<1>6. ListingsTypeOK'
  BY <1>2, <1>3, <1>5, LockTypes DEF ListingsTypeOK
<1>7. \A j \in Job : tx'[j].count = tx[j].count
  BY <1>1, <1>2, <1>3, <1>5, SessionsDiffer DEF TxInv, Turning
<1> QED
  BY <1>2, <1>3, <1>4, <1>6, <1>7, CountKept

LEMMA CountTypes == ASSUME ListingsTypeOK, NEW j \in Job
                    PROVE  tx[j].count \in Nat /\ owed[j] \in Int /\ faults \in Nat
<1>1. tx[j] \in Tx /\ Cardinality(Listing) \in Nat
  BY ListingsAssumption, FS_CardinalityType, SessionsDiffer DEF ListingsTypeOK
<1> QED
  BY <1>1, Bounded DEF ListingsTypeOK, Tx

LEMMA ReportStep ==
  ASSUME LInv, NEW j \in Job, Report(j)
  PROVE  ListingsTypeOK' /\ TxInv' /\ ExpiryReportedOnce'
<1> DEFINE t == [IdleTx EXCEPT !.pc = "done"]
<1>1. t \in Tx /\ t.on = Nobody /\ t.rows = NoRows /\ t.count = 0
  BY IdleIsTx DEF Tx
<1>2. ListingsTypeOK /\ TxInv /\ ExpiryReportedOnce
  BY DEF LInv
<1>3. Set(j, t) /\ UNCHANGED <<listing, owner, writes, vars>>
      /\ \/ owed' = [owed EXCEPT ![j] = @ - tx[j].count] /\ UNCHANGED faults
         \/ faults < MaxFaults /\ faults' = faults + 1 /\ UNCHANGED owed
  BY DEF Report
<1> HIDE DEF t
<1>4. TxInv'
  BY <1>1, <1>2, <1>3, SetStep, NoRowsIsRows, SessionsDiffer DEF Turning
<1>5. tx' \in [Session -> Tx] /\ tx'[j] = t /\ \A i \in Job : i # j => tx'[i] = tx[i]
  BY <1>1, <1>2, <1>3, SetTypes, SessionsDiffer DEF ListingsTypeOK
<1>6. owed' \in [Job -> Int] /\ faults' \in 0..MaxFaults
  BY <1>2, <1>3, CountTypes, Bounded DEF ListingsTypeOK
<1>7. ListingsTypeOK'
  BY <1>2, <1>3, <1>5, <1>6, LockTypes DEF ListingsTypeOK
<1>8. ASSUME NEW i \in Job
      PROVE  tx'[i].count <= owed'[i] /\ (faults' = 0 => tx'[i].count = owed'[i])
  <2>1. /\ tx[i].count \in Nat /\ owed[i] \in Int /\ faults \in Nat
        /\ tx[i].count <= owed[i] /\ (faults = 0 => tx[i].count = owed[i])
    BY <1>2, CountTypes DEF ExpiryReportedOnce
  <2>2. tx'[i].count = IF i = j THEN 0 ELSE tx[i].count
    BY <1>1, <1>5
  <2>3. owed \in [Job -> Int]
    BY <1>2 DEF ListingsTypeOK
  <2> QED
    BY <2>1, <2>2, <2>3, <1>3
<1> QED
  BY <1>4, <1>7, <1>8 DEF ExpiryReportedOnce

LEMMA FinishTickStep ==
  ASSUME LInv, NEW j \in Job, FinishTick(j)
  PROVE  IInv' => ListingsTypeOK' /\ TxInv' /\ ExpiryReportedOnce'
<1>1. IdleTx \in Tx /\ IdleTx.on = Nobody /\ IdleTx.rows = NoRows /\ IdleTx.count = 0
  BY IdleIsTx
<1>2. ListingsTypeOK /\ TxInv /\ ExpiryReportedOnce
  BY DEF LInv
<1>3. Set(j, IdleTx) /\ tx[j].pc = "done" /\ UNCHANGED <<listing, owner, writes, faults, owed>>
  BY DEF FinishTick
<1>4. TxInv'
  BY <1>1, <1>2, <1>3, SetStep, NoRowsIsRows, SessionsDiffer DEF Turning
<1>5. tx' \in [Session -> Tx] /\ tx'[j] = IdleTx /\ \A i \in Job : i # j => tx'[i] = tx[i]
  BY <1>1, <1>2, <1>3, SetTypes, SessionsDiffer DEF ListingsTypeOK
<1>6. IInv' => ListingsTypeOK'
  BY <1>2, <1>3, <1>5 DEF ListingsTypeOK, IInv
<1>7. \A i \in Job : tx'[i].count = tx[i].count
  BY <1>1, <1>2, <1>3, <1>5 DEF TxInv, Turning
<1> QED
  BY <1>2, <1>3, <1>4, <1>6, <1>7, CountKept

LEMMA CommitStep ==
  ASSUME LInv, NEW c \in Session, Commit(c)
  PROVE  ListingsTypeOK' /\ TxInv' /\ ExpiryReportedOnce'
<1>1. ListingsTypeOK /\ TxInv /\ ExpiryReportedOnce
  BY DEF LInv
<1>2. /\ c \in Client /\ Apply(c, IdleTx) /\ UNCHANGED <<writes, faults, owed, vars>>
      /\ owner' = IF tx[c].on = Nobody THEN owner ELSE [owner EXCEPT ![tx[c].on] = tx[c].to]
  BY DEF Commit
<1>3. tx[c] \in Tx /\ owner \in [Owner -> {"live", "off", "kept"}]
  BY <1>1 DEF ListingsTypeOK
<1>4. owner' \in [Owner -> {"live", "off", "kept"}]
  BY <1>2, <1>3 DEF Tx
<1>5. ASSUME NEW z \in Session, z # c, tx[z].on # Nobody PROVE owner'[tx[z].on] = owner[tx[z].on]
  <2>1. tx[z] \in Tx /\ tx[z].on # tx[c].on
    BY <1>1, <1>5 DEF ListingsTypeOK, TxInv, Apart
  <2>2. tx[z].on \in Owner
    BY <2>1, <1>5 DEF Tx
  <2> QED
    BY <2>1, <2>2, <1>2, <1>3
<1>6. /\ listing' \in [Listing -> Row] /\ tx' \in [Session -> Tx]
      /\ \A z \in Session : z # c => tx'[z].count = tx[z].count
      /\ TxInv'
  BY <1>1, <1>2, <1>5, IdleIsTx, ApplyStep
<1>7. ListingsTypeOK'
  BY <1>1, <1>2, <1>4, <1>6, LockTypes DEF ListingsTypeOK
<1>8. \A j \in Job : tx'[j].count = tx[j].count
  BY <1>2, <1>6, SessionsDiffer
<1> QED
  BY <1>1, <1>2, <1>6, <1>7, <1>8, CountKept

(* No other transaction has turned a row this one has written: what the      *)
(* UPDATE returned is what has become EXPIRED by it.                         *)
LEMMA CommitExpiryStep ==
  ASSUME LInv, NEW j \in Session, CommitExpiry(j)
  PROVE  ListingsTypeOK' /\ TxInv' /\ ExpiryReportedOnce'
<1> DEFINE D == DOMAIN tx[j].rows
           n == Cardinality(D)
           done == [IdleTx EXCEPT !.pc = "done"]
           audit == [IdleTx EXCEPT !.pc = IF n > 0 THEN "audit" ELSE "done", !.count = n]
<1>1. ListingsTypeOK /\ TxInv /\ ExpiryReportedOnce
  BY DEF LInv
<1>2. j \in Job /\ tx[j].pc = "rows" /\ UNCHANGED <<owner, writes, vars>>
  BY DEF CommitExpiry
<1>3. tx[j] \in Tx /\ D \subseteq Listing /\ Cardinality(Listing) \in Nat
  BY <1>1, RowsAre, ListingsAssumption, FS_CardinalityType DEF ListingsTypeOK, Tx
<1>4. n \in 0..Cardinality(Listing)
  <2>1. IsFiniteSet(D) /\ n <= Cardinality(Listing)
    BY <1>3, ListingsAssumption, FS_Subset
  <2>2. n \in Nat
    BY <2>1, FS_CardinalityType
  <2> QED
    BY <2>1, <2>2, <1>3
<1>5. {l \in D : listing[l].status # "EXPIRED"} = D /\ tx[j].count = 0
  BY <1>1, <1>2 DEF TxInv, Turning
<1>6. /\ owed' = [owed EXCEPT ![j] = @ + n]
      /\ \/ Apply(j, audit) /\ UNCHANGED faults
         \/ n > 0 /\ faults < MaxFaults /\ faults' = faults + 1 /\ Apply(j, done)
  BY <1>5 DEF CommitExpiry
<1>7. /\ done \in Tx /\ done.on = Nobody /\ done.rows = NoRows /\ done.count = 0
      /\ audit \in Tx /\ audit.on = Nobody /\ audit.rows = NoRows /\ audit.count = n
      /\ audit.pc # "audit" => n = 0
  <2> HIDE DEF n
  <2>1. done \in Tx /\ done.on = Nobody /\ done.rows = NoRows /\ done.count = 0
    BY IdleIsTx DEF Tx
  <2>2. audit \in Tx /\ audit.on = Nobody /\ audit.rows = NoRows /\ audit.count = n
    BY <1>4, IdleIsTx DEF Tx
  <2>3. audit.pc = IF n > 0 THEN "audit" ELSE "done"
    BY IdleIsTx DEF Tx
  <2>4. n \in Nat
    BY <1>3, <1>4
  <2> HIDE DEF audit, done
  <2> QED
    BY <2>1, <2>2, <2>3, <2>4
<1> HIDE DEF n, D, done, audit
<1>8. PICK then \in {audit, done} :
        /\ Apply(j, then)
        /\ \/ then = audit /\ UNCHANGED faults
           \/ then = done /\ faults < MaxFaults /\ faults' = faults + 1
  BY <1>6
<1>9. /\ listing' \in [Listing -> Row] /\ tx' \in [Session -> Tx]
      /\ tx'[j] = then /\ \A z \in Session : z # j => tx'[z].count = tx[z].count
      /\ TxInv'
  BY <1>1, <1>2, <1>7, <1>8, ApplyStep
<1>10. owed \in [Job -> Int] /\ owed' \in [Job -> Int] /\ faults' \in 0..MaxFaults
  BY <1>1, <1>2, <1>4, <1>6, <1>8, CountTypes, Bounded DEF ListingsTypeOK
<1>11. ListingsTypeOK'
  BY <1>1, <1>2, <1>9, <1>10, LockTypes DEF ListingsTypeOK
<1>12. ASSUME NEW i \in Job
       PROVE  tx'[i].count <= owed'[i] /\ (faults' = 0 => tx'[i].count = owed'[i])
  <2>1. /\ tx[i].count \in Nat /\ owed[i] \in Int /\ faults \in Nat /\ n \in Nat
        /\ tx[i].count <= owed[i] /\ (faults = 0 => tx[i].count = owed[i])
    BY <1>1, <1>3, <1>4, CountTypes DEF ExpiryReportedOnce
  <2>2. CASE i = j
    <3>1. owed'[i] = owed[i] + n /\ tx[i].count = 0 /\ tx'[i] = then
      BY <2>2, <1>5, <1>6, <1>9, <1>10
    <3> QED
      BY <2>1, <3>1, <1>7, <1>8
  <2>3. CASE i # j
    <3>1. owed'[i] = owed[i] /\ tx'[i].count = tx[i].count
      BY <2>3, <1>6, <1>9, <1>10, SessionsDiffer
    <3> QED
      BY <2>1, <3>1, <1>8
  <2> QED
    BY <2>2, <2>3
<1> QED
  BY <1>9, <1>11, <1>12 DEF ExpiryReportedOnce

LEMMA LapseStep ==
  ASSUME LInv, NEW l \in Listing, Lapse(l)
  PROVE  ListingsTypeOK' /\ TxInv' /\ ExpiryReportedOnce'
<1>1. ListingsTypeOK /\ TxInv /\ ExpiryReportedOnce
  BY DEF LInv
<1>2. /\ listing' = [listing EXCEPT ![l].expires = "past"]
      /\ UNCHANGED <<owner, tx, writes, faults, owed, vars>>
  BY DEF Lapse
<1>3. listing' \in [Listing -> Row] /\ \A k \in Listing : listing'[k].status = listing[k].status
  BY <1>1, <1>2 DEF ListingsTypeOK, Row
<1>4. ListingsTypeOK'
  BY <1>1, <1>2, <1>3, LockTypes DEF ListingsTypeOK
<1>5. ASSUME NEW s \in Session
      PROVE  (Sweeping(tx[s]) => Sweeping(tx[s])') /\ (Turning(tx[s]) => Turning(tx[s])')
  <2>1. DOMAIN tx[s].rows \subseteq Listing
    BY <1>1, RowsAre DEF ListingsTypeOK, Tx
  <2> QED
    BY <1>2, <1>3, <2>1 DEF Sweeping, Turning
<1>6. TxInv'
  BY <1>1, <1>2, <1>5, SessionsDiffer DEF TxInv, Apart
<1> QED
  BY <1>1, <1>2, <1>4, <1>6, CountKept

LEMMA CrashWorkerStep ==
  ASSUME LInv, NEW i \in Instance, CrashWorker(i)
  PROVE  IInv' => ListingsTypeOK' /\ TxInv' /\ ExpiryReportedOnce'
<1> DEFINE lost == {j \in Job : HomeOf[j] = i /\ tx[j].pc = "audit"}
           ends(s) == s \in Job /\ HomeOf[s] = i
<1>1. ListingsTypeOK /\ TxInv /\ ExpiryReportedOnce
  BY DEF LInv
<1>2. /\ faults + Cardinality(lost) <= MaxFaults /\ faults' = faults + Cardinality(lost)
      /\ tx' = [s \in Session |-> IF ends(s) THEN IdleTx ELSE tx[s]]
      /\ UNCHANGED <<listing, owner, writes, owed>>
  BY DEF CrashWorker
<1>3. Cardinality(lost) \in Nat /\ (Cardinality(lost) = 0 => lost = {})
  <2>1. lost \subseteq Job
    OBVIOUS
  <2>2. IsFiniteSet(lost)
    BY <2>1, ConstantsAssumption, FS_Subset
  <2> QED
    BY <2>2, FS_CardinalityType, FS_EmptySet
<1>4. \A s \in Session : tx'[s] = IF ends(s) THEN IdleTx ELSE tx[s]
  BY <1>2
<1>5. tx' \in [Session -> Tx]
  BY <1>1, <1>2, IdleIsTx DEF ListingsTypeOK
<1>6. faults' \in 0..MaxFaults
  BY <1>1, <1>2, <1>3, Bounded
<1>7. IInv' => ListingsTypeOK'
  BY <1>1, <1>2, <1>5, <1>6 DEF ListingsTypeOK, IInv
<1> HIDE DEF ends
<1>8. Apart'
  BY <1>1, <1>4, IdleIsTx, NoRowsIsRows DEF TxInv, Apart
<1>9. ASSUME NEW c \in Client PROVE Sweeping(tx[c])'
  BY <1>1, <1>2, <1>4, SessionsDiffer DEF TxInv, Sweeping, ends
<1>10. ASSUME NEW j \in Job PROVE Turning(tx[j])'
  BY <1>1, <1>2, <1>4, SessionsDiffer, IdleIsTx, NoRowsIsRows DEF TxInv, Turning
<1>11. ASSUME NEW j \in Job
       PROVE  tx'[j].count <= owed'[j] /\ (faults' = 0 => tx'[j].count = owed'[j])
  <2>1. /\ tx[j].count \in Nat /\ owed[j] \in Int /\ faults \in Nat
        /\ tx[j].count <= owed[j] /\ (faults = 0 => tx[j].count = owed[j])
    BY <1>1, CountTypes DEF ExpiryReportedOnce
  <2>2. faults' = 0 => faults = 0 /\ lost = {}
    BY <1>2, <1>3, <2>1
  <2>3. CASE ends(j)
    <3>1. tx'[j].count = 0
      BY <1>4, <2>3, SessionsDiffer, IdleIsTx
    <3>2. j \in lost \/ tx[j].count = 0
      BY <1>1, <2>3 DEF TxInv, Turning, ends
    <3> QED
      BY <2>1, <2>2, <3>1, <3>2, <1>2
  <2>4. CASE ~ ends(j)
    BY <2>1, <2>2, <2>4, <1>2, <1>4, SessionsDiffer
  <2> QED
    BY <2>3, <2>4
<1> QED
  BY <1>7, <1>8, <1>9, <1>10, <1>11 DEF TxInv, ExpiryReportedOnce

LEMMA TableKept ==
  ASSUME LInv, UNCHANGED table
  PROVE  IInv' => ListingsTypeOK' /\ TxInv' /\ ExpiryReportedOnce'
BY DEF LInv, table, IInv, ListingsTypeOK, TxInv, Apart, Sweeping, Turning, ExpiryReportedOnce

-----------------------------------------------------------------------------
LEMMA InitLInv == ListingsInit => LInv
<1> SUFFICES ASSUME ListingsInit PROVE LInv
  OBVIOUS
<1>1. Init /\ IInv
  BY InitIInv DEF ListingsInit
<1>2. /\ \A s \in Session : tx[s] = IdleTx
      /\ tx \in [Session -> Tx] /\ owner \in [Owner -> {"live", "off", "kept"}]
      /\ listing \in [Listing -> Row] /\ owed \in [Job -> Int] /\ \A j \in Job : owed[j] = 0
      /\ writes \in 0..MaxWrites /\ faults \in 0..MaxFaults
  BY IdleIsTx, ListingsAssumption DEF ListingsInit
<1>3. ListingsTypeOK
  BY <1>1, <1>2 DEF ListingsTypeOK, IInv
<1>4. TxInv
  BY <1>2, IdleIsTx, NoRowsIsRows, SessionsDiffer DEF TxInv, Apart, Sweeping, Turning
<1>5. ExpiryReportedOnce
  BY <1>2, IdleIsTx, SessionsDiffer DEF ExpiryReportedOnce
<1> QED
  BY <1>1, <1>3, <1>4, <1>5 DEF LInv

LEMMA StepLInv == LInv /\ [ListingsNext]_<<vars, table>> => LInv'
<1> SUFFICES ASSUME LInv, [ListingsNext]_<<vars, table>> PROVE LInv'
  OBVIOUS
<1>1. IInv'
  BY LockIsKept, StepIInv DEF LInv
<1> DEFINE Kept == ListingsTypeOK' /\ TxInv' /\ ExpiryReportedOnce'
<1> HIDE DEF Kept
<1>2. ASSUME NEW c \in Client, NEW l \in Listing, Write(c, l) PROVE Kept
  BY <1>2, WriteStep DEF Kept
<1>3. ASSUME NEW c \in Client, NEW x \in Owner, Deactivate(c, x) \/ Reactivate(c, x) PROVE Kept
  BY <1>3, DeactivateStep, ReactivateStep DEF Kept
<1>4. ASSUME NEW s \in Session, TakeRow(s) \/ Commit(s) \/ Rollback(s) \/ CommitExpiry(s) PROVE Kept
  BY <1>4, TakeRowStep, CommitStep, RollbackStep, CommitExpiryStep DEF Kept
<1>5. ASSUME NEW j \in Job, Expire(j) \/ Report(j) \/ FinishTick(j) PROVE Kept
  BY <1>1, <1>5, ExpireStep, ReportStep, FinishTickStep DEF Kept
<1>6. ASSUME NEW i \in Instance, CrashWorker(i) PROVE Kept
  BY <1>1, <1>6, CrashWorkerStep DEF Kept
<1>7. ASSUME NEW l \in Listing, Lapse(l) PROVE Kept
  BY <1>7, LapseStep DEF Kept
<1>8. ASSUME UNCHANGED table PROVE Kept
  BY <1>1, <1>8, TableKept DEF Kept
<1>9. ASSUME LoseSession \/ (\E j \in Job : LockStep(j)) \/ UNCHANGED <<vars, table>> PROVE UNCHANGED table
  BY <1>9 DEF LoseSession, LockStep
<1>10. Kept
  BY <1>2, <1>3, <1>4, <1>5, <1>6, <1>7, <1>8, <1>9 DEF ListingsNext
<1> QED
  BY <1>1, <1>10 DEF LInv, Kept

LEMMA ListingsInvariance == ListingsSpec => []LInv
BY InitLInv, StepLInv, PTL DEF ListingsSpec

-----------------------------------------------------------------------------
(* The tables, the open transactions and the lock keep their types.          *)
THEOREM ListingsTypes == ListingsSpec => []ListingsTypeOK
<1>1. LInv => ListingsTypeOK
  BY DEF LInv
<1> QED
  BY <1>1, ListingsInvariance, PTL

(* Listings implements the lock: what the ticks do while they hold it never  *)
(* takes, frees or loses it in another way, so that all that is proved of    *)
(* the lock holds of them.                                                   *)
THEOREM LockIsImplemented == ListingsSpec => Spec
<1>1. ListingsInit => Init
  BY DEF ListingsInit
<1> QED
  BY <1>1, LockIsKept, PTL DEF ListingsSpec, Spec

(* Two workers expire listings at once only after a session was lost.        *)
THEOREM OneInstanceExpires == ListingsSpec => []OneInstanceWorks
BY LockIsImplemented, ExclusionTheorem, PTL

(* Each expiry is reported once, by the tick that made it, however many      *)
(* ticks work at once and whatever sessions end under them.                  *)
THEOREM ReportedTheorem == ListingsSpec => []ExpiryReportedOnce
<1>1. LInv => ExpiryReportedOnce
  BY DEF LInv
<1> QED
  BY <1>1, ListingsInvariance, PTL

(* A deactivation takes off the market all that was there when its cascade   *)
(* picked its rows, whatever other transactions commit until it does.        *)
THEOREM CascadeTheorem == ListingsSpec => CascadeMissesNewcomersOnly
<1>1. ASSUME LInv, NEW c \in Client, NEW x \in Owner, Commit(c), tx[c].on = x, tx[c].to = "off",
             owner[x] = "live", NEW l \in Listing, Owns(x, l), listing'[l].status \in Dealable
      PROVE  l \in tx[c].late
  <2>1. Sweeping(tx[c]) /\ x # Nobody
    BY <1>1, SessionsDiffer DEF LInv, TxInv
  <2>2. listing'[l] = (IF l \in DOMAIN tx[c].rows THEN tx[c].rows[l] ELSE listing[l]) /\ tx[c].todo = {}
    BY <1>1 DEF Commit, Apply
  <2> QED
    BY <1>1, <2>1, <2>2 DEF Sweeping
<1>2. LInv /\ [ListingsNext]_<<vars, table>> =>
        [\A c \in Client, x \in Owner :
           Commit(c) /\ tx[c].on = x /\ tx[c].to = "off" /\ owner[x] = "live" =>
             \A l \in Listing : Owns(x, l) /\ listing'[l].status \in Dealable => l \in tx[c].late]_<<vars, table>>
  BY <1>1
<1> QED
  BY <1>2, ListingsInvariance, PTL DEF ListingsSpec, CascadeMissesNewcomersOnly
=============================================================================
