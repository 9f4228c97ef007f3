------------------------------ MODULE Pedigree ------------------------------
(***************************************************************************)
(* The animals table and the triggers on it (database_schema.sql): what a  *)
(* row is born with never changes, and parents are checked when they are   *)
(* set.  The backend has no handlers for the table yet, so any INSERT,     *)
(* UPDATE or DELETE may arrive, each in a transaction of its own.          *)
(*                                                                         *)
(* Transactions are READ COMMITTED: every query in the body of the trigger *)
(* sees what is committed when the query starts, and what is committed may *)
(* change before the statement itself is.  An UPDATE locks its row before  *)
(* the trigger runs.  Ids are fresh UUIDs and not used twice.              *)
(***************************************************************************)
EXTENDS Naturals, FiniteSets

CONSTANTS
  Id,        \* ids of animals
  Species,
  Writer,    \* database sessions
  None,      \* SQL NULL
  MaxDate,   \* bound on the dates of birth
  WalkDepth  \* how far the trigger follows ancestors: 64

ASSUME PedigreeAssumption ==
  /\ None \notin Id
  /\ MaxDate \in Nat /\ WalkDepth \in Nat \ {0}

VARIABLES
  row,   \* the committed rows
  used,  \* ids that were ever inserted
  live,  \* ids with a row
  stmt   \* the statement each session has under way

animals == <<row, used, live, stmt>>

Sex == {"Male", "Female"}
AnimalRow == [species : Species, sex : Sex, dob : 0..MaxDate,
              mother : Id \cup {None}, father : Id \cup {None}]
Idle == [pc |-> "idle"]
Statement == [pc : {"mother", "father", "walk", "write"}, id : Id, new : AnimalRow]

PedigreeTypeOK ==
  /\ used \subseteq Id /\ live \subseteq used
  /\ row \in [live -> AnimalRow]
  /\ stmt \in [Writer -> Statement \cup {Idle}]

PedigreeInit ==
  /\ used = {} /\ live = {}
  /\ row = [a \in {} |-> None]
  /\ stmt = [s \in Writer |-> Idle]

-----------------------------------------------------------------------------
Parents(r) == {r.mother, r.father} \ {None}
ParentsOf(A) == live \cap UNION {Parents(row[a]) : a \in A \cap live}

(* The CTE of the trigger: the committed ancestors on WalkDepth levels.      *)
Ancestors(r) ==
  LET level[n \in 1..WalkDepth] ==
        IF n = 1 THEN live \cap Parents(r) ELSE ParentsOf(level[n - 1])
  IN  UNION {level[n] : n \in 1..WalkDepth}

(* v_dob >= NEW.date_of_birth is refused.                                    *)
BornAt(d, e) == d <= e  \* seeded fault
BornBefore(d, e) == d < e

Suits(p, sex, r) ==
  p = None \/ /\ p \in live
              /\ row[p].sex = sex /\ row[p].species = r.species
              /\ BornBefore(row[p].dob, r.dob)

(* trg_animals_immutable_and_owner *)
NotChecked(old, new) == TRUE  \* seeded fault
Unchanged(old, new) ==
  new.species = old.species /\ new.sex = old.sex /\ new.dob = old.dob

Bear(r, m, f) == [species |-> r.species, sex |-> r.sex, dob |-> r.dob,
                  mother |-> m, father |-> f]
(* ON DELETE SET NULL *)
Orphaned(r, a) == Bear(r, IF r.mother = a THEN None ELSE r.mother,
                          IF r.father = a THEN None ELSE r.father)

At(s, pc) == stmt[s].pc = pc
RowLocked(a) == \E s \in Writer : stmt[s] # Idle /\ stmt[s].id = a
Begin(s, a, r) ==
  /\ stmt[s] = Idle /\ ~ RowLocked(a)
  /\ stmt' = [stmt EXCEPT ![s] = [pc |-> "mother", id |-> a, new |-> r]]
Proceed(s, pc) == stmt' = [stmt EXCEPT ![s] = [pc |-> pc, id |-> stmt[s].id, new |-> stmt[s].new]]
Return(s) == stmt' = [stmt EXCEPT ![s] = Idle]

-----------------------------------------------------------------------------
Insert(s, a, r) ==
  /\ Begin(s, a, r)
  /\ UNCHANGED <<row, used, live>>

(* UPDATE that sets mother_id or father_id, and perhaps other columns.       *)
SetParents(s, a, r) ==
  /\ Unchanged(row[a], r)
  /\ Begin(s, a, r)
  /\ UNCHANGED <<row, used, live>>

(* enforce_pedigree_integrity, query by query; RAISE ends the statement.     *)
CheckMother(s) ==
  LET id == stmt[s].id
      r == stmt[s].new IN
  /\ At(s, "mother")
  /\ IF id \notin Parents(r) /\ Suits(r.mother, "Female", r) THEN Proceed(s, "father") ELSE Return(s)
  /\ UNCHANGED <<row, used, live>>

CheckFather(s) ==
  LET r == stmt[s].new IN
  /\ At(s, "father")
  /\ IF Suits(r.father, "Male", r) THEN Proceed(s, "walk") ELSE Return(s)
  /\ UNCHANGED <<row, used, live>>

CheckCycle(s) ==
  /\ At(s, "walk")
  /\ IF stmt[s].id \notin Ancestors(stmt[s].new) THEN Proceed(s, "write") ELSE Return(s)
  /\ UNCHANGED <<row, used, live>>

(* The row is written, the foreign keys are checked, and it is committed.    *)
CommitRow(s) ==
  LET a == stmt[s].id
      r == stmt[s].new IN
  /\ At(s, "write")
  /\ \/ /\ Parents(r) \subseteq live
        /\ row' = [b \in live \cup {a} |-> IF b = a THEN r ELSE row[b]]
        /\ used' = used \cup {a} /\ live' = live \cup {a}
     \/ /\ ~ Parents(r) \subseteq live
        /\ UNCHANGED <<row, used, live>>
  /\ Return(s)

(* UPDATE that sets neither: the pedigree trigger does not fire.             *)
Edit(a, r) ==
  /\ ~ RowLocked(a)
  /\ r.mother = row[a].mother /\ r.father = row[a].father
  /\ Unchanged(row[a], r)
  /\ row' = [row EXCEPT ![a] = r]
  /\ UNCHANGED <<used, live, stmt>>

(* DELETE with its ON DELETE SET NULL, which waits for the offspring's locks *)
(* and updates mother_id or father_id, so that the trigger fires.            *)
Delete(a) ==
  LET offspring == {b \in live : a \in Parents(row[b])} IN
  /\ ~ RowLocked(a)
  /\ \A b \in offspring :
       LET r == Orphaned(row[b], a) IN
       /\ ~ RowLocked(b)
       /\ Suits(r.mother, "Female", r) /\ Suits(r.father, "Male", r)
       /\ b \notin Parents(r) \cup Ancestors(r)
  /\ row' = [b \in live \ {a} |-> IF b \in offspring THEN Orphaned(row[b], a) ELSE row[b]]
  /\ live' = live \ {a}
  /\ UNCHANGED <<used, stmt>>

PedigreeNext ==
  \/ \E s \in Writer, a \in Id \ used, r \in AnimalRow : Insert(s, a, r)
  \/ \E s \in Writer, a \in live, r \in AnimalRow : SetParents(s, a, r)
  \/ \E s \in Writer : CheckMother(s) \/ CheckFather(s) \/ CheckCycle(s) \/ CommitRow(s)
  \/ \E a \in live, r \in AnimalRow : Edit(a, r)
  \/ \E a \in live : Delete(a)

PedigreeSpec == PedigreeInit /\ [][PedigreeNext]_animals

-----------------------------------------------------------------------------
(* Parents exist, a mother is female and a father male, both of the species  *)
(* of their offspring and born before it, although each was true only when a *)
(* trigger looked.                                                           *)
ParentsFit ==
  \A a \in live :
    LET r == row[a] IN
    Suits(r.mother, "Female", r) /\ Suits(r.father, "Male", r)

(* "No cycles (an animal may not be its own ancestor; checked to depth 64)", *)
(* docs/specs/02-animal-domain.md:96: of any animals, one has no parent      *)
(* among them, at any depth and with any statements side by side.            *)
Acyclic ==
  \A A \in SUBSET live : A # {} => \E a \in A : Parents(row[a]) \cap A = {}
=============================================================================
