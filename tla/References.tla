----------------------------- MODULE References -----------------------------
(***************************************************************************)
(* The references #1, #2... of the stories of a project: a sequence of the *)
(* database for each project (projects/references, base/db/sequences). It  *)
(* is created with the project or, if it is not there, when a reference is *)
(* drawn, and dropped with the project. A reference that was drawn is not  *)
(* given back, even if the transaction it was drawn for fails.             *)
(***************************************************************************)
EXTENDS Naturals, FiniteSets

CONSTANTS
    Stories,      \* identities of the stories of the project: numbers
    MaxReference, \* bound: no reference above it is drawn by a request
    NoRef

ASSUME StoriesAssumption ==
    Stories \subseteq Nat /\ MaxReference \in Nat /\ NoRef \notin Nat

VARIABLES
    sequence, \* the last reference drawn, NoRef when there is no sequence
    refs,     \* the stories there are, with their references
    drawn     \* the references of the stories about to be inserted

referenceVars == <<sequence, refs, drawn>>

ReferencesTypeOK ==
    /\ sequence \in Nat \cup {NoRef}
    /\ refs \in [Stories -> Nat \cup {NoRef}]
    /\ drawn \in [Stories -> Nat \cup {NoRef}]

ReferencesInit ==
    /\ sequence = NoRef
    /\ refs = [s \in Stories |-> NoRef]
    /\ drawn = [s \in Stories |-> NoRef]

Rows == {s \in Stories : refs[s] # NoRef}

\* Project.save: CREATE SEQUENCE IF NOT EXISTS.
CreateSequence == sequence' = IF sequence = NoRef THEN 0 ELSE sequence

MutantLast == Cardinality(Rows)

\* What the next reference follows: a sequence that is missing is created.
Last == IF sequence = NoRef THEN 0 ELSE sequence

\* ProjectReferenceMixin.save draws a reference, then writes the row.
DrawReference(s) ==
    /\ refs[s] = NoRef /\ drawn[s] = NoRef
    /\ Last < MaxReference
    /\ sequence' = Last + 1
    /\ drawn' = [drawn EXCEPT ![s] = Last + 1]
    /\ UNCHANGED refs

InsertStory(s) ==
    /\ drawn[s] # NoRef
    /\ refs' = [refs EXCEPT ![s] = drawn[s]]
    /\ drawn' = [drawn EXCEPT ![s] = NoRef]
    /\ UNCHANGED sequence

\* bulk_create_stories: as many references as there are stories, in order.
NextValues(first, last) ==
    /\ sequence' = Last + (last + 1 - first)
    /\ UNCHANGED drawn

InsertStories(first, last) ==
    refs' = [s \in Stories |->
               IF s \in first..last THEN Last + (s + 1 - first) ELSE refs[s]]

\* delete_projects: the sequence is dropped, then the rows are deleted.
DropSequence ==
    /\ sequence' = NoRef
    /\ refs' = [s \in Stories |-> NoRef]
    /\ UNCHANGED drawn

-----------------------------------------------------------------------------

\* No two stories of a project have the same reference, not even those that are
\* created by requests and by an import at the same time, before or after
\* others were deleted or failed to be created.
ReferencesAreUnique == \A s, t \in Rows : s # t => refs[s] # refs[t]
=============================================================================
