-------------------------------- MODULE Tags --------------------------------
(***************************************************************************)
(* The tags of the stories of a project (stories/tags), by requests that   *)
(* overlap. A request is cut at its queries and before what it publishes,  *)
(* since others may run in between. Clients show of a tag what the last    *)
(* event on it said. A tag's colour is left out: nothing depends on it.    *)
(***************************************************************************)
EXTENDS Integers, FiniteSets

CONSTANTS
    Requests,  \* at work at the same time
    Tags,      \* ids: no id is used twice
    Labels,    \* in lower case: they are unique that way
    Stories,   \* of the project
    MaxTags,   \* settings.MAX_STORY_TAGS_PER_PROJECT
    Nothing

VARIABLES
    label,    \* of each tag, or Nothing
    tagged,   \* the rows of the assignments: pairs of a story and a tag
    shown,    \* what clients were last told of each tag, or Nothing
    tagging   \* the requests

tags == <<label, tagged, shown, tagging>>

Entry == [there : BOOLEAN, count : 0..Cardinality(Stories)]

Absent == [there |-> FALSE, count |-> 0]

ASSUME TagsAssumption ==
    /\ MaxTags \in Nat
    /\ IsFiniteSet(Stories)
    /\ Nothing \notin Labels /\ Nothing \notin Entry

\* told: what is about to be published; row: whether the assignment loaded is still
\* there; sure: history, whether what was shown was right when the request began and
\* it met no other on its tag, nor the deletion of a story that has it.
Tagging ==
    [at : {"create", "update", "delete", "assign", "count", "unassign", "refresh", "publish"},
     tag : Tags, story : Stories \cup {Nothing}, told : Entry, row : BOOLEAN, sure : BOOLEAN]

ASSUME TaggingAssumption == Nothing \notin Tagging

TagsTypeOK ==
    /\ label \in [Tags -> Labels \cup {Nothing}]
    /\ tagged \subseteq Stories \X {t \in Tags : label[t] # Nothing}
    /\ shown \in [Tags -> Entry \cup {Nothing}]
    /\ tagging \in [Requests -> Tagging \cup {Nothing}]

TagsInit ==
    /\ label = [t \in Tags |-> Nothing]
    /\ tagged = {}
    /\ shown = [t \in Tags |-> Nothing]
    /\ tagging = [r \in Requests |-> Nothing]

ProjectTags == {t \in Tags : label[t] # Nothing}

StoriesCount(t) == Cardinality({s \in Stories : <<s, t>> \in tagged})

\* list_story_tags: what a client that loads the page is given of a tag.
ListStoryTags ==
    [t \in Tags |-> [there |-> t \in ProjectTags, count |-> StoriesCount(t)]]

OnTag(t) == {r \in Requests : tagging[r] # Nothing /\ tagging[r].tag = t}

TaggingAt(r, at) == tagging[r] # Nothing /\ tagging[r].at = at

\* What clients show of the tag is right.
IsShownAsItIs(t) ==
    shown[t] = IF shown[t] = Nothing /\ label[t] = Nothing THEN Nothing ELSE ListStoryTags[t]

BeginTagging(r, at, t, s) ==
    /\ tagging[r] = Nothing
    /\ tagging' = [x \in Requests |->
         IF x = r
         THEN [at |-> at, tag |-> t, story |-> s, row |-> TRUE,
               told |-> IF at = "update" THEN ListStoryTags[t] ELSE Absent,
               sure |-> OnTag(t) = {} /\ IsShownAsItIs(t)]
         ELSE IF x \in OnTag(t) THEN [tagging[x] EXCEPT !.sure = FALSE] ELSE tagging[x]]
    /\ UNCHANGED <<label, tagged, shown>>

\* A request that ends with an error, or has nothing to publish.
Leave(r) ==
    /\ tagging' = [tagging EXCEPT ![r] = Nothing]
    /\ UNCHANGED shown

Continue(r, at, told) ==
    /\ tagging' = [tagging EXCEPT ![r] = [@ EXCEPT !.at = at, !.told = told]]
    /\ UNCHANGED shown

\* The requests that loaded one of the assignments that go.
Missing(gone) ==
    [x \in Requests |->
        IF TaggingAt(x, "unassign") /\ <<tagging[x].story, tagging[x].tag>> \in gone
        THEN [tagging[x] EXCEPT !.row = FALSE] ELSE tagging[x]]

-----------------------------------------------------------------------------
\* create_story_tag: the tags are counted first.
BeginCreateStoryTag(r, t) ==
    /\ shown[t] = Nothing /\ label[t] = Nothing /\ OnTag(t) = {}
    /\ Cardinality(ProjectTags) < MaxTags
    /\ BeginTagging(r, "create", t, Nothing)

\* The unique constraint, which the service turns into an error.
LabelIsTaken(t, l) == \E u \in Tags \ {t} : label[u] = l

CreateStoryTag(r, l) ==
    /\ TaggingAt(r, "create")
    /\ IF LabelIsTaken(tagging[r].tag, l)
       THEN Leave(r) /\ UNCHANGED label
       ELSE /\ label' = [label EXCEPT ![tagging[r].tag] = l]
            /\ Continue(r, "publish", [there |-> TRUE, count |-> 0])
    /\ UNCHANGED tagged

\* get_story_tag_or_404, with the count of its stories.
GetStoryTag(r, t, at) ==
    /\ t \in ProjectTags
    /\ BeginTagging(r, at, t, Nothing)

BeginUpdateStoryTag(r, t) == GetStoryTag(r, t, "update")

\* The whole of the row that was loaded is saved: one that was deleted in between
\* is there again.
SaveStoryTag(t, l) == label' = [label EXCEPT ![t] = l]

UpdateStoryTag(r, l) ==
    /\ TaggingAt(r, "update")
    /\ IF LabelIsTaken(tagging[r].tag, l)
       THEN Leave(r) /\ UNCHANGED label
       ELSE /\ SaveStoryTag(tagging[r].tag, l)
            /\ Continue(r, "publish", tagging[r].told)
    /\ UNCHANGED tagged

BeginDeleteStoryTag(r, t) == GetStoryTag(r, t, "delete")

\* delete_story_tag: its assignments go with it.
DeleteStoryTag(r) ==
    /\ TaggingAt(r, "delete")
    /\ LET t == tagging[r].tag
           gone == Stories \X {t}
       IN  IF t \in ProjectTags
           THEN /\ label' = [label EXCEPT ![t] = Nothing]
                /\ tagged' = tagged \ gone
                /\ tagging' = [Missing(gone) EXCEPT ![r] =
                     [@ EXCEPT !.at = "publish", !.told = Absent]]
                /\ UNCHANGED shown
           ELSE Leave(r) /\ UNCHANGED <<label, tagged>>

-----------------------------------------------------------------------------
BeginAssignTag(r, s, t) ==
    /\ t \in ProjectTags
    /\ BeginTagging(r, "assign", t, s)

MutantAssignTag(r, thereAreStories) ==
    /\ TaggingAt(r, "assign")
    /\ LET pair == <<tagging[r].story, tagging[r].tag>> IN
       IF pair \notin tagged /\ pair \in thereAreStories \X ProjectTags
       THEN tagged' = tagged \cup {pair} /\ Continue(r, "publish", ListStoryTags[tagging[r].tag])
       ELSE Leave(r) /\ UNCHANGED tagged
    /\ UNCHANGED label

\* create_story_tag_assignment: get_or_create. Both must still be there.
AssignTag(r, thereAreStories) ==
    /\ TaggingAt(r, "assign")
    /\ LET pair == <<tagging[r].story, tagging[r].tag>> IN
       IF pair \notin tagged /\ pair \in thereAreStories \X ProjectTags
       THEN tagged' = tagged \cup {pair} /\ Continue(r, "count", tagging[r].told)
       ELSE Leave(r) /\ UNCHANGED tagged
    /\ UNCHANGED label

\* add_or_update_stories_count, whether the tag is still there or not.
CountStories(r) ==
    /\ TaggingAt(r, "count")
    /\ Continue(r, "publish", [there |-> TRUE, count |-> StoriesCount(tagging[r].tag)])
    /\ UNCHANGED <<label, tagged>>

\* get_story_tag_assignment_or_404
BeginUnassignTag(r, s, t) ==
    /\ <<s, t>> \in tagged
    /\ BeginTagging(r, "unassign", t, s)

UnassignTag(r) ==
    /\ TaggingAt(r, "unassign")
    /\ LET gone == IF tagging[r].row THEN {<<tagging[r].story, tagging[r].tag>>} ELSE {} IN
       /\ tagged' = tagged \ gone
       /\ tagging' = [Missing(gone) EXCEPT ![r].at = "refresh"]
    /\ UNCHANGED <<label, shown>>

\* The tag is loaded again: an error if it was deleted.
RefreshTag(r) ==
    /\ TaggingAt(r, "refresh")
    /\ IF tagging[r].tag \in ProjectTags
       THEN Continue(r, "publish", ListStoryTags[tagging[r].tag])
       ELSE Leave(r)
    /\ UNCHANGED <<label, tagged>>

-----------------------------------------------------------------------------
\* The event on the channel of the project.
PublishTag(r) ==
    /\ TaggingAt(r, "publish")
    /\ shown' = [shown EXCEPT ![tagging[r].tag] = tagging[r].told]
    /\ tagging' = [tagging EXCEPT ![r] = Nothing]
    /\ UNCHANGED <<label, tagged>>

\* The deletion of a story takes its assignments; nothing is published of its tags.
UntagStory(s) ==
    LET gone == {pair \in tagged : pair[1] = s}
        hurt == {pair[2] : pair \in gone}
    IN  /\ tagged' = tagged \ gone
        /\ tagging' = [x \in Requests |->
             IF tagging[x] # Nothing /\ tagging[x].tag \in hurt
             THEN [Missing(gone)[x] EXCEPT !.sure = FALSE] ELSE tagging[x]]
        /\ UNCHANGED <<label, shown>>

\* What the requests on tags do, given the stories there are.
TagsStep(r, stories) ==
    \/ \E t \in Tags :
         \/ BeginCreateStoryTag(r, t)
         \/ BeginUpdateStoryTag(r, t) \/ BeginDeleteStoryTag(r, t)
         \/ \E s \in stories : BeginAssignTag(r, s, t) \/ BeginUnassignTag(r, s, t)
    \/ \E l \in Labels : CreateStoryTag(r, l) \/ UpdateStoryTag(r, l)
    \/ DeleteStoryTag(r)
    \/ AssignTag(r, stories) \/ CountStories(r)
    \/ UnassignTag(r) \/ RefreshTag(r)
    \/ PublishTag(r)

-----------------------------------------------------------------------------
\* Who follows the events sees the tags, and the number of their stories, as the
\* page lists them: a request that met no other on its tag leaves what is shown of
\* it right, if it was.
TagsAreShownAsTheyAre ==
    [][\A r \in Requests, t \in Tags :
         r \in OnTag(t) /\ tagging[r].sure /\ tagging'[r] = Nothing => IsShownAsItIs(t)']_tags
=============================================================================
