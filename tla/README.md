# Tenzu back, verified

TLA+ modules of the Tenzu backend (`src/src`), TLC configurations that
model-check them on small instances, and theorems checked by TLAPS. Paths below
are relative to `src/src`; `PROJECT.json` gives, for every definition, the
lines it models.

1. [The system](#the-system)
2. [What is modelled, and how it corresponds to the code](#what-is-modelled)
3. [The runs](#the-runs)
4. [The proofs](#the-proofs)
5. [Where the code and its words disagree](#disagreements)
6. [What is only model-checked, and what is not modelled](#limits)
7. [Plan](#plan)

<a id="the-system"></a>
## The system

Tenzu is a project management server: workspaces hold projects, projects hold
workflows (kanban boards), workflows hold statuses (columns) and stories
(cards). It is an asynchronous Django application. A request loads the rows it
is about, checks the permissions of its author, calls a service, which validates
and writes through repositories, and publishes events. Two things make it hard:

* requests interleave at every `await` of a query. The database runs at READ
  COMMITTED, there is no transaction around a request (`ATOMIC_REQUESTS` is not
  set), some services are `@transaction_atomic_async`, and only the deletion of
  inner memberships takes a lock (`select_for_update`). Rows are often written
  whole, as loaded, by `save()`: an `UPDATE` of all columns, or an `INSERT` if
  the row is gone;
* rules that hold across several handlers are written in none of them: a project
  keeps an owner, a member of a project is a member of its workspace, a story is
  in a status of its own workflow, an edit that was taken is saved.

### Components

| component | state | operations | what is hard | modelled in |
|---|---|---|---|---|
| `memberships`, `projects/memberships`, `projects/invitations`, `workspaces/memberships`, `workspaces/invitations` | roles, memberships, invitations of a workspace or of a project | create, update, accept, deny, revoke, resend an invitation; update and delete a membership; create, update, delete a role | rules shared by many handlers; stale rows written back; two owners leaving at once | `Membership`, `MembershipRequests`, `Services`, `Endpoints`, `Pages` |
| `workspaces/workspaces`, `projects/projects` | the workspace, the project, its landing page | create (from a template), update, delete, overview, list | cascades; what is announced to whom | the same, and `Workflows` for the landing page |
| `users`, `auth`, `ninja_jwt` | accounts; tokens, their rows and denials | register, verify, reset, log in, refresh, update, delete, clean | invitations exist before accounts; a token works once; rows written as read | `Accounts` over `Tokens` (abstractly `Passes`); what they do to memberships in `Membership` |
| `stories/assignments` | who is assigned to which story | assign, unassign | the member may leave | `Membership`, `MembershipRequests` |
| `permissions` | none | what a role may hold, the checks of each request | evaluated before the service reads again | `Permissions`, `Endpoints` |
| `commons/ordering`, `base/repositories/neighbors` | none | offset and first position of a block; neighbors of an item | gaps that are too small | `Ordering`; what they promise in `OrderedLists` |
| `workflows`, `stories/stories` | workflows, statuses with an order, stories with workflow, status and order | create, rename, move, reorder, delete, migrate | deletions in several steps; stale status or workflow; ties | `Workflows`, `Boards`, `BoardRequests` |
| `base/occ` | a version per story | compare-and-set of protected attributes | writers that do not know of it | `StoryContent` |
| `comments`, `notifications` | comments of a story; the notifications of a person | create, edit, delete; tell, list, count, read, clean | edits of what is deleted; events out of order | `StoryContent` over `Notifications` |
| `attachments`, `commons/storage` | files and the rows that refer to them | upload, delete, clean | a file and its row change separately | `StoryContent` over `Storage` |
| `stories/tags` | tags and which story has them | create, update, delete, attach | the row that was loaded is saved | `StoryContent` over `Tags` |
| `events` (subscriptions) | websocket groups | sign in, subscribe, check, unsubscribe, publish | an access that is lost while it is used | `Subscriptions` |
| `events` (collaboration) | a shared document per story | join, update, save later or at once, leave | cancelled saves, stops of the server | `Collaboration` |
| `projects/references`, `base/db/sequences` | a database sequence per project | draw one or a batch, create on demand, drop | creation on demand, transactions that fail | `References` |
| `import_export` | the import row, a background job | start, run, fail, delete, invite former members | fails halfway; overlaps everything | `Importation` over `References` |
| `feeds` | news with a period | edit, publish a release, read | a form that is checked, then saved | `Feeds` |
| `base/sampledata` | none | generate databases | written row by row, next to the services | `SampleData` |
| `emails`, `tasksqueue`, `system`, `configurations` | none | rendering, configuration, static answers | | not modelled |

Components interact by calls inside a request (`projects` calls `memberships`,
`stories` calls `references`, accepting an invitation makes workspace members and
runs what an import kept for the person), by the foreign keys of the database
(cascades, restrictions), by events published after the commit on the channels of
a user, a workspace or a project, and by background jobs.

Under `hazards`, `PROJECT.json` lists every place where this code is hard to test,
with the properties that cover it or the reason why none does.

<a id="what-is-modelled"></a>
## What is modelled, and how it corresponds to the code

State is what the database holds, with what a request, a consumer or a job has
read and will use. Where a variable is kept only for a property it is called
*history* in its comment. One action is one handler, or one stretch of a handler
between two queries, with every write it makes, cascades included; a request that
answers an error changes nothing.

### Memberships

* **`Membership`**: `live` holds the workspace and the projects that exist;
  `member[x][u]` is the role of `u` in `x`; `invitation[x][u]` the row of their
  invitation (the table has one per place and address), `linked` once the `user`
  column is set, which is so only when the person has an active account;
  `assignees[p]` who is assigned to some story of `p`. Each action is a whole
  request. There is one workspace: no handler relates two of them, except
  `delete_user`, which treats each alike. A role is named by its slug. Two shapes
  are worth reading next to the code: `UpdateMembership` leaves the assignments
  alone ([disagreements](#disagreements)), and `VerifyUser` is not enabled when
  the invitation of the token was denied, because the error rolls the verification
  back.
* **`Services`** and **`Endpoints`** are the same requests as the code layers them:
  `Services` adds what each publishes (`published`: the channels) and mails
  (`mailed`: the invitations whose token is sent), `Endpoints` the permission
  checks. Every handler of `Endpoints` is proved to be a step of `Membership`.
* **`Pages`** is what the GET handlers answer: overview, lists, details, searches,
  and what is announced before a deletion.
* **`SampleData`** gives the databases that `load_sampledata` and `load_test_data`
  leave, with all the results their random choices allow; `Endpoints` goes on from
  them.
* **`MembershipRequests`** cuts the requests on one membership, invitation or
  assignment into `Load`, `Authorise`, `Validate` and `Write...`, and interleaves
  them. `request[r]` holds the row as loaded, the role of the author, the successor
  that was found; `gone` and `heirGone` say that a row was deleted meanwhile, so
  that its `save()` inserts. Unique constraints and foreign keys decide whether the
  database accepts that. `SerialSteps` says that a request that no other overlaps
  does what its handler does in `Membership`.

### Boards

* **`Ordering`** is `calculate_offset` and the loop that makes room, expressed by
  what it finds: the number `k` of items such that each of the first `k` had too
  little room and the next one has enough (`Fits`). **`OrderedLists`** is what that
  promises, without integers: a block goes together where it was asked to go, and
  nothing else moves.
* **`Workflows`**: `workflows` is the sequence of workflows in their order of
  creation; `status[s]` is its workflow and its order; `story[x]` its workflow,
  status and order. The integers are the code's.
* **`Boards`** is what clients see: the pages, the events of each request, who is
  told of a story. A client is taken to do what the events say (`After`), with the
  lists of `OrderedLists`, so that `FollowersSeeTheBoard` compares, for every
  request that may be made in any reachable state, the lists promised with those
  that the new integers show.
* **`BoardRequests`** cuts the requests of `Workflows` where they load a row, read
  what they decide on (`Read...`, which leaves `plan`) and write (`Write...`; three
  of them decide nothing and write at once). `bulk_update` changes the columns it
  names of the rows that are still there, `SaveStatus` (`asave()`) writes every
  column as loaded and inserts a status that is gone, and `Commit` rolls back what
  the foreign keys refuse. Rows may have equal orders here: `Neighbors` gives what
  the database may answer for the items next to an anchor. `given` keeps the
  identities that a request in progress may know: identifiers are UUIDs, and never
  come back. `alone` is chosen at the start: requests one at a time, for
  `SerialBoard`, or overlapping.

### Accounts

**`Tokens`** is the fork of the JWT library: issue, expiry, denial, rotation,
flush. **`Accounts`** is sign-up, verification, sign-in, reset, deletion and the
cleaning of accounts over it, cut at their queries, with requests that end
anywhere. Accounts are written as they were read. **`Passes`** is the abstract
specification: a token is usable from its issue until it is spent, and never again;
`SpentTokensStaySpent` is `Pass!Spec` under the mapping in `Accounts`.

### What a story holds

**`StoryContent`** puts together the text under its version, the comments, the
attachments (**`Storage`**) with the files and their cleaning, the
**`Notifications`** of comments with what clients were told of them (marking as read
is three steps: `MarkAsRead` updates, `SelectMarked` selects, `TellReading` publishes),
and the **`Tags`**, by requests cut at their queries. The parts have nothing in common but
the story; a behaviour is about one of them (`part`) and the deletion of the story.

### Events

**`Subscriptions`**: a consumer handles the messages of its socket in turn, but
checks a permission and subscribes in two steps; requests that end an access
publish an event afterwards, which may be lost. **`Collaboration`**: one consumer
per browser, each with its document (a set of edits), its timer and its writes. An
update cancels the sleep before a save and begins another (`ScheduleSave`; `again`
tells a sleep from the one it replaced); writes may be cancelled, fail, outlive the
connection, or end with the server. The edits followed are some of those made: an
update that holds none of them schedules a save all the same.

### The rest

**`References`**: the sequence of a project, with transactions that fail.
**`Importation`**: the job, batch by batch, that may crash anywhere or be deleted
under way, and what invitations carry to those it names, until they are accepted or
deleted. The file has addresses as they were written (`Addresses`), invitations are made
in lower case (`People`): `Carried` finds what the row holds under the latter only. The
job that credits who accepted (`FindPendingObjects`, `SyncPendingObjects`) reads the
stories first and may find them gone when it writes. A story without a status is skipped
by the code and is not in `File`. **`Feeds`**: the news.

### Abstractions

Names, titles, colors, slugs, texts and dates are left out, and with them the
requests that change nothing else. One user has one address. The superuser, whom no
check refuses, is left out. A story of `Membership` is its project. Which part of an
event's content a client uses is in `Boards`, `Notifications` and `Tags`; elsewhere
an event is its channel.

<a id="the-runs"></a>
## The runs

| run | instance | distinct states | what it shows |
|---|---|---|---|
| `membership` | 2 people, a workspace, 1 project, 2 roles | 136,251 | every handler behind its checks, in every order, from nothing or from sample data: the safety of memberships, that pages agree with each other, and that every page that changes is told |
| `membership_assignees` | the same, two sets of permissions | violation | a role that loses `view_story` keeps its assignments |
| `requests` | 2 people, 2 requests | 637,242 | accepted invitations belong to members however requests interleave; the cut handlers implement the whole ones |
| `requests_owners` | the same, all operations | violation | two owners leave at once |
| `workflows` | 2 workflows, 3 statuses, 4 stories, orders -1..2 | 4,054 | no ties, stories in their workflow, pages that agree, events that say all |
| `board` | 2 workflows, 3 statuses, 2 stories, 2 requests | 690,101 | overlapping requests keep stories in their workflow; alone, they are those of `Workflows` |
| `accounts` | 2 accounts, 1 address, 3 tokens, 2 requests, time 0..2 | 882,270 | credentials for the verified only; spent tokens stay spent |
| `accounts_cleaning` | 1 request, 2 addresses | violation | one `NULL` stops the cleaning |
| `collaboration` | 2 browsers, 1 edit that is followed | 239,209 | no edit is forgotten; each is saved in the end, if the typing pauses and the write does not fail |
| `subscriptions` | 2 users, of whom 1 guest, 1 socket | 99,920 | a subscription to what is no longer visible is about to end, and ends |
| `content` | 2 requests, 2 people, 1 comment, 2 files, 2 tags; then 2 news | 179,472 | texts, comments, notifications, files, tags, news |
| `importation` | 1 person, 2 ways to write their address, 2 stories in the file, 3 in all, 2 requests | 849,552 | unique references; imports that end and are complete; people get what was theirs |

**Bounds.** Two people are enough for every invariant of `Membership`: each relates
one person to one place, or speaks of *another* owner. One project is enough for
what workspace requests do to projects, which they treat independently. Two requests,
because each hazard is a pair, one that reads and one that writes in between; the
requests of an address or of a token are serialised by it. The proofs cover every
number of all of them. In particular:

* `membership`: an update of a role keeps the set of permissions it has; real
  changes are in `membership_assignees` and in the proofs. `published` and `mailed`
  only describe the last step, hence `VIEW vars`, which the action properties
  respect: they speak of a step and of the rows before it;
* `requests`: `update_member`, `assign` and `resend` only run alone (`SoloOps`),
  which keeps the run within minutes; the theorems have every overlap;
* `workflows`: `DefaultOrderOffset` is 2 (100 in the code), so that gaps are
  exhausted by one insertion, and four stories let two of them be moved along.
  `StatusOrders` and `StoryOrders` bound the integers; a request whose orders leave
  them is not taken, but `FollowersSeeTheBoard` quantifies over all requests, those
  beyond the bounds included. The template has one status, which the code's
  template having several does not change: they are inserted with distinct orders;
* `board`: one at a time, the whole instance; overlapping, one story and two
  statuses at most (`MaxOverlapStories`, `MaxOverlapStatuses`) and no
  `change_workflow` (which breaks the property) nor `reorder_statuses`. Two
  workflows cannot show two deletions with different targets, see
  [disagreements](#disagreements);
* `accounts`: three tokens let a verification, a refresh token and its successor, or
  two refresh tokens and a reset meet; `MaxTime` 2 with lifetimes 1 and 2 lets one
  expire before another;
* `collaboration`: two consumers, of which one or both may have the edit that is
  followed, while any number of other updates come. The properties are about one edit
  at a time;
* `content`: one part at a time, since they share nothing but the story, whose
  deletion is in each; the news begin when the story is over (`MCSpec`);
* `importation`: batches of one, so that two stories are two batches; a third
  story may be created by hand; `MaxReference` bounds the creations by hand. The file
  (`MCFiles`) names the person in lower case, or not, or has no kanban, or nobody.

**Symmetry.** Users, accounts, tokens, requests, workflows, statuses, stories are
model values that no definition orders. `Sorted` orders items by integers and
its `CHOOSE` has one choice as long as there are no ties (`NoTies`, which `workflows`
checks and is proved); in `board`, overlapping, there is one story and statuses are
not reordered, and one at a time there are no ties. No run with a liveness property
uses symmetry.

**Deadlock** is checked except where the system may stop: nobody left in the project
(`requests`), every edit made and every browser gone (`collaboration`), every story
made or the project deleted (`importation`), nothing left to do (`content`,
`subscriptions`).

**Fairness.** A modelled request is performed because someone sends it, and nothing
obliges a person to: there is no fairness in the modules of memberships, boards and
accounts, nor for the sending of any request. What is fair is what the server does by
itself:

* `Collaboration`: the callbacks, timers and threads of a consumer (`ScheduleSave`,
  `BeginSave`, `EndSave`, `EndLateSave`, `EndForce`), weakly: `asyncio` and its
  executor run what is ready. Each sleep is fair for itself (`BeginSave(c, again)`): it
  ends unless it is cancelled, and updates that keep coming cancel each in turn, so that
  the save may never begin. `SavedInTheEnd` excepts just that;
* `Subscriptions`: what waits for a commit is published and a query ends (weakly);
  the messages of a socket are handled in turn, so that an event is forwarded and a
  check that was asked begins although other messages keep the consumer busy again
  and again (strongly). That the client asks at each event is the one assumption
  made on the web client, which is not in this repository;
* `StoryContent`: a request that began goes on (`Advance`), time passes for what is
  marked (`Expire`) and the periodic task deletes the files;
* `Importation`: the job goes on (`TaskStep`; it may also fail at each step) and the
  jobs it leaves are run, each to its end or its failure (`SyncStep`).

**Mutants.** `PROJECT.json` gives for each property of a passing run a change of the
code that breaks it: an only owner who counts themselves among the others; an
invitation whose account is not attached; a workspace deleted with its projects; an
event that those who leave do not get; an order or a reference that is counted
instead of read; room made for the block and not for what it pushes; foreign keys
that are not checked; a denial that is forgotten before its token expires; a save
that is not scheduled again; a version that is not compared; files marked with a
story that are attached to none; a marking that finds only
what is still unread; a job that fails
and goes on; an invitation that takes nothing along.

<a id="the-proofs"></a>
## The proofs

`tlapm` checks eight proof modules from nothing. Every theorem is for any constants
that satisfy the named assumptions of the modules, which TLC evaluates in the runs:
what is absent is no row (`NothingAssumption`, `RowsAssumption`, ...), the owner and
the default role exist and templates use known roles (`ConstantsAssumption`), a
positive default offset (`OffsetAssumption`), finite sets where something is counted.
Nothing is assumed of how many users, projects, requests, stories or tokens there are.

| module | theorems | stated by a run |
|---|---|---|
| `MembershipProofs` | the types, the six invariants of `Membership` and its two action properties; with requests that overlap, the types and `AcceptedInviteesAreMembers`; alone, a request that was cut is its handler; the handlers of `Endpoints` implement `Membership`, pages agree, what changes is told | `membership`, `requests` |
| `WorkflowsProofs` | the positions of `Ordering`; types, no ties, stories in their workflow; the last one with requests that overlap too; alone, a request that was cut is its handler | `workflows`, `board` |
| `BoardsProofs` | clients that follow the events see the board; the pages of a board fit together | `workflows` |
| `AccountsProofs` | types; only verified accounts have credentials; verifications are carried out; the tokens implement `Passes` | `accounts` |
| `CollaborationProofs` | types; no edit is forgotten | `collaboration` |
| `SubscriptionsProofs` | types; stale subscriptions are known | `subscriptions` |
| `StoryContentProofs` | types; files, texts, comments, notifications, tags, news; nobody is forgotten | `content` |
| `ImportationProofs` | types; references are unique; finished imports are complete; nothing is lost; unfinished imports have jobs | `importation` |

The arguments, and why the inductive invariants are what they are:

**Memberships, one request at a time.** The invariants are not inductive one by one;
`IInv` is their conjunction with the types and with `WorkspaceRolesAreFixed` (no request
changes the roles of a workspace). Deleting an account deletes the workspace it is alone
in, with its projects: that everything still has an owner holds only because nobody else
was in those projects. Deleting an account deletes the invitations that are *linked*: an
accepted one is, because the account is active. `NothingIsOrphaned` and
`RolesInUseExist` are parts of it that no theorem states: the foreign keys (`CASCADE`,
`RESTRICT`) see to them, and the other parts need them, since joining a project gives
the default role of the workspace, which has to exist. Each handler is first reduced to
what it does to one person in one place (the `Effect` lemmas), so that each invariant is
one case distinction.

**Memberships, overlapping.** Of the operations that overlap, none takes anyone out of
the workspace: what a request knows *for certain* (`KnowsForCertain`) is that its
person, and the heir it found, are in the workspace, and `OverlapIInv` needs no more
for accepted invitations to belong to members although rows come back and disappear
under the request. That members of projects stay in the workspace is a part of it, and
not a result: a departure from the workspace that overlaps an acceptance, which could
break it, is not among these operations.
`SerialSteps` needs the contrary: that what a request which had no company has read is
what there is (`Undisturbed`), so that its write is the handler.

**Pages and events.** The handlers implement `Membership`, hence its invariant, from
which the pages agree: a project that is shown as joined is in a workspace that is
shown. `EventsFollowChanges` is by handler, comparing what the `Effect` lemmas say
that changed with the channels published.

**Boards, one request at a time.** `IInv` says that rows refer to rows, that lists have
no ties and that stories are in place. Its step lemmas are about lists sorted by
integers: `BlockFitsInGap` (an offset that is not 0 leaves the block strictly between
its neighbors), `RoomIsMade` (once `k` items move along such that `Fits`, positions
are increasing up to the next item that stays) and `FitsExists` (such a `k` exists:
the loop ends), which together give that the new orders are distinct.

**What clients see of boards.** `FollowersAlwaysSeeTheBoard` compares two ways to make a
list: move a block in the list shown, or write new orders and sort again. Both are
lists that increase with the new orders, and of those there is one (`SortedUnique`):
taking items out keeps a list increasing (`WithoutSorted`), and so does putting a block
at an end or next to an anchor (`AppendedSorted`, `BesideSorted`) when the new orders
put the items in the same places. That they do is `RepositionedOrder`, from the same
`RepositionedPlan` as the absence of ties: items that stay keep their order, those that
are moved along keep their turn, and the block is between the anchor and the others
(`GoesFirst`). `IInv` gives the rest: the cards a client shows are those of the statuses
(`CardsAreShown`), a status has cards as long as it exists, and no order is shared. The
recursive functions of the model are unfolded for one or two events, which is all that a
request publishes.

`BoardPagesAlwaysFit` adds the one fact `LandingExists` to `IInv`. For the walk from story
to story, `ComesBefore` is a strict total order on the stories of a workflow, because
orders are distinct among statuses and within a status (`OneComesBefore`); the row of a
story counts those before it, so rows increase with it (`RowsIncrease`), and from spot to
spot down the columns the cards come in the same order (`SpotsInOrder`).

**Boards, overlapping.** Stories, statuses and what requests have decided refer to
each other, and each may be written in any order. The invariant `BoardIInv` is the
existence of an assignment `home` of one workflow to each status, past and future,
such that what is in a status is of its workflow, and what a request is about to put in
one will be, unless the foreign keys refuse it. A step changes `home` in one place: a
new status gets the workflow that creates it, a migration sends what was at home in
the old workflow to the new one. The theorem assumes `[]Uncontested`: a request that
moves a story to another workflow overlaps nothing, and no two overlapping deletions
move the statuses of one workflow to two others. Without the first or the second the
property is false ([disagreements](#disagreements)); everything else may overlap.

**Boards, alone.** `SerialBoard` says that requests which overlap nothing, cut at their
queries, are those of `Workflows`. The invariant `AloneIInv` is that nothing is stale:
one request at most is in progress, the row it has loaded is the row there is
(`LoadedNow`), and what it has decided is what it would decide now (`DecidedNow`).
Since lists have no ties (`IInv`), an anchor has one pair of neighbors, so the several
placements that a request may read are one. Then each write is an action of
`Workflows`, or the foreign keys refuse it.

**Accounts.** `Records` (a denied token keeps a row that says when it expires, so that
only what is expired is forgotten) and `Informed` (what a request has read of tokens
and accounts and is still true, since tokens keep their claims and what was verified
stays so). The refinement of `Passes` is proved step by step.

**Collaboration.** A consumer's document minus what was saved once, or was in a last
write that failed, is covered by a save that is due, sleeping, or being written with it
(`Covers`); cancelling schedules another, and a save that failed while the client is
there is made again by the next update or the end of the connection. A consumer that
connects has nothing that was not saved before (`Steady`).

**Subscriptions.** Who signed in is subscribed to their own channel as long as the
socket is theirs (`OwnChannels`), and what ends an access is published there. The event
is forwarded by the consumer between two commands, never between the check of a
permission and the subscription that follows, so a subscription about to be made to
what is lost is known too (`JoinsAreKnown`).

**What a story holds.** One invariant per part, on its rows and on what the requests
that concern it hold: an attachment that is listed has a file that is kept, and so has
one that is about to be inserted; a version only grows, and equal versions mean equal
texts; what a person was told and what is stored agree, up to what is on its way and to
what was created between the two queries of a marking (`Agree`, `overtaken`).
`NobodyIsForgotten` is the safety in `CommentsAreNotified`: who a comment is for has
their notification and was told of it, or a request that has not ended is about to do
it. It needs that one request writes a comment, its notifications and its events
(`WritersInv`). For the news, a form only has to be good by itself: whether it overlaps
is asked again by the database (`FeedsInv`).

**Importation.** The project is created once and its sequence is never behind a
reference drawn; a finished import has a job that ended, so no late write undoes it.
That is so of an import of stories, which is closed when nothing can fail it any more.
One without kanban is closed inside the `try`: its job may go on after the success
(`rewriting`) and turn it into a failure, which loses nothing because there was nothing
to create (`Closed`, `NothingToCarry`).

`NothingIsLost` is the safety in `InviteesAreCredited`. Requests write back the whole
pending invites of the row they read, which may be old; `TheirsInv` says why that loses
nothing once the import is over: in a row that says so, the only people of whom
something is missing have an invitation, which carries it (`HoldsTheirs`,
`InvitationsCarryTheirs`), and what the job writes last is what it knows
(`LastSaveIsWhole`). The people in `lost` are left out, because for them it is false:
whoever was invited of a row read before the end, or had an invitation deleted with what
it carried, or whose job failed. `UnfinishedImportsHaveJobs` is the safety in
`ImportsEnd`. Neither is listed as a property of a run: TLC checks the liveness that
rests on them.

<a id="disagreements"></a>
## Where the code and its words disagree

Three are runs that TLC finds violated.

1. `AssigneesCanViewStories` (`projects/memberships/services.py:87`): the comment of
   line 92 says stories are unassigned when the new role cannot view them. The
   comparison reads the membership after `update_membership` changed it in place;
   `update_project_role` has the same comparison.
2. `HasOwner` (`projects/memberships/services.py:142`): two owners who leave at once
   each see the other. One at a time, it is a theorem.
3. `CleaningIsComplete` (`users/repositories.py:456`): `NOT IN` a list where one
   outstanding token has no user is never true, and no account is cleaned.

Others are in the models without a run of their own, or were met while reading.

Boards:

* two requests delete the same workflow at once with different targets: the second
  moves the statuses it had read (by primary key, `workflows/services/__init__.py:468`)
  out of the first target, while stories move only from the workflow that is deleted
  (line 475): they end in a status of another workflow. A story that changes workflow
  while it changes status does too (`stories/stories/services/__init__.py:288`). The
  proof of the boards excludes exactly these two (`Uncontested`);
* `delete_workflow` moves the statuses that have stories (`workflows/services/__init__.py:232`);
  the docstring (line 207) says that all are moved;
* a story created in a status while it is deleted with a target is deleted with it
  (line 533); two workflows created at the limit exceed it (line 60);
* `list_stories_for_workflow` orders by `order` only, which stories of different
  statuses share (`stories/stories/services/__init__.py:105`): pages by offset may
  repeat or miss stories;
* the landing page set by the first workflow is not announced (line 70).

Memberships:

* a story can be assigned to someone who is leaving
  (`stories/assignments/services/__init__.py:38`; `Ops = {"delete_member", "assign"}`
  in `MembershipRequests` violates `AssigneesAreMembers`);
* the owner role may be given to who has an invitation already, by someone who is not
  owner (`memberships/services/__init__.py:236`, against the message of line 257);
* `workspaces/invitations/api/__init__.py:72` and `projects/invitations/api/__init__.py:76`
  say that of several roles for one address the first is considered;
  `create_invitations` lets the last win. The comment of
  `memberships/api/validators.py:66`, "duplicated items not allowed", is not enforced;
* the page of roles counts pending invitations only (`has_invitees`), while those of
  any status restrict the deletion of a role;
* the events of a succession are published before the rest of the handler, which may
  refuse and roll back (`workspaces/memberships/services.py:236`); invitations dropped
  with a workspace membership are not announced on the channel of their project;
* a workspace owner who takes a project over may have it both among their projects and
  among those they are invited to, which `sanity_check` of the sample data calls wrong;
* sample data: workflows of `test_data` have statuses with the same order
  (`_create_workflow_status`), `create_stories` inserts its accumulated list again for
  each workflow, and roles get empty sets of permissions, which the form of a role
  refuses.

Story content and news:

* `mark_notifications_as_read` updates the rows of a filter, then selects by the same
  filter (`notifications/repositories.py:117`), and the service tells that all of them
  are read: one that was created in between is shown as read and counted as unread
  until the list is loaded again (`overtaken` in `Notifications`);
* an update cancels the sleep before a save and begins another, with no maximum
  (`events/consumers.py:263`): nothing is saved while someone types without a pause. A
  save that raises is tried again by the next update or the end of the connection only
  (line 274), and by nothing if it is the last; `receive` lets the error of `save_now`
  out, which closes the connection;
* a late edit of a deleted comment puts its text back in the deleted row, which
  `list_story_comments` shows; the update of a deleted tag, or of a deleted item of
  the news, brings it back;
* the limit of tags is counted before one is inserted; the deletion of a story is not
  announced on its tags;
* a release cannot be published (the migration fails) while a later one is scheduled.

Import:

* `convert_to_tenzu_permissions` (`import_export/services/taiga.py:106`) makes one pass
  over the dependencies of permissions, and misses chains: `view_us` and `delete_us`
  give a role that may create and delete stories and not modify them, which the form of
  a role (`permissions/validators/fields.py:72`) refuses. The comment of line 114
  speaks of "missing dependencies to ensure a healthy permissions set". A role whose
  permissions are null raises an error (`import_export/serializers/taiga.py:275`);
* an import whose job crashes stays ongoing (`import_export/services/taiga.py:298`);
* an import without kanban is closed inside the `try` (line 288): an error after its
  success, in the events or in the file that is written again, makes it a failure;
* an invitation that is made while the import runs carries what is known then, and
  stories may be assigned later to someone who has left since;
* invitations are made in lower case (`memberships/services/__init__.py:116`), the
  pending invites of an import have the addresses of the file
  (`import_export/services/taiga.py:387`), and line 214 looks the one up in the other:
  whom the file names with a capital letter is credited with nothing;
* a pending invitation that is deleted, because the person leaves the workspace
  (`workspaces/memberships/services.py:203`) or deletes their account, takes with it
  what it carried, and the next invitation carries nothing;
* `sync_pending_objects` selects the stories that still exist, "to prevent db failure"
  (the comment of `import_export/repositories.py:155`), and inserts the assignments
  afterwards: a story deleted in between still fails the job, which is not tried again.

<a id="limits"></a>
## What is only model-checked, and what is not modelled

Model-checked only:

* liveness (`SavedInTheEnd`, `StaleSubscriptionsEnd`, `MarkedFilesGo`,
  `CommentsAreNotified`, `ImportsEnd`, `InviteesAreCredited`), which rests on fairness
  and on `ENABLED`, beyond the prover.

Every invariant and every action property that a passing run checks is a theorem, and
so is the safety that the last three of these rest on.

Some hazards are in a model and in no property that would catch them, because the code
says nothing of what should be, or does something else: the notes of `hazards` say which.
Foreign keys are taken as the database enforces them, so that what only restates them
(rows that refer to rows, roles in use) is no property of a run.

Not modelled: mails and their rendering, the configuration of the task queue, settings
and static answers; how a Taiga file is read and rewritten; LDAP and the exchange with
a provider of identity (a sign-up that waits for the terms begins when it goes on);
sliding tokens and the encoding of tokens; the counters of repeated invitations and
the public details behind an invitation token; the colors, names and texts of
everything. Interleaved memberships leave out roles and the creation of invitations;
`Membership` has them one at a time. So are departures from the workspace: the membership
that an acceptance gives in a project while the person leaves its workspace is not in
the models, nor what is left of the deletion of a role that the database refuses after
the members were moved.

External, modelled from how the code uses them: the web client (it follows events, and
checks its subscriptions when told), `pycrdt` (documents merge), the channel layer
(events may be lost), the database (READ COMMITTED, constraints at the end of a
transaction).

<a id="plan"></a>
## Plan

Everything planned is modelled, and every safety property is proved. The liveness
properties would need a prover that handles fairness and `ENABLED`.
