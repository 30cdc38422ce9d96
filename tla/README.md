# Torb in TLA+

Torb is a Go API server for open projects: people register, create projects,
ask to join, work on tasks and are told of it over a WebSocket. It keeps rows in
PostgreSQL (GORM, default isolation READ COMMITTED), refresh tokens and sign-in
state in Redis, avatars in S3, and sends mail through Resend. Every HTTP request
and every WebSocket connection is a goroutine; there is one hub goroutine.

This directory holds models of its state-changing parts and of the pages that are
put together from several statements, the TLC runs over them and machine-checked
proofs about all of them. Source paths below are relative to the repository.

- [Inventory](#inventory) - the system's parts, what is hard about each
- [Modules](#modules) - which module models what, and how
- [Runs](#runs) - what TLC checks, with which bounds and fairness
- [What the runs show of the code](#what-the-runs-show-of-the-code)
- [Proofs](#proofs) - what is proved, from what, along which argument
- [Not modelled](#not-modelled)
- [Plan](#plan)

## Inventory

| Component | State | Operations that change it | What is hard |
| --- | --- | --- | --- |
| projects (`core/projects`) | `projects` | Create (transaction with the Owner row), Update | project without an owner; pages and lists made of several statements |
| join requests (`core/requests`) | `join_requests` | Create, Respond | status read before the transaction; acceptance and membership together; row locks |
| members (`core/members`, `core/utilities.go`) | `project_members` | Create (only inside the two transactions) | a second role for one user |
| tasks, assignees, comments (`core/tasks`, `core/assignees`, `core/comments`) | `tasks`, `assignees`, `comments` | Create, field-wise Update, Add/RemoveAssignee, Create comment | whole rows saved from old copies; no transactions; half-done updates |
| notifications (`notifications`) | `notifications` | one row per receiver of an event, MarkAsRead | fan-out that fails half-way; receivers read after the fact; whole row saved |
| API handlers (`api/`) | - | call a service, then the notification service, then the notifier | a failure between the steps |
| realtime (`realtime/notifier.go`, `api/websocket.go`) | hub list, per connection: user, flag, two timers, buffered channel | Register, Unregister, Notify, Authenticate, WritePump | three goroutines per connection, copies of shared fields, timers, full channels |
| refresh tokens (`auth/store.go`, `auth/token.go`, `api/auth.go`) | Redis hashes `token:<jti>` | Save, Revoke, expiry | check-then-set on Redis; ignored errors |
| manual accounts (`auth/manual`) | `manual_accounts`, `users` | CreateAccount, AddPassword, verification and reset tokens, Verify, Reset | whole rows saved from old copies; links used twice |
| Google sign-in (`auth/openid`) | Redis strings `state`, `verifier`, `token`; `oauth_accounts` | GetAuthCodeURL, Callback, Login; GetConnectURL, ConnectCallback | one `RedirectURL` shared by all requests; keys that expire; overlapping first sign-ins |
| users and documents (`core/users`, `core/documents`) | `users`, `documents`, S3 objects | Update, UploadAvatar | whole rows saved from old copies; three stores, no transaction |
| middlewares (`middlewares/`) | none | authenticate, map errors to responses | - |
| wiring (`cmd/`) | none | configuration, migration, routes | - |

Interaction: the handlers call services; services call repositories (SQL) or
stores (Redis). After a successful change a handler calls the notification
service, which stores rows and returns receivers, and hands these to the
notifier, an unbuffered channel read by the hub. The hub puts an event in the
channel of the first connection of the receiver; that connection's pump writes
it. No state is shared between components except through the database, Redis and
that channel, so each model below can take the others as inputs: a model's
`\E u \in Users` is the authenticated user the middleware lets through.

Correctness, per component: an acceptance *is* a membership and a project has
one owner (members); answers follow the status rule (requests); what is told has
happened (notifications); events are written while the client's flag is set, only to
their receiver, in order, and never block a caller (realtime); an exchanged or revoked token is dead
(refresh tokens); an account changes only through a current link (manual
accounts); users and Google accounts stay linked one to one and a callback answers with
the linked user (Google sign-in); fields
change only by calls that name them (tasks, profiles, projects); a page agrees with the
tables when it is shown (pages). The hazards
behind these are listed, with their lines, in `PROJECT.json`.

## Modules

**Admission** is the abstract promise of projects, join requests and members:
four atomic events (`CreateProject`, `Ask`, `Accept`, `Decide`) over three
tables. It knows no handlers, statements or failures.

**Membership** EXTENDS it with the handlers that implement it: `ProjectApi.Create`,
`AddJoinRequest` and `RespondToJoinRequest`, one action per SQL statement. The
tables hold committed rows only. The uncommitted writes of an open transaction
follow from its program counter (`handler[h].pc`), which is exact here because a
transaction writes one known row per statement; `RowLocked` is the lock an
UPDATE takes and holds to the end of its transaction. `Fail` is any statement
that fails at any point - cancelled request, lost connection, killed process -
and is both the rollback and the loss of a notification after the commit. A
request starts at the first read that can change what it does; checks before it
that refuse a call leave no trace and are its guard. The refinement mapping is
the identity on the tables: `ImplementsAdmission == Spec`.

**Pages** EXTENDS Admission with the routes that show projects: `ProjectApi.Get`,
the lists of members and of requests, the project count of the profile, and the four
lists of projects as operators (`MyProjects`, `PublicProjects`, `CreatedProjects`,
`JoinedProjects`). `page` is the one page being made: its `pc`, and what the
statements so far have returned. Between two of them any admission may be
committed. Pages write nothing, so one at a time shows whatever several would.

**Edits** EXTENDS it with the rows people edit outside the task board: profile,
project text, the read mark of a message, each read whole and saved whole in
another statement (`edit[h].copy`), and the avatar upload with its object (stored under
its content type, as the code does) and documents row. `row` has the columns of all three tables; `details` stands for
those that are edited alike. A profile's name is unique (`NameIsTaken` at the
save); the role for a project edit is asked for two statements before it.

**Delivery** is the abstract promise of realtime delivery: per connection a queue
that may lose events but never reorders, repeats or misdirects them, and a caller
that hands over one event at a time. It knows no goroutines, flags or timers.

**Notifier** is the hub, the read loop and the write pump. The hub's channels are
unbuffered, so a send and its receipt are one step. `pump = "select"` means that
the copy `snap` of `isAuthenticated` has been taken; every ready case of the
select is an action of its own. The store of `userID` takes no mutex and a Go string
is two words: `StoreID` may leave one of them behind for a while (`Torn`), and the
hub's comparison may then miss the client, match it, or follow a nil pointer
(`MayMiss`, `MayMatch`, `MayCrash`; `down` is the crashed server). A token sent
again stores the same two words and changes nothing. Timers follow Go 1.23 and
later: an expiry that was not received is dropped by Stop and Reset. `got` is what
was written to the connection; `acked` (number of the last event before an ack),
`lost` (events discarded although the flag was set) and `told` (asked for a token since
the flag was last cleared) are history. The refinement
mapping to Delivery takes the event the pump is about to write together with the
channel as `waiting`, and the number of calls as `last`.

**RefreshTokens** is `Login`, `Refresh` and `Logout` over Redis, one action per
command. `record` is the hash field, `ttl` whether the key expires, `expired`
that the JWT is refused. The JWT and the key expire independently (two clocks).
`HSetNX` has a second outcome in which the write took place and an error came
back, after which `Save` skips EXPIREAT and its caller goes on, as
`CreateRefreshToken` ignores the error. `parent` is history: who was exchanged
for whom.

**ManualAccount** is one user's password account. Accounts do not meet: queries
select by user id, unique email or random token. Updates hold the row they have
read (`handler[h].row`) and write it back whole, as GORM's `Save` does.
`Register` is one step because its transaction only inserts rows nobody else
can see before the commit. Links are the random tokens; `mailed` those a mailbox
has received, `spent` history.

**GoogleLogin** is sign-in with Google and the linking of a Google account. A flow
is named by the random `state` of its first request; its verifier, its
authorization code and the token a sign-in ends with are drawn once per flow and
named by it too. `redis` holds the live keys, `url` the redirect URI each flow was
sent to Google with, `consent` who agreed there. Google is external: `Consent`
refuses a URI it does not know, `Exchange` takes a code once and only with the URI
it was issued for, and reports one of the addresses `EmailsOf` of the person.
`redirect` is the shared `config.RedirectURL`, written without a lock: a Go string
is two words, so an assignment is two steps in either order, and what is read in
between is `Garbled`, a URI Google refuses. `Restart` empties it. Users are named
by their address, which is unique and never changes. `Login(st, u)` takes token and
user id as the client sends them: the token has to be live, the user has to exist, and
nothing relates the two (`api/google.go:104`). `sessions`, who agreed at Google and the
user the session is for, is history.
The transaction of a first sign-in only inserts and is one step.

**Linking** is the abstract promise of GoogleLogin: `Register`, `SignUp`, `Link` and
`SignIn`, each one step over users, accounts and sessions. It knows no browsers,
codes, Redis keys or overlapping requests. `SignIn` asks for a linked Google account
and an existing user, not that they belong together: for which user a session begins
is the client's word, so it promises nothing there. The refinement mapping is the identity on
its three variables.

**Server** EXTENDS Membership with an instance of Edits over the same tables: the
routes of `cmd/app/app.go` that change projects, requests and members, statement by
statement, beside those that show them and the edits. Pages and Edits are written
over Admission, in which an answer is one step; Server is where they meet the
handlers that take several.

**TaskBoard** is one project's tasks, assignees and comments, with the
notification fan-out: every statement a step, `copy` the row a field update
holds, `left` and `told` the receivers without and with a stored row. Comments
and notices are sets, that is, a second identical row is not told from the
first. Calls whose path names another project's task are left out.

The `MC*` modules add nothing but the symmetry sets and the functions and sets
the configurations need. Operators whose comment begins with "Fault:" are
plausible mistakes; no behaviour of a specification uses them. `PROJECT.json`
pairs each property with one that breaks it, which shows that the property can
tell the code from a near miss.

## Runs

| Run | Question | Bounds |
| --- | --- | --- |
| `membership` | Do rows and notifications stay consistent, does each commit refine Admission, and do calls that wait for row locks return, when handlers overlap and statements fail? | 2 users, 1 project, 2 handlers; the rows of `join_responded` remembered |
| `membership_status_race` | Does the status rule of Respond hold: violated | 2 users, 1 project, 2 handlers |
| `notifier` | Order, access window (writes only while the flag is set; who loses it is asked for a token), no blocked caller, no leaked goroutine, takeover by a later connection, and the refinement of Delivery | 2 connections, 2 users, channel of 2, 3 events, from two starting points |
| `notifier_skip` | Does an event after the ack reach the client: violated | 1 connection, 1 user, 2 events |
| `refresh_tokens` | Is an exchanged or dead token ever usable again? | 3 tokens, 2 handlers |
| `refresh_race` | Is a token exchanged once: violated | 3 tokens, 2 handlers |
| `manual_account` | What can overlapping calls lose? | 4 links, 2 passwords, 2 handlers |
| `reset_link_reuse` | Is a used reset link refused: violated | 2 links, 2 passwords, 1 handler |
| `google_login` | Does it all implement Linking, so that users and Google accounts are linked one to one for good? Do callbacks answer with the linked user, when is the shared config harmless? | 2 flows, 2 people, 2 addresses (one person may report either), 2 handlers |
| `google_redirect_race` | Is a fresh code exchanged: violated | the same |
| `pages_and_edits` | Do pages and lists agree with the tables when they are shown? Do overlapping edits change only what they may, and do read messages stay read? | 3 users, 1 project, 1 message, 2 values, 2 editors, 3 edits; pages and edits in turn |
| `task_board` | Do events have rows, are fields changed only by their calls or put back by a save from an old copy? | 2 users, 1 task, 2 values, 2 handlers, 3 calls |

**Bounds.** `Handlers` are slots that are reused without limit, so two of them
give every pairwise overlap with any history before it; the races here need two
calls. Two users are an owner and somebody else, or two people who ask. `Capacity` (10 in the code) is 2: an empty, a partly filled and a
full channel; `MaxEvents = 3` is one more than fits. Three tokens allow a login
and two exchanges of its token, or a chain of two. Four links are two verification
and two reset links. `MaxCalls = 3` gives a created task and two calls that
overlap on it. Two flows are two that disturb each other, or a sign-up and a
link of one person. The run `notifier` starts from two states of one instance: in `ComeAndGone` the
second connection has come and gone and all events are still to come; in
`ConnectsAgain` all events have been called while nobody was listed, and the user of
the first connection connects again. Together they are every behaviour of one
connection with three events and of two connections without any; the full product
is out of reach for liveness. `pages_and_edits` takes pages only before the
first edit (`NoEditYet`) and edits only while no request is pending and no page is
made (`NobodyWaits`): the two share nothing but who owns a project, which never
changes. Three users are an owner, a viewer and somebody who is admitted meanwhile;
three edits are two that overlap and one before. `Observed` names the notification types whose rows an instance
remembers and `Named`/`Updates` the users and field sets its calls mention; they
keep runs small whose question is another. Symmetry is used in safety runs only,
over handlers, users, projects, tokens, links, passwords, types and values, none of
which is named by a property.

**Fairness.** `FairMSpec`: weak fairness of each handler's statements (the Go
scheduler runs goroutines, the database answers) and strong fairness of the
statement that waits for a row lock (PostgreSQL queues waiters). `FairSpec` of
Notifier: weak fairness of the hub, the read loop once a message or a close is
there, and the pump; a Go `select` over ready cases picks at random, but a
connection's obligations need only that the pump makes *some* step. Nothing is
assumed of clients or timers: tokens, disconnects and expiries are free.

**Deadlock** is checked in the Membership and GoogleLogin runs: slots and calls of
the one never run out, and the server of the other may always be restarted. In the others it is off because instances do end: a connection slot is used
once, and tokens, links, calls and edits are used up.

**Liveness.** `EveryCallReturns`, `NotifyReturns`, `ReconnectTakesOver` and
`ConnectionsAreReleased` are only model-checked.

## What the runs show of the code

Five runs expect a violation; each is a disagreement between the code and what a
comment, doc or test says of it.

1. **Status rule under overlap** (`membership_status_race`). Both answers read
   Pending; one commits Accepted, the other Rejected after it. The request is
   Rejected, the member stays (`AcceptedIsMember` still holds, and no role is
   ever lost). Reading the status inside the transaction, with the row locked,
   would close it.
2. **An event after the ack is dropped** (`notifier_skip`). The pump enters its
   select before the token arrives; the first event after the ack is judged by
   the old copy of `isAuthenticated` and discarded.
3. **A used reset link works again** (`reset_link_reuse`). The column that
   `Reset` checks is never set.
4. **Two refreshes of one token both succeed** (`refresh_race`). HGET and HSET are
   two commands. `UsedIsRevoked` still holds: the exchanged token is dead
   afterwards.

5. **A sign-in is refused because somebody else began to link** (`google_redirect_race`).
   Both flows write their redirect URI into the one `oauth2.Config`, and `Exchange`
   reads it a visit to Google later. `OneFlowIsUndisturbed` says when it does no
   harm: while all visitors use the same flow and the server is up.

Several passing properties say exactly how far a weakness of the code reaches:
whole rows are saved from copies that may be old, so `FieldsAreKept`, `EditsAreKept`,
`VerifiedStays` and `PasswordByCurrentLink` let a save put a field back to what *the call
that saves* had read, and nothing else: no other value, no other row, and not because
some other call is in flight. A lost update is therefore within what they allow; that
it has no other form is what they say. `MessagesStayRead` says what not even such a save
can undo.
`AccessWindow` is about the flag, not the timer: from the expiry until the pump picks
that case of its select, queued events are still written, which nothing in the code
rules out.
`MemberPageIsTrue` lets a count be too small by those who joined since it was taken.
`LosesAtMostOne` bounds what finding 2 can lose: one event per token.

Findings 1 and 4 and all lost updates have one cause, a read and a save that another
call comes between. That there is no other cause is proved (see
[Proofs](#proofs)): in a behaviour without such an overlap the status rule holds, a
token is exchanged once, and no update of an account, a task, a profile, a project or
a message is lost - whatever else overlaps, fails, expires or is retried.

One more disagreement has no run of its own: the avatar upload of README.md:23
never succeeds. `UserService.UploadAvatar` gives key and content type to
`StoreObject` in the wrong order (`core/users/service.go:153`), so all images of a
type share one object and nothing is ever stored under the key in the documents row,
and then looks for the user under the document's id (:167), which no user has. Edits
models this as it is, and `NoAvatarIsEverSetHolds` proves that
nobody ever has an avatar.

## Proofs

`AdmissionProofs` and `MembershipProofs` prove, for every set of users, projects
and handlers:

- `AdmissionTyping`, `AdmissionConsistent`: the abstract specification keeps its
  types and `Consistent`.
- `MembershipTyping`, `MembershipInvariant`: `MSpec => []MTypeOK`, `MSpec => []MInv`.
- `AcceptedIsMemberHolds`, `ExactlyOneOwnerHolds`, `OwnerIsNeverAcceptedHolds`,
  `NotificationsAreTrueHolds`, `RolesAreKeptHolds`: the safety properties of the
  run `membership`.
- `MembershipRefinesAdmission`: `MSpec => Spec`, the step simulation.

`NotifierProofs` proves, for every set of connections and users and every capacity
and number of events, `NotifierTyping` and every safety property of the run
`notifier` (`AccessWindowHolds`, `UnregisteredIsGoneHolds`,
`LosesAtMostOneHolds`, `InOrderToReceiverHolds`), and `NotifierRefinesDelivery`:
`Spec => ImplementsDelivery`. `EditsProofs` proves every property of the run
`pages_and_edits`, `MessagesStayReadHolds` among them, for pages and edits at any time - the slices of that run are
not needed there.

`RefreshTokensProofs`, `ManualAccountProofs`, `TaskBoardProofs` and `GoogleLoginProofs`
prove, for every set of tokens, links, passwords, users, tasks, flows, people and
handlers, the type invariant and *every* safety property of the runs
`refresh_tokens`, `manual_account`, `task_board` and `google_login`: `UsedIsRevokedHolds`, `NoExchangeOfDeadTokenHolds`;
`UnverifiedHasNoResetHolds`, `VerifiedStaysHolds`, `PasswordByCurrentLinkHolds`;
`EventHasRowHolds`, `FieldsAreKeptHolds`; `GoogleUserHasAccountHolds`,
`AnsweredAsLinkedHolds`, `OneFlowIsUndisturbedHolds`, and `GoogleLoginRefinesLinking`:
`Spec => ImplementsLinking`.

Beyond what the runs check there are three groups of theorems.

*What holds without overlap.* Each has the form `Spec /\ []NoOverlap => ...`: it speaks of
those behaviours of the same specification, with all its failures, in which no two
calls are between read and save of one row at once. The specification is not
changed, and a single handler, or callers who never meet, have such behaviours only.

| Theorem | Without two ... | ... it holds that |
| --- | --- | --- |
| `StatusRuleWithoutOverlap` | answers to one request | the rule that `membership_status_race` refutes |
| `MembersAreTheAcceptedWithoutOverlap` | answers to one request | members are exactly those whose request is accepted |
| `RotatedOnceWithoutOverlap` | refreshes of one token | the rule that `refresh_race` refutes; a logout may overlap |
| `OneLivePerSignInWithoutOverlap` | refreshes of one token | each sign-in has at most one live token |
| `NoUpdateIsLostWithoutOverlap` | saves of the account | each save changes the row as it is |
| `VerifiedForGoodWithoutOverlap` | saves of the account | a verified address stays verified, put back by nobody |
| `PasswordOnlyByCurrentLinkWithoutOverlap` | saves of the account | a password is replaced only through the link now stored |
| `NoFieldIsLostWithoutOverlap` | saves of one task | a field changes only by a call that sets it |
| `NoEditIsLostWithoutOverlap` | saves of one row | a field changes only by a call that sets it |

*What holds although calls overlap.* `CallsMoveOnHolds` and `NobodyWaitsInACircleHolds`
are the safety half of `EveryCallReturns`, for any number of handlers: each statement
of a call lowers its rank `Left`, and who waits for a row lock waits for one call,
which does not wait itself. `NoticesAreTrueHolds`: a notice of a task names somebody
who did what it says, and never tells people of their own doing. `LinkedOneToOne`:
no user has two Google accounts, nobody is linked by an address Google did not report
for them. `NamesAreDistinctHolds`, `NoAvatarIsEverSetHolds`,
`LinksAreKeptHolds`.

*Composition.* `ServerRunsMembershipAndEdits`: `ServerSpec => MSpec /\ E!EditsSpec`. A
step of a handler is a step of Admission for the pages and edits, by the step
simulation of `MembershipRefinesAdmission`; a page or an edit is a stutter for the
handlers. So every theorem on `MSpec` holds of the server, and every theorem on
`EditsSpec` under the assumptions of Edits: what a page shows is true also when the
answers it races with take several statements.

Assumptions: `NoUserAssumption`, `IdleAssumption`, `ObservedAssumption`,
`TokenAssumption`, `AccountAssumption`, `TaskAssumption`, `TaskIdleAssumption`,
`GoogleAssumption`, `NotifierAssumption`, `EditsAssumption`, `NothingAssumption`,
`UsersAreFinite` (members are counted) -
the sentinels are not values of the sets they complete, and the bounds of an
instance are subsets of what they bound. TLC evaluates them in every run.

The consistency of the tables is not inductive by itself: a commit takes effect
according to what its handler established statements earlier. `MInv` adds

- `Established`: what each program counter may rely on - the project id of an
  open creation is unused; a request that is being answered exists; behind the
  insert of a member there is no role yet; behind its commit there is one;
- `NoSharedWrites`: two open transactions never write the same request or
  project, which is where the row lock and the key come in. Without it the commit
  of one handler could falsify `Established` of another.

Every step is then one action at a time. `RolesAreKept` and the refinement
follow from `MInv` at the two commits; all other actions leave the tables alone
or are `Ask`.

The others go the same way, each with an invariant about what the calls in flight
hold:

- `RInv` (RefreshTokens): a token being made is fresh, belongs to one call and is
  unknown to clients (`Held`); only issued tokens are exchanged (`IssuedFirst`).
  So the one command that makes a record live, HSETNX, never meets an exchanged
  or a dead token.
- `AInv` (ManualAccount): every copy in flight satisfies what the row must satisfy
  (`Copies`), so saving an old copy whole cannot break it - which is why whole-row
  saves lose updates but not consistency; the row precedes every call that uses
  it (`RowFirst`).
- `TInv` (TaskBoard): receivers counted as told have their row (`Told`), and an
  update holds a real row and a real value (`Working`).
- `GInv` (GoogleLogin): a flow that is being begun belongs to one request and has no
  URL yet (`FreshFlows`); a callback is for somebody who agreed, and what it is
  about to answer is the linked user (`Agreed`); while only one kind of flow was
  begun, the words of the shared config are of that kind (`OneKind`). Since nothing
  is ever unlinked, what one request has found another cannot falsify. The refinement
  needs `ByReportedEmail` beside it: from the exchange to the insert a callback goes by
  an address Google reported for its subject. `SignUp`, `Link`, `Login` and `Register` are
  then steps of Linking and all others stutters.

- `NInv` (Notifier): `Hub` relates the list to who has registered and who is past
  Unregister, `Reading` the read loop to flag, timers and the connection, `Pumping`
  the pump to its copy of the flag (only the pump clears it, so a pump at its write
  sees it set), and `Streams` says that what was written, is held and is queued is
  in the order of the calls and older than the call being made. The refinement is
  then one step of Delivery for each of `CallNotify`, `HubNotify` (accept or drop),
  `PumpTake` (discard, or nothing), `PumpWrite` and a failed write, and a stutter for
  every other action.
- `EditsInv` (Edits, with `PagesInv` of Pages): `Grows` - every committed admission
  only adds projects, roles and acceptances - carries what a page or an edit has
  read over any step of others (`PagesOutliveAdmissions`); `PageIsFounded` says what
  the first statement of a page established, `EditIsAllowed` what the check of an
  edit did. Without them "the caller owns the project when the row is saved" is not
  inductive.

The theorems without overlap add to these what the hypothesis buys at each step:
`AnswerIsStillAllowed` (the status is the one the checks were made with),
`ExchangedByOne` (what a refresh has in hand was not exchanged yet), `~Stale` or
`~OldCopy` (every copy in flight is the row). `OneLivePerSignIn` rests on
`SignInsAreChains`: the tokens of a sign-in form a chain, of which only the last may
be live. `NoticesAreTrue` rests on `CarriesTruth`, what a call carries from its write
to the rows that tell of it.

These invariants and properties were model-checked before they were proved, those of
GoogleLogin and Server on the instances of `google_login` and of two users, one
project, two handlers and an editor; the runs above do not repeat them.

What is proved is safety under any interleaving; that two refreshes can
share a token, or that a used link is taken again, is what TLC's counterexamples
show.

Out of the prover's reach, and left to TLC: liveness, that is, `EveryCallReturns`, `NotifyReturns`, `ReconnectTakesOver` and `ConnectionsAreReleased`.

## Not modelled

- A promise about who a Google session is for. The model takes the user id of the login
  request from the client, as the code does, so there is nothing to check beyond what
  `AnsweredAsLinked` says of the callback before it.
- The object behind a documents row, beyond the key it is stored under: no property
  relates the two, since in the code the row's key never has an object.
- When an access window ends, as against when the pump sees that it has: timers have no
  durations.
- Reads of tasks, comments and messages, the task counts and login method of a
  profile: one statement each, or numbers no other state depends on. The order and the
  limit of ten of the dashboard lists.
- Calls that name a task of another project than the one of their path.
- Who may be assigned: AddAssignee asks for nothing, so any user is taken
  (`CheckAddition`).
- Responses and their codes, logging, validation of texts, bcrypt, signatures.
- The duration of the closing handshake, which the hub performs itself: a close is
  one step.
- Middlewares (stateless), configuration and migrations (start-up), the fixtures of
  the tests. Of the routes, Server has those of Membership, Pages and Edits.

## Plan

Done: Admission, Membership, Notifier, RefreshTokens, ManualAccount, TaskBoard,
GoogleLogin, Delivery, Pages, Edits, Linking, Server; the proofs of all of them.

Next:

1. The composition of Delivery with the fan-out of TaskBoard, so that an event with a
   row is followed to the client, and its proof from `NotifierRefinesDelivery`.
2. An abstract specification of RefreshTokens (one live token per sign-in, exchanged
   or revoked for good) that it implements while refreshes of a token do not overlap.
3. TaskBoard: whether a removed assignee is told (`notifications/service.go:313`)
   and whether assignees are members (`core/assignees/service.go:34`).
4. The closing handshake of the hub as a step with a duration, under which
   `NotifyReturns` needs the handshake's timeout.
