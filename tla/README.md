# Visions Academy: a verification project

Visions Academy is a Flutter application: students register, are bound to one
device, browse courses, subscribe or ask an administrator for manual approval,
watch videos, read news and chat with the support. The application is the Dart
code of `src/lib` (about 8,400 lines, most of it layout); everything it remembers
lives in Firebase (Auth, Firestore, Storage) and RevenueCat, whose iOS clients
are vendored under `src/ios/Pods`. This directory holds TLA+ models of its
core logic, the TLC configurations that check them and TLAPS proofs about them.

    tlc -workers 2 -config SessionTwoDevices.cfg MCSession    # a run
    tlapm SessionProofs.tla                                   # the proofs of a module

## The system

| Component | State | Operations | Interacts with |
|---|---|---|---|
| Splash screen (`splash_screen.dart`) | pending reads and 6 s timers of `navigateUser`, the button's listener | choose `/reg`, `/Botton` or `/log` | Auth (current user), Firestore (`users/{uid}.deviceID`), the router |
| Login, registration (`register_login/`, `data_for_log_register/auth.dart`, `database.dart`) | form, `loading`, `devID` | `signUpUser`, `createUser`, `loginUser`, `getUserData` | Auth, Firestore, splash screen (through `deviceID`) |
| Drawer (`SideBar/`, `BottomBar/`) | the widget shown, the chat switch | the tiles, Sign out | Auth, router |
| Course pages (`a_sciences/`, `an_engineering/`, `a_pharmcy/`, the moodle button of `home_page.dart`) | `purchaserInfo`, `offerings`, global `u_id` | `initPlatformState`, course taps, `checkmanual` | RevenueCat, Firestore (`ManualPayment/{uid}`), subscription page |
| Subscription page (`SubscriptionPage.dart`) | the handlers under way | `checkFirstTime`, `addnewUser`, update | Firestore, the administrator |
| Chat (`ChatScreen.dart`, `chatController.dart`) | the singleton's `ChatUser` | `onSend`, attachment | Firestore transactions, Storage |
| Videos, news (`firebase_provider.dart`, `organic1/`, `news.dart`) | lists filled by asynchronous reads | listeners, reads, `setState` | Firestore |
| Firestore client (`ios/Pods/FirebaseFirestore`) | mutation queue per user, document cache, write pipeline, watch targets, transactions under way | set, update, get, listen, acknowledge, reject, resend, restart | all of the above, Auth (tokens) |
| Auth client (`ios/Pods/FirebaseAuth`) | the current user in the keychain | sign up, sign in, sign out, `authStateChanges` | all of the above |
| RevenueCat client (`ios/Pods/Purchases`) | its user, in the user defaults | `setup`, `identify`, `getOfferings` | course pages |
| Shell (`main.dart`, `ios/Runner`, `android/`) | routes | start | |

Everything else is layout, dead code (`essays/`, `auth_for_stay_log.dart`), the
template's widget test, or third-party code. `PROJECT.json` lists every part with
its status.

What is hard in this code is asynchrony that nobody waits for. Handlers await
answers over pages that are gone; `loginUser` and `signOut` are not awaited at
all; listeners and timers are never cancelled; buttons are not disabled while
their handler runs; the Firestore client reads from a cache, keeps writes across
restarts and sends them again when an answer is lost; several devices share one
document; errors are caught and read as ordinary results. `PROJECT.json` lists
each of these hazards at its line, with the properties that are about it.

What makes a component correct, in one line each:

- *Session*: a home page that was reached by a login or a check of the device is
  shown for an account of this device; a displaced device is kept out; the
  binding is always what some waiting login or registration asked for; an account
  gets its profile from its own registration; every form and the splash screen end.
- *Course payment*: a confirmed request is on record; videos are only shown when
  paid or approved; the messages are true; requests for one course leave the
  others, and approvals, alone; an approval opens the course; every press is answered.
- *Accounts in turn*: a page that can be seen works for the user, RevenueCat and
  `u_id` for one account, and a press that no sign-out overtook for its own.
- *Chat*: a conversation lists its messages in the order of sending, under the
  account and the name that sent them, as far as the code can know them.
- *Pages*: the menu button is where it should be, and a page that is not left
  fills with what there is, unless one of its own answers came from the cache or
  was an error.
- *Firestore client*: writes are applied in order and settled once, also when they
  are sent again; transactions that commit are serial; a view told to be current is
  exact, unless the client lost track of its target; a stream is opened with the token of the user whose writes it sends.

## Modules

| Module | What it is |
|---|---|
| `DeviceBinding` | Abstract: what `users/{uid}.deviceID` promises |
| `Session` | Splash screen, forms, sign-out, Auth and Firestore clients as they meet them |
| `SessionProofs` | Proofs about `Session`, that it implements `DeviceBinding` among them |
| `CoursePayment` | Course pages, subscription page, Firestore client, administrator |
| `PaymentProofs` | Proofs about `CoursePayment` |
| `AccountSwitch` | The pages' shared globals while accounts take turns: composes sign-out, course pages, subscription page and RevenueCat's user |
| `SupportChat` | The chat: messages, attachments, the controller |
| `Frame` | The route and the globals that every page shares |
| `Navigation` | Side bar, bottom bar, news and video pages |
| `AccountProofs`, `CredentialProofs` | Proofs about `AccountSwitch`, `StreamCredentials` |
| `ChatProofs` | Proofs about `SupportChat`, and about `Navigation` |
| `DurableQueue` | Abstract: what the Firestore client promises of an account's writes |
| `WritePipeline` | Firestore's mutation queue, write pipeline and write stream; implements `DurableQueue` |
| `PipelineProofs` | Proofs about `WritePipeline`, that it implements `DurableQueue` among them |
| `StreamCredentials` | The token of a Firestore stream, over three queues |
| `TransactionRunner` | Firestore's transactions |
| `TransactionProofs` | Proofs about `TransactionRunner` |
| `WatchTargets` | Firestore's listens: watch stream, aggregator, local store |
| `WatchProofs` | Proofs about `WatchTargets` |
| `MC...` | Symmetry and definitions for TLC, where a run needs any |

Operators marked *Mutant* in a comment are plausible bugs, kept next to the
definition they would replace. Nothing uses them; replacing the definition's
body by one of them breaks a property, which is how each property is known to
depend on the code.

### Session

| State | Code |
|---|---|
| `accounts`, `doc[u]` | Firebase Auth's accounts; `users/{u}.deviceID`, `NoDoc` if there is no document |
| `auth[d]` | the user in the keychain of device `d` (`FIRAuth.m`) |
| `cache[d][u]`, `queue[d][u]`, `sent[d]` | the client's remote document cache, its mutation queue for `u`, and whether the server has applied the oldest write while the answer is under way (`"seen"`: a newer snapshot has already arrived) |
| `page[d]` | the route on top; `"closed"` when there is no process |
| `check[d]`, `mounted[d]`, `tapped[d]` | `navigateUser` (waiting for the event, for the read, or for one of the three timers), whether its context still navigates, and the button's listener |
| `form[d]` | the login or registration under way, by the call it waits for; `"stuck"` is the `Loading()` nothing ends |
| `out[d]` | `signOut()` has been called and has not completed |
| `unchecked`, `claimed` | history, read by properties only |

Every action is one event-loop turn: a handler up to its next `await`, or the
answer of a plugin. `Start`, `Kill` are the process; `AuthEvent`,
`FetchFromServer`/`FetchFromCache`, `TimerFires` are `navigateUser`; `Tap` and
`TapEvent` the button, which pushes the home page without comparing devices;
`Submit`, `AccountCreated`, `WriteProfile` a registration and `Submit`,
`SignedIn`, `LoginUser` a login, with `AccountRefused` and `SignInFails` their
error paths; `RefreshProfile` is `getUserData`; `SignOut` and `SignedOut` the tile
and the completion of the call it does not await. `Deliver`, `Acknowledge`,
`Reject` and `LoseAnswer` are the client's write stream.

What the model makes of surprising code:

- `loginUser` is called and not awaited, so the home page opens while the claim
  still waits, perhaps for days if the device is offline.
- `onSignedIn` is null, so the login handler ends in its own `catch`, which
  releases the form (`login.dart:365`).
- A registration that fails leaves `Loading()` for good (`registration.dart:38`),
  also when the account has been created and only the answer was lost.
- `devID` may still be null when the profile is written: the account is then
  bound to `NullId`, which matches no device, and the splash screen sends every
  device to the login page until a login repairs the field.

Abstractions: one in-flight write (the client pipelines up to ten; the server
applies them in order either way); the two routes that are being exchanged are
not used by a hand faster than the 300 ms transition; `signOut` completes before a
later sign-in on the same device does; the fields of the profile other than
`deviceID` decide nothing; the vendor identifier of a device does not change
(reinstalling all of a vendor's apps would), tokens are not revoked, the keychain does not
fail.

`DeviceBinding` is the promise. An account's field is changed only by an *open*
claim, a claim may take effect more than once while it is open, registrations
create the document and logins do not. `Session` implements it under
`bound <- doc` and `claims <- [u |-> the writes of u waiting on any device]`.

### CoursePayment

One account, its `ManualPayment/{uid}` document and the devices it is used on.

| State | Code |
|---|---|
| `entry[c]` | `Course.c` of the document: missing, `isPurchased` false, true |
| `seen`, `queue`, `sent` | the Firestore client, as in `Session`; a write remembers the press that awaits it, or `Gone` |
| `info[d]` | how far `initPlatformState` got: `u_id`, `purchaserInfo`, `offerings` |
| `active[d]` | `purchaserInfo.activeSubscriptions` |
| `view[d]` | the list of courses, a `checkmanual` under way, the videos, or the subscription page |
| `tap[d][k]` | a press of the button and the answer it awaits |
| `granted` | history: what the administrator ever approved |

`TapCourse` is the identical `onTap` of all 23 courses; which `checkmanual` it
meets depends on the page. The science pages (and the moodle button) read
`isPurchased` and ignore the due date, whose check is commented out; the
engineering page calls `isAfter` on a Firestore value, which always throws; the
pharmacy page has no check. `Purchased` is these three. `Press`, `First...`,
`Again...` are the button: a first read (`checkFirstTime`, an error counts as "no
document"), then `addnewUser` or a second read and, unless the entry says
`false`, an update. `Approve` is the administrator's program, which is not in this
repository: it turns requested entries into approved ones and deletes nothing.

A set with merge replaces the fields it names and makes the document exist; an
update needs it to exist, on the server and in the overlay of the local view. An
acknowledged merge over a document the client never received leaves a cached
document with the merged course only (`AfterAck`), which offline reads then take
for the whole: the model has these partial documents.

Abstractions: the account does not change while a request runs (`AccountSwitch`
is about what happens when it does); a course is tapped only
when no other tap is being checked; the offering named like a course exists and has
a three-month package whose product is named like the course; subscriptions do not change while a page is
open (`purchaserInfo` is read once).

### AccountSwitch

One process, and the accounts that sign in and out of it. `CoursePayment` keeps to
one account; here the documents are gone and what is left is who each piece of
state belongs to.

| State | Code |
|---|---|
| `user`, `leaving` | `currentUser`; a `signOut()` that was called and not awaited |
| `uid`, `rc` | `u_id` of `constants.dart`; RevenueCat's `appUserID`, which survives the process |
| `bar`, `content` | the bottom bar is shown; `currentWidget`, as the home page or one that sells nothing |
| `page[p]` | a page that sells courses, the home page included: its fields, and the call its `initPlatformState` awaits, also after it was left |
| `press[k]` | a press of the subscription page's button, with the e-mail its page was built with |

`Setup` is the stretch of `initPlatformState` without an `await`, `Identify` reads
`u_id` again after one, `InitFails` is its `catch`. `File` is the write, which
names the document by `u_id` as it is by then. `identify(null)` fails;
the home page's own subscription page gets no package and never builds.

### SupportChat

`Send` is `onSend` up to `runTransaction`, which takes the conversation, the
millisecond and the signer; `Commit` is the transaction, which may be applied and
run again when its answer is lost. `Attach`, `UploadEnds` and `LinkArrives` are the
attachment button: the account and the time are read after the upload. The
controller is `Get.put` once for the process. The second transaction of `onSend`
hands a collection reference to the plugin, whose codec refuses it, so it writes
nothing. Accounts change here at any time. Left out: quick replies and system
messages, whose list the next build replaces, and what the storage object holds.

### Navigation

`page`, `content`, `isChatOpen` (declared in `Frame`) and `open` are the route, `currentWidget`, the
global that hides the menu button, and the side bar's `status`. `Tile` is a tile
of the side bar; `HomeIcon` replaces the bar by a `CustomDrawer()` without
`closeDrawer`, whose tiles (`LoneTile`, `LoneSignOut`) change the globals they
set before they call it and then throw. A *visit* is one life of the state of the
news or of the video page. `Reply` is an answer to one of the two reads of a visit:
the server's documents, some of them or none from the cache, or an error, which
nothing catches and which ends both reads (`Answered`, `Failed`). `Snapshot` is a call
of the listener nobody cancels, with the server's version or an older one from the
cache, `Ends` its end with an error. No read is made again and nothing listens again.
A `setState` of a disposed state throws, which ends the reads of that visit. The list
of news is chosen once, with and without a malformed document. `missed` is a history
variable: the visits whose own answers were not all the server's.

### WritePipeline and DurableQueue

`queue[u]` is the mutation queue on disk, `pipeline` the part of the current user's
queue that was handed to the stream (`write_pipeline_`), `stream`, `shaken` and
`idle` the stream's state, handshake and idle timer, `toServer` and `toClient` what
is under way. `FillOpen` and `FillClosed` are `FillWritePipeline` with what it
starts; `MutationResult`, `CloseRefused` and `Break` are the three ends of a
request. `RestartNetwork` is a change of user, a reconnect or a restart of the
process, which all find the same disk. Whenever a stream ends, the server gets
some prefix of what was under way (`Abandon`). `DurableQueue` promises that a write
waits until it was applied or refused, that writes are settled in order, and that
none is applied ahead of older ones; `WritePipeline` implements it with
`waiting <- queue`. The stream token is left out: the server of the model neither
needs nor forgets one.

Two things are assumed of the transport. `CloseRefused` comes after every answer that
was sent before the refusal. `OnOperationFailed` (`grpc_stream.cc:312-323`) asks for
the status as soon as any operation fails, a write included; where a completed read
would be lost that way, the refusal would be charged to an older write, which was
applied. And what `Abandon` leaves of an old stream reaches the server when the
stream ends or never, not after a new stream opened; commits that were given up do
arrive late in `TransactionRunner`. `AnswersMatch`, `DurableSpec` and
`NewestStands` rest on these assumptions.

### StreamCredentials

Auth's work queue (`tokenWork`, `fetching`), the main queue (`main`) and
Firestore's worker queue (`worker`) run without waiting for each other. `HandOut`,
`Fetched` and `Answered` are a token on its way, with its re-request when
`token_counter` has moved; `ResumeStart` is `ResumeStartWithCredentials`, guarded by
`close_count_`. That the stream is opened with its owner's token needs either of
the two counters; that the token's label is right needs `token_counter`.

### TransactionRunner

Documents are versions. `Lookup`, `SetOrDelete`, `Update` and `Commit` are the
update function and the commit with their preconditions; `Committed`, `Refused` and
`Unavailable` the answers; `ArrivesLate` a commit that was given up and still
reaches the server. `HandleTransactionError` decides about another attempt. A lookup
is one step, since only the version it found is kept; the order of the `verify`
mutations does not matter.

### WatchTargets

`listen` is `listen_targets_`, `agg` the aggregator's target states, `resets` its
pending resets, `data` and `saved` the tokens in memory and on disk, `keys` the
remote keys on disk. `Documents` are the targets that are document queries, `Key`
the document of each: it matches its document or nothing, and `Filter` takes a count
of 0 for its removal and resets nothing (`remote_event.cc:218-234`), where another
target that was miscounted is reset (`Mismatch`). The delete that `CreateRemoteEvent`
synthesises for a current document query that was sent nothing of its document
(`remote_event.cc:258-272`) puts a deleted document into the cache and resolves limbo;
the document does not match in that case and the change of the target is empty
otherwise, so neither keys, tokens nor versions depend on it and `Changed` only says
so. `Receive` is `OnWatchStreamChange`, `Raised` the whole of
`RaiseWatchSnapshot`: the remote event, the local store and the targets asked for
again after a mismatch. The server is assumed to answer each request once and in
order, to bring all targets it serves up to now before a global snapshot, to send
CURRENT before an existence filter, and to give the token of a global snapshot to
all targets. It resumes a target by telling what was removed (`"removals"`), or
with a count only (`"filters"`), or it may reject a target (`"rejects"`).

`doubt` is a history variable that no step depends on. It says of each target
whether the client still knows what it has. A target is `"mismatch"` from the snapshot
that takes its documents away, and still writes a token, until a later token of it is
on disk. It is `"lost"`, and remains so, once it is listened to in between, or while a
mismatch waits for its snapshot, or when a rejection of an earlier listen erases the
answers it awaits. `SyncedIsExact` and `HonestToken` hold for every target that is not
lost, `Syncs` for every target that was not lost to a rejection: see *Known
divergences*.

## Runs

| Run | Instance | Question |
|---|---|---|
| `two_devices` | 2 devices, 1 account, 1 waiting write | types, `HomeSignedIn`, `HomeClaimed`, `SingleRegistration`, `OrphanStays`, `DisplacedStaysOut` and the refinement `BindingSpec` while the account moves between the devices |
| `two_users` | 1 device, 2 accounts, 2 waiting writes | `BindingSpec` where queues and caches of two accounts could mix; the liveness properties `SplashLeaves`, `FormSettles`, `ClaimsSettle` |
| `payment_courses` | 1 device, 1 science and 1 pharmacy course, 2 presses | types, `AppliedIsRecorded`, `ManualNeedsApproval`, `ApprovalLasts`, `AlreadyIsTrue`, `OthersKept`, `ApprovedOpens` with concurrent presses |
| `payment_liveness` | 1 device, 1 course, 3 presses | `PressSettles` |
| `payment_engineering` | 1 device, 1 engineering course | `ApprovedOpens`, violated |
| `account_switch` | 2 accounts, 2 pages, 1 press | `ShownIsOwn`, `SameUser`, `RequestIsOwn` |
| `chat` | 2 accounts, 4 sends, 3 milliseconds | `SentInOrder`, `StrayIsAttachment`, `OwnName` |
| `pages` | 2 accounts, 3 visits, 2 versions of the videos, news with and without a gap, answers of the server, of the cache, and errors | `MenuUnlessChat`, `PageFilled` |
| `credentials` | 2 accounts, 3 notifications | `RightCredentials`, `Asserted`, `StartSettles` |
| `pipeline` | 2 accounts, 4 writes, a pipeline of 2 | `Consistent`, `NewestStands`, the refinement `DurableSpec`, `WritesSettle` |
| `transactions` | 2 transactions, 2 documents, 2 attempts of 1 write, 1 commit given up | types, `OkIsApplied`, `Serial` |
| `watch` | 2 targets, one a document query, 1 document, 2 server states, 2 listens, 1 break or restart; where the server may reject, 1 target, 3 listens, 1 break, restart or rejection | `SyncedIsExact`, `HonestToken`, `Syncs` |

Bounds. `MaxPending` caps the writes that wait on a device (for a user, in
`Session`; together with the presses still reading, in `CoursePayment`); nothing
else is bounded there. Two devices are the least on which a
binding moves and a write arrives late; a third would only repeat the role of the
second. Two accounts are the least that can mix, two courses the least of which
one could suffer from the other, two waiting writes the least that have an order.
The payment runs use one device, because two with two presses are beyond TLC's
time; what other devices can do, a document that the device has only in
part included, is covered by the theorems below, which hold for any number.
The theorems remove these bounds for everything but liveness.

In the other models: two pages are the least of which one belongs to the account
before; four sends fit two messages and an attachment with its link into two
milliseconds and leave one; three visits let a listener and a read outlive their
page and meet another; a pipeline of two with three or four writes is full, empties
and is filled again, where `kMaxPendingWrites` is 10; three notifications overtake a
token that is asked for again; two attempts (5 in the code) are the least that
retry, and each of two documents can be read, written or both; one break or restart
meets each step of a listen once. `MaxCloses`, `MaxWrites`, `MaxAbandoned`,
`MaxVersion`, `MaxVisits`, `MaxVideos`, `MaxTime` and `MaxSends` stop counters
that the code does not bound. `Listened`, `MaxListens` and `MaxBreaks`
are given for each way the server resumes a target: two listens let a target be
listened to again, before its mismatch was repaired, too; three let it be listened to
while a rejection of the first is on its way, and again when that has come. That is a
matter of one target, and of one rejection. More is beyond TLC's time, and covered by
the theorems.

Symmetric are devices, accounts, presses, pages, transactions and documents in the
runs without liveness; the others use no symmetry. Deadlock is checked except in
the models of the Firestore client, which stop when their bounds are used up.

Fairness, in `two_users`, `payment_liveness`, `pages`, `credentials`, `pipeline` and
`watch`: a plugin call that was made is answered, with
a result or an error (weak fairness of the pair of answers), in `pages` by the server,
from the cache or with an error, and a listener that has not ended is told of the newest
version sooner or later; timers fire; route
transitions end; a write that waits is applied or refused; serial queues are
served. Strong fairness is assumed where a break of the connection can undo what was
enabled, again and again but not each time, which is what backoff and retry are for:
the acknowledgement of an applied write, and each step in the life of a write
stream. In `watch` weak fairness is enough, of the client (it opens the stream and
reads it) and of the server (it takes requests and serves), since breaks and rejections are bounded. Nothing is
assumed of the user, of the end of the process, of the administrator or of the
network's losses.

### Known divergences

`payment_engineering`: on the engineering page `checkmanual` calls
`dueDate.isAfter` on what Firestore returned, a `Timestamp` or null; neither has
that method. The exception ends in the `catch`, which answers "not purchased". So
an approval that the administrator granted, and that the check has read, leads
back to the subscription page, although its message was "please wait for admin
approval". The counterexample is: request, approve, tap the course.

The model also makes visible what no line of the repository promises otherwise:
a request under way resets an approval granted in the meantime, and pressing the
button for an approved course resets it as well (`isrequestAlready != 'false'`);
the splash button skips the device check; a late login write takes the binding
from a newer one. `ApprovalLasts`, `HomeClaimed` and `DeviceBinding` say exactly
how far the promise goes in spite of them.

The following are not runs of their own; each is a behaviour that the model has and
that its properties are worded to leave out.

- *A request under another account* (`SubscriptionPage.dart:74, 222`). The button
  reads, waits, and writes to `doc(u_id)` with `u_id` as it is by then and the e-mail
  of its page. A sign-out in between files the request of one account in a document
  with a generated name, or in the next account's. `RequestIsOwn` holds for
  presses that no sign-out overtook (`alone`); without that condition TLC violates it.
- *One object for all attachments* (`ChatScreen.dart:163`). Each attachment replaces
  `chat_images`, so the links of all messages lead to the last one, although the
  button is called "Add document".
- *A drawer that signs nobody out* (`bottom_bar_pages.dart:44`). The tile calls
  `closeDrawer`, which is null there, before `signOut`; its message says "You are
  Signed out" (`side_bar_bar_pages.dart:197`).
- *A second account under the first one's name* (`ChatScreen.dart:25`). The controller
  keeps the signer it was put with. `OwnName` speaks of a process that only one account
  has used.
- *Answers to pages that were left* (`videoUp2.dart:33`, `news.dart:27`) call
  `setState` without a look at `mounted`, which `login.dart:37-39` asks for.
- *Answers that are not repeated* (`news.dart:20, 31`, `firebase_provider.dart:20`). A
  read that fails leaves the page as it is, and so does one that is answered, without a
  connection, from a cache that has only some of the documents; a malformed document
  hides what follows it. `PageFilled` leaves out the visits to which the first two
  happened (`missed`) and asks for no more than the documents before the malformed one.
- *A token kept after a mismatch* (`remote_store.cc:329-348`). A wrong count
  removes the documents of the target and clears its token in `listen_targets_`
  "so that we get a full update"; the snapshot of the same event has put its token
  into the local store, in memory and, as documents were removed, on disk
  (`local_store.cc:286-297`). A target that is stopped, or whose process ends, before
  the full update resumes from there and misses documents.
- *A reset that outlives its listen* (`remote_event.cc:241, 306`). If a target is stopped
  and listened to again between a wrong count and the snapshot behind it, that snapshot
  has the new listen asked for again without a token, while the target, which awaits
  answers, keeps its documents on disk: what no longer matches is never removed.
- *A rejection that crosses a second listen* (`remote_store.cc:361`,
  `remote_event.h:207`) forgets the target's state while answers are still
  awaited; their count then goes below zero and the target never becomes current,
  or, after another listen, is believed while an answer is still on its way.

The last three are what makes a target lost in `WatchTargets`, and are in the run
`watch`: with `doubt[t] # "lost"` taken out of `SyncedIsExact` and `HonestToken`, and the
exception out of `Syncs`, TLC violates each of the three within the run's bounds. Only
the wrong belief after a rejection takes one more listen than the run has.

## Proofs

All theorems hold for every set of devices, accounts, courses, pages and presses and
every value of the bounds; they rest on the named assumptions about the constants
(`ConstantsAssumption`, `CoursesAssumption`, `AccountsAssumption`,
`CredentialsAssumption`, `PipelineAssumption`, `TransactionAssumption`,
`WatchAssumption`: the special values are not ordinary ones, bounds are natural
numbers, the three kinds of courses are disjoint, the pipeline has room for a write,
transactions, documents and targets are finitely many) and on nothing else.

*Session* (`SessionProofs`). `Inv == TypeOK /\ Control /\ Vouched` is inductive.
`HomeSignedIn` is not inductive: whether the timer may push the home page depends
on the credential having survived since the read. `Control` says that a mounted
splash screen excludes a form and a sign-out under way, so the credential a check
was made for is still there when its timer fires. `HomeClaimed` needs `Vouched`:
every place `getDevIdFromDatabase` can find the device's identifier in, the
server, the cache and the queue, implies a claim of this device, and no device
ever writes another one's identifier. From these: `TypeCorrect`, `HomeIsSignedIn`,
`HomeIsClaimed`.

*The binding* (`SessionProofs`). `Registrations` adds to
`SingleRegistration` that no document and no set exists before the account's own
registration queues it (`Fresh`). From it: `ProfileSetOnce`, `OrphansStay`,
`DisplacedIsOut`, and `Implements`: initial states map to initial states of
`DeviceBinding`, and every step to `Open`, `Settle`, `Close` or a stutter. The
interesting steps are an enqueue, an `Open` whose guard is `SingleRegistration`
and `Fresh`, and an acknowledgement, a `Close` unless an equal write still waits.

*Course payment* (`PaymentProofs`). `AppliedIsRecorded` speaks of presses but is
decided by queues, so the invariant ties the two: `Linked` says that a write that
somebody awaits is awaited by exactly one press, for the same course; `Backed`
that a write whose answer is under way is in the document, that what a device has
seen was there, and that approvals are the administrator's. `Control` and
`Checks` say which pages can be shown when. From these: `TypeCorrect`,
`ConfirmedIsKept`, `VideosAreEarned`, and the action
properties `OthersAreKept`, `AlreadyIsSo`, `ApprovalsLast`. `ApprovedDoesOpen`
proves `ApprovedOpens` for every instance without engineering courses, which
locates the finding above in that page's `checkmanual`.

*Accounts* (`AccountProofs`). `ShownIsOwn` needs to know how far a shown page's
`initPlatformState` got (`OwnPage`): from `Setup` on its `userId` and `u_id` are the
user's, before that its answers are empty. No page of an old account can spoil
this, because while a page is shown the bar is (`BarIsSomebodys`), so a late `Setup`
sets `u_id` to the same user. `OwnPress` carries it to the presses that no sign-out
overtook. From these: `ShownPagesAreOwn`, `OneUser`, `RequestsAreOwn`.

*Chat* (`ChatProofs`). The promises about messages are invariants of the transactions
already (`Written == txns \cup msgs`), which take conversation, millisecond and
signer together. In the order of sending, identifiers do not decrease, and one
identifier is one document: so of two messages in the wrong order one is gone.
`OwnName` needs that the signer does not change while an upload lasts
(`UploadOk`). From these: `InOrder`, `StraysAreAttachments`, `NamesAreOwn`.

*Navigation* (`ChatProofs`, which takes the module as an instance with the same
users and user). The two globals do come apart, but only in the drawer without
`closeDrawer`, from which there is no way back to the bar: `MenuIsThere`.

*Credentials* (`CredentialProofs`). The invariant is the same for both queues
(`Latest`): the latest change that waits in it has the user at its near end, and if
none waits, both ends agree. A token with the current `token_counter` and no
notification before it on the main queue is for the labelled user (`AheadOf`); one
with the current `close_count_` and no change before it on the worker queue is for the
user whose mutations are read (`ResumedOf`). `CloseOk` says why stopping a stream that
was never started need not count: nobody waits for a token then. Lemmas say what
`Append` and `Tail` do to `Latest`. `Awaited` is about all the queues at once: of the
requests, answers and resumptions under way at most one is for the current
`close_count_`, and there is one only while the stream starts; a token asked for again
moves, and a new close count has none. From these: `TypeCorrect`,
`CredentialsAreRight`, `AssertionHolds`.

*Write pipeline* (`PipelineProofs`). A queue is an interval of its account's writes
that begins after the settled ones (`Numbered`), the pipeline is the front of the
current user's interval, as long as it can be (`Front`), and what is under way on the
stream is an interval, too: the answers begin where the pipeline does, and until one
is refused the requests continue where the answers end and reach to the end of the
pipeline (`Wire`). `Answered` says that an answer is true and that only the last one
is a refusal; `Known` that of the settled writes none that was applied, and not
refused later, is newer than the one applied last: a write is applied again only
while it waits. Lemmas say what `Tail`, `\o` and `NextBatches` do to intervals. From
these: `PipelineIsConsistent`, `NewestWriteStands`, and `PipelineIsDurable`, step by
step: a write, an answer of the server and a settled write are the actions of
`DurableQueue`, and everything else is a stutter.

*Transactions* (`TransactionProofs`). `Serial` is about a commit, but is decided when
the writes are queued. `Guarded` says that the first mutation for a document that was
read has the precondition that it is still as it was read, for a document written from
its first write on, for any other from `Commit` on, which verifies what was not
written, and for good in a commit that was given up. Nothing before that mutation
changes the document, so when no precondition is broken, the document is as it was
read (`GuardHolds`). `Queued` bounds the mutations, since the documents are finitely
many. From these: `TransactionTypes`, `ReportedIsApplied`, `TransactionsAreSerial`.

*Watch* (`WatchProofs`), for all three ways the server resumes a target. `Exact` says
that what is on disk is what matched at the token in `listen_targets_` and at the
version a view was told, and, unless a mismatch was not repaired yet, at the tokens in
memory and on disk; it is what the theorems state. `Exact`, `Awaited` and `Covered`
speak of the targets that are not lost (`Kept`): a lost one does not disturb the others,
so no assumption is made of any step. `Exact` can only be kept if a snapshot finds in
the aggregator exactly what leads from the keys on disk to the snapshot's version. That
depends on the whole stream. `Awaited` counts: the answers a target awaits are as many
as its requests on the way up and its answers on the way down, so a count of zero means
that no message of an older request is left. `Covered` says what is on the way for a
target that is listened to, one of three:

- its last request is for the token in `listen_targets_` (`Asked`);
- it is followed from some place on (`Followed`): from its last answer, or from the
  front of the stream if that was read. A client that starts there with what it holds
  (`Held`: the keys on disk, with what it gathered once no answer is awaited) is told,
  up to each snapshot, what matched at the snapshot's version, and up to the end what
  matches where the server has the target (`ToldAll`). Where a count stands for what
  was removed (`ToldCount`), the client holds at the count all that is counted, so
  either nothing more, or the count is wrong and found to be wrong; nothing is said of
  the target between the count and its snapshot (`Silent`). Where the server gives the
  target up (`ToldReject`), the client is told up to there;
- a mismatch was found (`Pending`): all of its documents are marked as removed, it is not
  current, and the next message about it is the snapshot that asks for it anew.

`Says` bounds the snapshots on the stream from below by the last one, which is why none is
skipped as old, and `Noted` says that a change is gathered against the keys on disk, which
turns the client's count into a cardinality; also that only a count leads to a mismatch,
and never one of a document query. `Keyed` says that a document query is told of its
document only, so that a count of 0 and its removal are the same. The row a push
sends is of any length and in any order, but nothing needs to be said of its order except
that what is new comes before the counts and the snapshot is last (`Pushed`), and a
handler takes one message off the front, so no induction over the row is needed. Lemmas
say what `Append`, `Tail` and `\o` do to counts and to what is told, what a handler
leaves of what is told next, that `SetToSeq` lists a finite set, and that a finite set
that contains another of the same size is that set.

From these: `TokenIsHonest` and `CurrentIsExact`, for every server and whatever is
listened to when; and `DocumentsAreNeverLost`: where the server tells what was removed
no target is ever lost, and where it counts no document query is, so that for these the
two theorems hold without exception.

Only model-checked: the liveness properties, which are out of the prover's reach, and the
run that shows a violation. Every other property of the runs is stated by a theorem.
Neither checked nor proved, because it is not true, is that a target that was lost still
has exact views and honest tokens, or becomes current after a rejection.

## Not modelled

The parts listed `not_modelled` in `PROJECT.json`; validation and layout;
administrators' other operations; RevenueCat beyond its user and its two answers,
its HTTP queue included. Of the Firestore client: queries and their evaluation,
limbo documents, the cache of deleted documents, the online state, garbage collection, bundles, several tabs, the
serializer, and LevelDB's own transactions, which are taken to be atomic.

The repository checks in all of its iOS pods: of its 677,000 lines of C, C++ and
Objective-C almost all are gRPC, BoringSSL, abseil, leveldb, nanopb and image
libraries, generated tables among them. They are not this application's logic, the
application meets them only through the clients above, and models of them would say
nothing about it. The models cover the logic of `src/lib` and the parts of the
Firestore client on which its promises to `src/lib` rest.

## Plan

1. The client as one: `Session` and `CoursePayment` over `WritePipeline` in place of
   their one-write channel.
2. Limbo documents and the view in `WatchTargets`.
