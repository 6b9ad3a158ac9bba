# Teleyes in TLA+

Teleyes watches Telegram groups for offers. A *listener* process reads the groups with a
user account, matches every message against the admin's rules, stores the matches and
alerts people through a bot. An *api* process serves the web panel: a feed that updates
by itself, the configuration, a setup wizard. They share one SQLite file and nothing else.

This directory models the parts of it where the order of things matters, checks them with
TLC on small instances and proves what matters most with TLAPS for every instance. Paths
below are relative to the root of the repository. `PROJECT.json` maps every definition
to the lines it stands for.

    tlc -workers 2 -config pipeline_delivery.cfg MCAlertPipeline.tla   # one run
    tlc -workers 2 -config panel_pages.cfg MCPanel.tla
    tlapm AlertPipelineProofs.tla                                      # one set of proofs

## 1. The system

### Processes and what they share

| process | tasks | memory that dies with it |
|---|---|---|
| listener (`scripts/run_listener.py`) | one asyncio task per live message; reconnect watchdog (15 s), catch-up (120 s), resend (180 s), reload worker (3 s), digest (30 s), group list scan, heartbeat | signature cache, the notifier's delivered pairs, loaded configuration, floor of failed messages |
| api (`apps/api/app/main.py`) | requests (async ones on the loop, the others in threads), match watcher (2 s), SSE streams, health sampler | event history and numbering, watcher cursor, login under way, rate limits |
| browser | pages that read, write, poll and listen (EventSource); several tabs | React state, last event id; the tab's and the browser's storage survive |

The database is in WAL mode. A write either commits or fails, mostly because another
process holds the lock (`database is locked`, retried by `db_retry.py`); each SELECT sees
a snapshot of its own. Foreign keys are not enforced and row ids are not `AUTOINCREMENT`:
**the id of a deleted last row is given out again**. Both facts are in the models.

### Components, state, operations, hard behaviours

| component | state | operations | hard behaviour | what makes it correct |
|---|---|---|---|---|
| Alert pipeline (`pipeline.py`, `recipient_rules.py`, `delivery_policy.py`, `dedupe.py`, `match_deletion.py`) | match, delivery, suppressed rows; signature cache | handle a message (decide, persist, alert, record), persist a historical one, delete a listing | handlers interleave at every call to the bot; locks and crashes between decision, call and record; deletion meanwhile | one verdict per posting; who is alerted was owed it; rows say what happened |
| Notifier and resend (`notifications/bot.py`, `delivery_retry.py`) | delivered pairs, allowlist, failed rows | notify with retries, resend failed rows | lost answers, restarts, stale candidates | at most one alert except where nobody can know; failed alerts get through |
| Source recovery (`listener_lifecycle.py`, `cursor.py`, `historical.py`) | cursor, floor of failures, configuration in force | live message, catch-up, historical scan, swap, boot | drops, failed fetches, reload or pause in the middle | nothing taken over is forgotten; nothing old is alerted |
| Reload mailbox (`listener_control.py`, `listener_reload.py`) | one row: state, hash | request, claim, apply, record; boot settles | edits between any two statements; refusals, crashes | a request is served by what it asked for; the panel's notice is true |
| Match watcher (`match_watcher.py`) | cursor, held rows, tracked rows | poll | the match is written before its outcome; failures half way; caps | all news once, with the last outcome, and no old messages |
| Event broker and stream (`events/broker.py`, `routers/events.py`, `useLiveMatches.ts`) | bounded history, queues | publish, subscribe, deliver, evict, reconnect | a thread publishes too; slow and disconnected browsers; restarts | what was missed is replayed or the browser reloads |
| Connection supervisor (`connection_supervisor.py`, `adapter.py`, `reconnect_watch.py`) | state, failures | connect, back off, block, watch | flood waits, stop during a connect | ends or reconnects; blocks only after the ceiling |
| Digest (`digest.py`) | day row, pending rows | run once, schedule | crash between reservation and call; reload while a call is awaited | never twice; a known block leaves everything pending; no queue waits for ever |
| Match edits (`routers/matches.py`) | corrections, manual target reservations | patch, revert, deliver | two requests; price corrected between reservation and delivery | the panel shows the correction; one manual target alert per recipient |
| Setup and login (`packages/setup`, `routers/setup.py`, `setup/*.tsx`) | login under way, session, credentials; the wizard's step | start, code, password, cancel, expire, finish, disconnect; pair a recipient | timer, restart and other calls against an awaited answer | a login that was given up is never the session; who waits for a /start is served |
| Group list scan (`dialog_scan.py`, `GroupsStep.tsx`) | one row, list | request, claim, finish, fail, clear | stale take-over, change of account | the list is that of the account |
| Admin sessions (`apps/api/auth`, `web/src/auth`, `api/http.ts`) | session rows; per tab a token, a prompt, refused writes | login, logout, expire, write, retry | several tabs, one cookie; a session replaced under a write | at most once, and nobody waits without a prompt |
| Feed page (`useLiveMatches.ts`, `FeedPage.tsx`, `MatchCard.tsx`) | list, conn, rails, drafts | read again on each event, delete, silence, switch | answers overtake, events missed | a quiet page shows what the api holds; nothing folds or goes under one's eyes |
| Product panel (`ProductPanel.tsx`, `useProductPanel.ts`) | address, phase, product, form | open, close, back, read, correct | late answers of another product; exit animation against the history | the address is the truth; what is shown is of the open product |
| Rules, recipients, sources, history, savings, health pages | lists, forms, previews, polls | read, save, test, search, poll | two readings, a save during a reading, page left | current when quiet, answers only where they belong |
| Figures (`utils/target.ts`, `savings.ts`, `resultsCard.ts`, `priceInput.ts`) | none | price texts, medians, gaps, bars, layout | rounding, widths, boundaries | a number is the number it says it is |
| Rule evaluation (`packages/rules`) | none | match, price, title, target | | pure functions |
| Backup, demo, migrations, installation | see `PROJECT.json` | | | not modelled, with the reason |

How they meet: the live handler of *source recovery* calls the *pipeline*, which
advances the cursor with every message it decides on; the *reload mailbox* makes the lifecycle swap its
configuration, which moves cursors and scans the history; the pipeline's rows are read by
the *watcher*, which publishes to the *broker*; the panel's edits reach the listener
through the mailbox only, and its deletions through the tables. In the browser the pages
share the session, the theme and the status of the listener, and nothing else.

## 2. The modules

| module | models | its abstraction |
|---|---|---|
| `AlertPipeline` | pipeline, notifier, resend, deletion | a posting is one (message, rule) pair that passed the rule; prices, texts and windows appear as `OfferOf`, `SignatureOf`, `TargetHit` |
| `AlertPromise` | what the pipeline promises | no tasks, rows, caches, failures |
| `SourceRecovery` | one source of the listener | every message passes the rule; alerting is one step |
| `ReloadMailbox` | the mailbox between panel and listener | a configuration is a version of each of its three lists |
| `EventStream` | broker, SSE stream, one browser | an event is its number |
| `DigestRun` | the daily digest and its scheduler | a match is its birth number; which is cheapest is the oldest; days are named modulo `Days` |
| `MatchWatcher` | the poll of the match table | a match is its birth number, origin and delivery status |
| `AdminSession` | sessions in the api, tabs of the panel, refused writes | a session and its token are one number; a request is served in one step, answered later |
| `Panel` | the panel: one page or independent part of a page at a time | the parts share three variables |
| 25 parts, below | one hook, component or page each, with what the api does for it | an id, a version or a set for what a list or form holds |
| `MC...` | instances for TLC: constants a `.cfg` cannot write (functions, symmetry) | |
| `...Proofs` | theorems: eight modules, each about the one it is named for; `PageProofs` and `ShownProofs` are about `Panel` as well | |

The configurations of `EventStream`, `MatchWatcher`, `DigestRun` and `AdminSession` need
only numbers, strings and model values, so TLC is given the modules themselves.

A definition named like another one with a suffix (`IsKnown_NoIdentity`, `Capped_Not`) is
that definition with a plausible fault; nothing uses it. Replacing the original by it must
make TLC find the property violated that `PROJECT.json` lists with it (`mutants`).

### AlertPipeline

A handler (`task[t]`) goes through `write`, `notify`, `calling`, `accepted`. The write
phase of `process_message` has no `await`: it is one step (`DropSeenText`, `DropKnown`,
`PersistQuietly`, `PersistAlert`) or fails (`WriteLocked` is `process_message_with_retry`'s
round, `WriteRefused` the give-up). The network phase calls the bot for one recipient
after the other; `BotAccepts` (Telegram has the message) and `BotAnswers` (the listener
knows) are two steps, so that a time-out or a crash can fall between. `RecordOutcomes`
writes all delivery rows at once. The resend pass (`LoadCandidates`, `ResendCalls`, ...,
`MarkSent`) runs beside the handlers, and gives up a row that is too old (`RowAges` is the
passing of its six hours) or a target alert whose rule has no target price any more
(`Current`). `Crash` forgets all memory, `Edit` pauses a recipient, changes snooze or digest or
takes the target from a rule, `DeleteMatches` is the panel's deletion with its tombstones.
History variables: `owed` (whom the verdict names), `accepted` (what Telegram got),
`blind` (acceptances nobody could know of), `lost` (outcomes that could not be written).

`KeepsPromise` is refinement: under `alerted[p] = {r : accepted[p][r] > 0}` every behaviour
of the pipeline is one of `AlertPromise`, where a posting gets one verdict for good and
only those it names ever get its alert.

### SourceRecovery

`work` is the one holder of `_catch_up_lock` (boot, catch-up or reload); `live` are the
messages whose handler runs. The cursor is committed at the end of the fetch (`Fetch`),
*before* what was fetched is processed, as in the code; `failed` is `_failed_live`, taken
out when a catch-up starts and put back by its failures. `ApplyConfig`, `MoveToHead`,
`Scan` are the three stages of `apply_config`. `offLimits` are messages posted while the
source was paused or before its first boot; `taken` those a live handler took over.

### ReloadMailbox

The task that loads a configuration reads the three lists in three steps (`ReadList`),
swaps (`Swap`) and records (`RecordApplied`, or `RecordAppliedFails`: the write is not
retried). `Save` changes a list between any two of them. `fresh[l]` are the versions list
`l` has had since the last accepted request.

### MatchWatcher

The poll is two steps, `Look` (new ids; cursor and held rows move at once) and `Judge`
(rows and deliveries; events and tracked signatures), because other processes write
between the statements; `Publish` follows on the event loop. `ReadFails` and `JudgeFails`
are a poll that raises before and while it builds events. After a failed read nothing is lost:
`ReadFails` leaves cursor, held and tracked rows as they were, so that the next poll decides
again, and the properties excuse nothing of it. After `JudgeFails`, `lost` has the events that
nobody will build again. The deliveries and the matches
are read by two statements; the model reads them in one step, and a write between the two
differs only by being seen one poll later.

The statuses of an alert that has not left (failed, grouped, waiting for the digest) are one,
`unsent`: the signature tells them apart and the model does not, so what it says of outcomes
is said of an alert that leaves.

### DigestRun

`run` is the coroutine of `run_digest_once`: `plan` between the two commits that open it,
`next` between recipients, `reserved` once a recipient's rows are committed, `calling` and
`accepted` while its call is awaited, before and after Telegram has the message. Other tasks
of the listener (`Hold`, `Reload`, `NewDay`) step in only while the loop is free; the panel
(`Edit`, `Delete`) anywhere, as do `Crash` and, at each commit, `CommitFails`. `Marked` is
the compare-and-set of `_mark_deliveries`. The reads behind a plan are one step. Which
matches are the cheapest matters to no property, so all have one price and the oldest comes
first, the tie-break of `load_pending_queue`. `Hold` is the last step of what
`AlertPipeline` models in full, with any set of recipients the rules may give it.

### EventStream

`publish` is three steps (`Create`, `Remember`, `FanOut`) since a deletion publishes from
a request's thread (`routers/matches.py:1073`). `subscribe` is two (`SubscribeRead`,
`SubscribeAdd`). `missing` is what was published since the browser first connected and
neither reached it nor was covered by a reload; `doubt` marks an event that met one of
the ways of getting lost that are listed in section 6.

### AdminSession

The cookie is the browser's, the token (React state and sessionStorage) is each tab's. A
write is `sent`, `answered`, and, refused for its session, `waiting` for the one prompt of its
tab; `LoginConfirmed` or another tab's `TokenFromOtherTab` sends the waiting writes again, once
(`_isRetry`). `Expire` may end any session at any time, so the sliding window needs no clock.

### The panel

`apps/web/src` is 22,000 lines of pages whose states have no contact with each other: the
router mounts one page, and the hooks and components of a page share little. So each part is a
module over the same three variables, `srv` (what the api would answer), `ui` (the React
state), `net` (calls, answers, events, timers on their way, and what the properties
remember), and `Panel` lets `part` choose one of them for good: leaving a page forgets its
state, so every visit starts in the part's `Init`. Each part models the whole
handlers: what a click sends, what the answer sets, the flags (`cancelled`, a request id, a
key compared) that drop late answers, and where there is no such flag.

| part | file | what can go wrong |
|---|---|---|
| `LiveFeed` | `useLiveMatches.ts`, `useDeleteListing.tsx`, `FeedPage.tsx` | reads overtake; events lost around a drop |
| `FeedRails`, `FeedDigest` | `FeedPage.tsx`, `scrollChrome.ts`, `RailStrip.tsx` | a rail folds on screen; settings saved as a whole record |
| `FeedFigures` | `target.ts`, `robustLowestPrice.ts`, card and rails | api and browser compute the same thing twice |
| `MatchCard` | `MatchCard.tsx` | row and menu change places, drafts under a redraw |
| `PanelUrl`, `ProductPanel` | `useProductPanel.ts`, `ProductPanel.tsx` | address, phase and timer; answers of another product |
| `RuleTable`, `RuleForm`, `ListenerPoll` | `RegrasPage.tsx`, `useListenerStatus.ts` | row actions, tests of an unsaved form, notices told twice |
| `Recipients` | `DestinatariosSection.tsx`, `RecipientCard.tsx`, `useRecipientPreview.ts` | previews of an older draft |
| `HistoryPage` | `HistoricoPage.tsx`, `usePersistentFilters.ts` | filters, debounced search, readings |
| `EconomyPage`, `LinkSearch`, `ResultsCard` | `EconomiaPage.tsx`, `PurchaseForm.tsx`, `economia/` | two requests for one page; the card's figures, room and privacy |
| `SetupWizard`, `SetupBot`, `SetupGroups`, `TelegramLogin` | `ConfiguracaoPage.tsx`, `setup/`, `routers/setup.py`, `telegram_login.py`, `dialog_scan.py` | loops and timers on both sides of a call |
| `ManualTarget` | `routers/matches.py` | corrections, reverts, deletions and the calls to Telegram of several requests |
| `SourcesPage` | `FontesPage.tsx`, `FontesRail.tsx` | two lists that must agree |
| `HealthPoll`, `HealthHistory` | `useHealth.ts`, `SaudePage.tsx` | polls against events, polls against buttons |
| `ThemeStore` | `theme.ts`, `useTheme.ts` | several tabs, the system's mode, storage forbidden |
| `PriceField` | `priceInput.ts`, `manual_price.py`, the fields | a text written, read back, and read by the api |

`TelegramLogin` is server code: `queue` is the FIFO of `asyncio.Lock`, `holding` whether its
head is awaiting Telegram, `sent` the calls not yet at the lock. A timer marks the login
as no longer `live` and takes the lock for itself only when it is free. The finish of a login is
two steps, since `_finish_locked` clears it, awaits the client's disconnect and only then puts the
session file in place: between `SignedIn` and `FinishEnds` it is in `finishing`, and a `login_start`
sees neither a login nor a session. A start let through while an answer has the lock is queued as
an `"early start"`.

`ManualTarget` is server code too. `PATCH /matches/{id}` runs on the event loop: `LoopFree` keeps
two of them from running between two awaits, whereas reverts, deletions and saved rules, in
threads, come between any two steps. `srv.lock` is SQLite's write lock, held by a PATCH from the
flush of an outcome (the `SELECT` of the next recipient's row, `NextCall`) to its commit;
`PatchLocked` is a write that waits out `busy_timeout`. `seen` is the row as the session read it:
sessions keep it after a commit (`expire_on_commit=False`, `models/db.py:49`) and write only the columns they changed.

## 3. Runs

Twelve runs; the number of states is what TLC found.

| run | states | shows |
|---|---|---|
| `pipeline_delivery` | 672k | who is alerted, how often and what rows say, with 2 refusals, a lost answer, a crash, a lock and an edit; refinement of `AlertPromise` |
| `pipeline_identity` | 1.2M | one verdict, one sender, no resurrection, no deafness, with two rules for one message, a repeated text, a repeat, a deletion, a crash |
| `pipeline_progress` | 101k | failed alerts get through unless given up for their age or a missing target, handlers end, one alert per offer (fairness) |
| `recovery_safety` | 3.1M | nothing taken over is forgotten, nothing old alerted, over 2 reloads, 2 edits, a lock, a failed fetch, a disconnection |
| `recovery_progress` | 328k | what could not be persisted gets a verdict, with a crash and ageing (fairness) |
| `reload_mailbox` | 246k | requests are served, settled and the notice is true, with 2 edits and one each of lock, refusal, disconnection, crash (fairness) |
| `digest_run` | 748k | nothing is digested twice, one digest a day, honest rows, a local block changes nothing, no queue waits for ever; one fault, deletion and edit (fairness) |
| `stream_delivery` | 117k | nothing is skipped in silence: 4 events, 2 drops, a restart, a thread (fairness) |
| `feed_news` | 228k | all live news, once, with its last outcome, failed reads included; no old messages (fairness) |
| `panel_session` | 6.4M | a write is carried out at most once and its caller told the truth; refused writes and the prompt belong together; two tabs, two writes, two sessions, one fault |
| `panel_pages` | 5.8M | the 25 parts: what is shown is current, true and of what is open; the address, the login, target alerts of corrected prices, notices, drafts |
| `feed_hang` | violation | the cap on held matches loops for ever |

The ten properties of `panel_pages` are each the conjunction of what the parts promise under one
heading; the definitions are in the parts, with the exceptions the code makes
(`net.late`, `net.blind`, `net.overlap`, `net.outrun`, `ui.missed`, ...), which section 6 lists. Of the other modules `TypeOK`
is not an invariant of a run: it is proved for five of them (section 4), and for the rest
the properties would fail to evaluate on a badly typed state.

### Bounds, and why they are enough

Every bound is a constant of the configuration, and every kind of disturbance is budgeted
on its own, because what goes wrong goes wrong by *one* event at the wrong moment, or by two
that meet.

- Pipeline: two handlers (interleaving is pairwise: properties speak of two postings, two
  senders), two recipients (one does not want the target alert), two match ids and so one
  reuse, two attempts instead of three. `pipeline_progress` has one handler: with two,
  `OneAlertPerOffer` does not hold (section 6).
- Recovery: three messages (an older one that failed, one in the middle, a newer one that
  moves the cursor); a catch-up that may fetch two, so that the limit is met.
- Mailbox: two edits, so that one can fall before and one after the read.
- Stream: history 2 and queue 2 for 200 and 100: four events fill, evict, leave a gap, replay.
- Digest: two people, so that a reload or a deletion can fall into the call of the first and
  hit the plan of the second; a digest of one and two matches, so that one overflows; two
  days, named over and over, so that a run can cross midnight and the next day follows.
- Watcher: two rows for three matches (one id reused), one tracked, one held, one per poll,
  so that each cap is met. Three rows with two held and a batch of two, without a restart or
  without a deletion, give the same results (372k and 424k states) and are left out for
  their time.

- Session: two tabs and two writes (a prompt is shared by two, and a tab is told of the other's
  login), two sessions, so that one replaces the other under a write, and one lost answer or
  reload. A third tab would hear what the second hears.
- Panel: two of whatever can be confused (matches, rules, products, recipients, purchases,
  sources, tabs, logins, accounts), one of the rest, and a bound per part on clicks
  (`MCMaxOps`), polls and changes made elsewhere. An answer overtaken needs two calls and a
  change between them; the parts with three clicks or more have a third handler that reads the
  same state. `ManualTarget` has three corrections (one alerts, one leads away, one comes back), a
  revert, two faults and two recipients; with a third recipient the lock is held no differently. `MAX_CODE_ATTEMPTS` is 2 for 5, `MAX_SAFE` 1,000,000 for 2^53 - 1: TLC's
  integers are shorter than JavaScript's. Prices and digit groups sit on the boundaries of
  their writing, feeds and reports (`MCFeeds`, `MCReports`) below, at and above each threshold.

`CHECK_DEADLOCK FALSE` is set where the system may stop: when budgets and ids are spent
(pipeline, recovery, panel), when a lost status write leaves the row in flight
(`reload_mailbox`), when everything was published (`stream_delivery`), when the poll hangs
(`feed_news`). `panel_session` uses symmetry in tabs and in writes; it has invariants only.

### Fairness

Weak fairness only, on what a loop or a timer drives (in the digest also that days pass): tasks of the event loop, periodic
passes (catch-up 120 s, resend 180 s, reload worker 3 s, watcher 2 s), the supervisor's
reconnection, Docker's restart, the browser's reconnection. Nothing is assumed of people,
of Telegram, of locks (they only take from a finite budget), of crashes. Nobody has to
apply the rules: `FailedIsResent` says nothing of a recipient that is paused, or active
again but not loaded yet, nor of a row older than six hours or a target alert without a target.
In the watcher the listener need not record an outcome.
The two runs of the panel assume no fairness: nothing there is bound to be answered, and
"waits for ever" is a safety property (who waits has a prompt, a loop, a lock's turn).

## 4. Proofs

For every value of the constants (any number of messages, rules, recipients, handlers,
any budgets), from the modules' named assumptions on constants.

| theorem | says |
|---|---|
| `AlertPipelineProofs!TypeCorrect` | types, and a handler that calls the bot holds posting, id and recipient |
| `SeenIsKnown`, `SuppressedGone`, `OneSender`, `OneVerdict` | the four properties of `pipeline_identity` |
| `NobodyForgotten` | `OutcomeAccounted`, whatever is deleted |
| `NeverTwiceUnlessBlind`, `SentWasAccepted`, `OnlyTheNamed` | `AtMostOnceUnlessBlind`, `SentIsHonest`, `OnlyOwedAreAlerted`, until the first deletion |
| `PromiseKept` | `KeepsPromise`: the pipeline implements `AlertPromise` as long as nothing is deleted |
| `OfferOnce` | `OneAlertPerOffer`, for one handler, until the first deletion |
| `SourceRecoveryProofs!TypeCorrect`, `CursorMonotone` | types; the cursor never moves back |
| `NothingTakenIsForgotten`, `NoRetroactiveAlert` | `LiveNotForgotten`, `NoRetroactive` |
| `ReloadMailboxProofs!TypeCorrect`, `HonestNotice`, `OwnedRow`, `RequestsServed` | the safety properties of `reload_mailbox` |
| `AdminSessionProofs!TypeCorrect` | types |
| `OnceApplied`, `PromptForWaiters` | the two properties of `panel_session` |
| `DigestRunProofs!TypeCorrect` | types |
| `ItemOnce`, `OncePerDay`, `SentWasAccepted`, `BlockLeavesPending` | the four safety properties of `digest_run` |
| `PanelProofs!DroppedStaysDropped` | `DroppedIsNeverSession` |
| `TargetAlertIsOnce` | `TargetAlertedOnce` |
| `AddressIsTheTruth` | `UrlIsTheTruth` |
| `AccountIsKept` | `SetupKeepsItsAccount` |
| `PageProofs!AnswersAreOfTheirPage` | `AnswersAreOfWhatIsOpen` |
| `NoticesTellWhatHappened` | `NoticesAreHonest` |
| `NothingIsLost` | `NothingIsTakenAway` |
| `ShownProofs!PagesAreCurrent` | `ShownIsCurrent` |

*Identity of matches.* None of the four is inductive alone. A signature stays in the cache
between two states in which its posting might lose its row, so that one needs that a row is
only removed with a tombstone; that a sender is alone needs that a second handler of its
posting finds it known, hence that whoever sends has a *decided* posting, that every decided
posting is known, that every row has a verdict and no posting two rows. `IInv` is the
conjunction; lemma `MatchSteps` sorts all steps into three kinds (keep the matches, add one
that was not known at a free id, remove a message with a tombstone), and the preservation of
each part is proved over the three.

*Who is alerted, and how often.* `NobodyForgotten` holds whatever is deleted. Its invariant,
`AccountInv`, says of a handler in its network phase that whom the verdict names is whom it
still has to call or already has an outcome for, and that its row is still its posting's
unless the message has a tombstone; so when it records, everyone gets a row. The others hold
until the first deletion (`Untouched`: no tombstone yet), and no longer: the outcomes of a
handler that overlaps a deletion become orphan rows, the id is given out again, and from then
on a row of one match can speak of another (section 6). Until then `DeliveryInv` divides the
acceptances of a person among those who know of them: a handler that has heard (`Heard`,
`Counted`), a row that says sent, the notifier's pairs, or nobody, which `blind` counts. Who
is about to call holds a person for whom the count is even (`Even`): the handler because
nobody else has its posting, the resend pass because a failed row whose pair the notifier does
not remember stands for no known acceptance (`FailedInv`). `PromiseKept` maps each step:
`BotAccepts` and its like to `Alert`, the write phases to a verdict, the rest to a stutter.
`OfferOnce` adds that the one handler sees in committed rows every earlier alert of its offer,
which needs that no call failed, no write was locked and the process lived, as the property
says.

*No alert for a pause.* `NoRetroactive` needs to know what a fetch in the future may bring.
While the process lives and nothing was locked (`Steady`), every fetch starts at or above each
message of a pause (`StartsBehind`), no such message is in a handler's or a catch-up's hands
(`NothingOff`), and once the source is listed the cursor is past them all (`CursorBehind`),
because the swap that lists it first moves the cursor to the head. `Steady` cannot come back
once it is lost, since budgets only shrink.

*The digest.* The invariant follows a match from its plan to its row. A planned row is pending
(or gone) until its recipient's turn (`WaitingInv`), reserved from the commit to the outcome
(`ReservedInv`), and what was accepted of a match is nought while it is queued or planned
(`GotInv`). Ids are reused, so an entry of a plan carries the birth of the match it was made
of, and `PlanInv` says that its id holds that match, none, or one born later, which is then in
`swapped`; everything about acceptances is said of births and everything about rows of ids.
`DayInv` is the same argument for the calendar: the row of the day is committed before the
first call. That a non-empty set of births has an oldest is derived from the library's theorem
that strict inclusion of finite sets is well founded (`MaxIsLargest`).

*The parts of the panel.* `PartStays`: a part takes only its own module's steps, so an
invariant of a part is proved over that part. For the login (`LoginOk`): the number of a
dropped login is neither the session's nor the one under way, and a login that waits for
Telegram is still the one it asked about. For the alerts of a corrected price (`ManualOk`): a
recipient belongs to at most one request, from its reservation until its outcome is in the row
(`Has`), whichever way the requests interleave; who belongs to nobody and has no row was never
called, and each step of a request touches only its own recipients and those nobody has
(`PatchStep`). A pending row that nobody has is one of a request that was cut short
(`Followed`). For the address (`AddressOk`): the timer of the exit animation runs exactly
while the panel leaves, and the mark that a change is the panel's own is left standing only by a
click that changed nothing (`idle`); a "back" or "forward" that meets the mark is missed, and from
any other change of the address on the two agree again.

*The account of the setup.* `SessionKept` rests on the order in which the lock's queue is
served (`OrderOk`): while a session is kept, and behind the own code of the login that waits,
no call in the queue begins another login, because the browser sends a code only after the
answer to its start. A start that was let through while an answer had the lock, because that
answer's login was over or being finished, is marked in the queue, the login it begins carries
the mark, and it is the one exception of the property (`early`). A source is added from the api's list, and `GroupsOk` says that the list is of
the account that is connected, since disconnecting clears it, unless the scan of an earlier
account was answered late.

*Answers on a page.* Each of the five parts has a mark that says which calls still count, and
the invariant ties the mark to what is on screen: the product panel's calls that are not
cancelled are of its product and range (`ProductOk`), the open row is a row of the table
(`TableOk`), the tester's last call is of the rule in it (`FormOk`), a recipient's preview
that is not stale is of the draft (`PeopleOk`), the search that is not aborted is of the text
that is typed (`LinksOk`). What has to be shown of each step is that it cancels the mark of
whatever it replaces; with the recipients, a reading of the list, an edit and a discard all do.

*Notices.* `ToldOnce` of `ListenerPoll` needs to know what an answer on its way may still tell
(`ListenerInv`). Nothing is told of a request that has not ended (`ToldIsOver`); a reading on its
way is no newer than the row, and nothing was told of what it shows under way (`PollOk`). The page
remembers only the last state it saw, and tells when that leaves "under way": so whatever is under
way for it must still have room to be told (`UnderOk`, `Room`), none of it told, or told once and
outrun. The answer to a POST may bring "under way" back after the end was told, and then its
request was outrun (`PostOk`), which allows it a second time and no third. For the
bot (`BotOk`): one poll at a time belongs to the loop that runs, the one of a link that was
replaced is marked, and as long as none of the loop's polls is answered "paired" the link is
unused (`Unused`), so "expired" is true when it is said.

*What a step takes away.* A rail folds when the page has scrolled past where its bottom was
measured (`RailsOk`: it is measured while it may fold, at a finite number of rules); the
storage holds the filters in the form unless the browser blocks it (`HistoryOk`); one reading
of the health history is under way and what it was answered is no older than what is shown
(`PastOk`). The form of a purchase and the card of a match need only the shape of their state.

*What a page shows.* The property speaks of quiet states only, and the invariants say what
leads to them. In the feed, the rules, the recipients, the history, the purchases and the
sources, at most one read was asked last (`ReadsOk`). Once that read is answered it is what
the api holds, and once it has ended so is the page, unless the page says that it failed or
an older answer came after it (`FeedShows`, `TableShows`, ...); or else somebody still owes
the page another read (`FeedTold`, `TableOwes`, ...): a handler whose call was made, an event
on its way, a reconnection. The step to show is that whatever changes what the api holds
leaves such a debt, and that a debt is paid by asking, never by what an earlier read answers.
A rule that is deleted beside the recipients leaves none, so `ListNow` compares their choices
without the rules that are gone; in the history, what is deleted elsewhere is set apart. The
other parts are mostly ordered by a number: in the wizard an answer that nobody overtook is
no older than the last one of an own call (`NotBehind`), and the events of Telegram's state
that are on their way are its last changes (`HealthFresh`). A correction of a product is made
one at a time, and the product on screen carries it or waits for its answer (`ProductShows`);
digest saves made one after the other turn over one field each (`DigestInOrder`); and a tab
shows the stored theme from the moment it was told (`TabShows`).

*Nothing taken over is forgotten.* `LiveNotForgotten` counts a message above the cursor as
tracked, and the very next live message takes that away. The invariant `Kept` leaves it
out: what keeps a message is its handler, the floor `failed`, a fetch that took the floor out
(`work.floor`) or the list a catch-up is processing. The proof shows that every step that
takes a message out of one of them puts it into another.

*Mailbox.* `IInv` says which lists the task has read (`ReadBefore`), that a reload owns the
row, that what it has read is a version saved since the request (`FreshInv`, true because
no request is accepted meanwhile), and that the stored hash is that of the running
configuration from each record to the next swap (`HashInv`). The boot's case of
`RequestIsServed` is the interesting one: either all it loaded is as new as the request up
to the fingerprint, or the notice is shown.

*Writes of the panel.* `AppliedInv` says of each place a call can stand at how often it was
carried out: not yet while it is on its way, refused, waiting or cancelled; once when it was
answered "ok" or is done; at most once when its answer was lost. A second sending starts from
`waiting`, where the count is still nought, which is why `_isRetry` alone would not do.
`WaitersHaveAPrompt` is inductive given the types: a tab's waiters go with its prompt in
every way a prompt is closed, and a reload needs that no tab is called "none"
(`SessionAssumption`).

The assumptions on constants are few: sets are what they are said to be, bounds are natural
numbers, values that stand for "nothing" are none of the real ones, and the rules are finitely
many (`PanelAssumption` for the panel, `SessionAssumption` that no tab is called "none").

Only model-checked: everything temporal (`FailedIsResent`, `HandlerFinishes`,
`TakenIsDecided`, `RequestIsSettled`, `NothingIsSkipped`, `NewsIsPublished`, `OutcomeIsShown`,
`QueueIsTaken`), since liveness under fairness and ENABLED are out of the prover's reach;
`HistoryIsNotNews` and `ToldOnce` of `MatchWatcher`, because a poll folds over the sequence of the rows it
holds and a fact about a fold needs induction over data; of the panel `ShownValuesAreTrue`,
where `FeedFigures`, `PriceField` and `ResultsCard` compute with folds, and `TypeOK`, a
conjunction over all 25 parts of which the proofs above state what they need.

## 5. Findings

`feed_hang`: `while len(self._pending) > MAX_PENDING` assigns to the oldest entry and
removes nothing (`match_watcher.py:167-169`): the loop never ends.

## 6. What the properties exclude, because the code does it

Found while modelling, kept out of the passing properties by an explicit condition. Where a
definition is named, it states what the code's own comment claims, and TLC refutes it on the
instance of the run of its module.

*Listener and api*

- The notifier remembers pairs of match id and recipient. The admin deletes the last match,
  the next match gets its id, its alert fails, and the resend is answered "duplicate",
  whereupon the row says `sent` (`delivery_retry.py:162-164`).
- A live message handled between the reconnection and the watchdog's poll advances the cursor
  over what was missed (`pipeline.py:462`, `:823-825`; `SourceRecovery!MissedIsRecovered`).
- The resend pass gives up failed rows older than `RESEND_MAX_AGE`, six hours, and target alerts
  whose rule has lost its target price (`delivery_retry.py:68,79`, `:95-96`): they stay `failed` for
  good (`FailedIsResent` excepts them). The `continue` for a match without a price (95) needs a corrected
  price taken back, which `AlertPipeline` does not have. That a recipient leaves a rule is not modelled (`Wants` is constant).
- A lost answer or a crash before the outcome is written makes the resend alert twice
  (`AtMostOnceUnlessBlind`); `delivery_retry.py:23-25` calls a crash the only window.
- Two handlers that overlap alert the same offer twice (`pipeline.py:493`): the outcome is
  written after the network phase.
- Outcomes recorded after a deletion are orphan rows (`pipeline.py:796`), and one of them
  with a reused id misdirects a resend.
- A restart after a pause, and a floor left from before it, alert retroactively
  (`listener_lifecycle.py:260`, `pipeline.py:943`); `NoRetroactive` assumes neither.
- A reload's scan can persist a live message whose handler has not written yet: it becomes
  history and is not alerted (`listener_lifecycle.py:377` against `:351-353`).
- A reload whose outcome cannot be written leaves the row `applying`, and requests are
  ignored until a restart (`listener_reload.py:118-124`). `select_groups` does not look at
  the answer of `request_reload` (`routers/setup.py:790`).
- `config_fingerprint` leaves `target_price_cents` out (`listener_control.py:68`, whereas its
  docstring says "every field that changes what the listener does"): a target changed while
  the listener boots is settled with the old target, and the panel shows nothing to apply.
  `RequestIsServed` compares what the boot loaded by fingerprint (`Same`).
- The three SELECTs of `load_active_config` may see three snapshots: the listener runs a
  mixture, which the notice does show.
- The stream loses in silence: events while a browser that has had none yet is away
  (`useLiveMatches.ts:55-61` reloads on events and `resync` only, and without an id
  `broker.py:57` replays nothing, whereas `docs/PROJECT_SPEC.md:94-95` promises recovery);
  events around a restart, when a stale id is compared with new numbers; what a thread
  publishes out of order; what `_evict` pops to make room.
- An event that cannot be built is lost, with those built before it in the same poll
  (`match_watcher.py:182-188`: they are held no longer, and the cursor has passed them);
  `NewsIsPublished` and `OutcomeIsShown` excuse the matches of those events and no other, or
  everything once the poll hangs. A failed read excuses nothing. A match under a reused id below
  the cursor is never announced (it is not `owed`), one that left the tracking shows no later outcome.
- A digest whose reservation was committed and whose call never started is lost for good,
  overflow included: `BlockedStaysPending` excepts a run cut off at that point
  (`digest.py:324-327`). A match that takes the id of one a plan holds is reserved in its
  place, is never sent and may say so (`SentIsHonest` excepts it).
- An old match that nobody was to receive has no delivery and is published after the grace
  period, as if it were new (`match_watcher.py:83-84`).
- `login_start` looks for a session before it waits for the lock (`routers/setup.py:450`), and
  keeps the credentials it read: a start that waits while the account is disconnected uses
  deleted ones. A login whose time is over while Telegram looks at its code still becomes the
  session (`telegram_login.py:334`), and one that is being finished is neither waiting nor a session
  until the client is disconnected (`:301-307`): a second start passes both checks then (`setup.py:450`,
  `:457`), and its login later replaces the account that was just connected, against "Desconecte-a
  antes de entrar com outra conta". `SessionKept` excepts the login of such a start (`early`).
- A group scan finished after the account was disconnected leaves its list to the next one
  (`dialog_scan.py:96`, against the purpose of `:123`).
- The client accepts the price "5.749,5", the api does not.
- A target alert with two recipients is awaited with the write lock held: the outcome of the first is
  flushed by the `SELECT` before the second call (`routers/matches.py:876-885`), against "No write
  transaction across the network" (`README.md:124`) and the comment at `pipeline.py:653-659`.
  Another correction then waits for the lock on the event loop that would have to release it, until
  `busy_timeout` ends it (`ManualTarget!NoLockAcrossNetwork`).
- A correction and a revert that overlap leave a typed price marked as `parsed`, which no revert takes
  back any more (`DetectedIsKept` excepts them). A target lowered between reservation and check leaves rows
  `pending` for ever without a crash, and so does a lock met between two recipients
  (`AlertedOnce`, `cut`), whereas `matches.py:798-800` names a crash only.

*Panel: an older answer wins* (no request id and no `cancelled`; every property that says
"is current" excepts it)

- Two readings of the feed's list (`useLiveMatches.ts:37`), of the rules and their silences, of
  recipients, purchases and sources overtake each other; a health poll asked before an event
  is shown after it (`useHealth.ts:19`), a poll of the wizard after a call's own answer.
- A handler of an earlier render reads with its own filters (`HistoricoPage.tsx`); a silence lapses
  with no event and stays on screen.
- The confirmation of a deletion counts what an earlier reading showed.

*Panel: a late answer reaches another form*

- A save of product A closes the editor of product B; a rule's save resets the form of the rule opened
  meanwhile; a suggestion's answer replaces the form (`RegrasPage.tsx:373-401`); saves of a
  recipient, a purchase and a source close whichever form is open by then.
- A failed row action hides the whole table; a reload of the list drops the cards' drafts.

*Panel: whole records and repeats*

- The digest's switches and the mute of the rules page send the whole record: two changes under way
  lose one (`FeedPage.tsx:305-325`, `RegrasPage.tsx:430-446`). The edit forms PATCH every field.
- `POST /purchases` whose answer was lost makes a second purchase when repeated.
- "Silenciamento removido." is said without a call when there is nothing to remove, and the row
  of a rule whose silence is known only from the other list silences again
  (`RuleTable!ReactivateReactivates`, against `RegrasPage.test.tsx:1383`).

*Panel: setup and session*

- The end of a request to the listener is told twice when a reading shows "under way" and the next one
  its end before the answer to the POST, "under way", has arrived: that answer is accepted like any
  other, and the reading after it ends the request again (`useListenerStatus.ts:36-44`, `:79-82`,
  against "Called once" of `:13`; `ListenerPoll!CalledOnce`). `ToldOnce` allows two for such a request
  (`outrun`) and one for every other, before and after.
- A loop that failed or that ended while another link was made is not begun again, so the step says
  it waits and does not (`SetupBot!WaitingIsWaited`, `BotStep.tsx:125-126`); a cancelled loop takes
  the "paired" answer with it, and the next poll says that the link expired.
- A failed call of the wizard leaves the typed secret in the form, whereas `api/setup.ts:7-8`
  says otherwise; `RuleStep` may show two messages that contradict each other.
- Logging out with another session's token (403) forgets the login of the tab and leaves the
  session; a login whose `/auth/me` fails keeps the prompt open over a valid session.

*Panel: the address*

- A click on the product that is open, or a second one on the cross, sets `selfInitiatedRef` and changes
  nothing in the address, so that the effect does not run and the mark stays
  (`useProductPanel.ts:101`, `:117`). The next "back" or "forward" that changes the address is taken for the
  panel's own (`:75-78`): from a link to product 2, open 1, open 1 again, back, back, and the address says 2
  while the panel shows 1, against "the single source of truth" of `:28`
  (`PanelUrl!SingleSourceOfTruth`). `UrlIsTheTruth` excepts the state such a missed change leaves
  (`missed`), until the address changes again, and nothing else.

*Panel: numbers and drawing*

- The rail and the card of one offer differ below 1%: the api says 0%, the rail rounds up to
  1% (`FeedFigures!RailAgreesWithCard`, against `utils/target.ts:4`).
- `robustLowestPrice.ts:22-24` is not true of an even number of prices.
- A figure of 18 characters or more ("50% de R$ 1.000,00") does not fit its box on the shared card even
  at the smallest size, by the card's own estimate (`resultsCard.ts:210-217`, `:320-322`);
  `CardHasRoom` is said of what does fit at that size (`FitsAtSmallest`).
- A rail that grew after it was measured folds while on screen (`FoldsOncePassed` is about one that did
  not grow). Widening a card loses the focus
  (`MatchCard.tsx:239-240` says that it is kept), and its target field is filled once.
- A change of theme between a tab's first drawing and its subscription is lost
  (`theme.ts:109-155`).

## 7. Not modelled yet, and the plan

In this order; the number of runs stays at one per distinct question.

1. Proofs: what a browser of `EventStream` misses without `doubt`.
2. `ConnectionSupervisor` with the adapter's retries and the watchdog, implementing the
   connect and disconnect events of `SourceRecovery`.
3. The writing of the secret file, and the rate limiters of login and setup.
4. Pure algorithms as operators: term matching, display grouping, back-off, recipients of a
   match, with reference definitions.
5. `ListenerPoll` composed with `ReloadMailbox`, and `LiveFeed` with `EventStream` and
   `MatchWatcher`: today each takes the other's interface as actions of the environment.

Left out for good: text processing of prices and titles in messages, wording, layout and
animation, generated types, demo data, backup files, migrations, installation scripts
(reasons in `PROJECT.json`).
