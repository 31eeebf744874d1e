# TLA+ models of hk-transportation-mcp

This directory holds TLA+ specifications of the Hong Kong transportation server
and its clients, the TLC configurations that check them on small instances, and
proofs for TLAPS. Source paths below are relative to the repository.

- [System inventory](#system-inventory): parts, state, interaction, what is hard
- [Modules](#modules): what models what
- [Runs](#runs): what TLC checks, the bounds, fairness
- [Where the code falls short](#where-the-code-falls-short): what the properties except
- [Proofs](#proofs): what holds for every value of the constants
- [Not modelled](#not-modelled) and [plan](#plan)

To run one: `tlc -config WaSender.cfg MCWaSender`, `tlapm WaSender_proofs.tla`.
`PROJECT.json` lists components, runs, mutants, the map from definitions to
source lines, findings, hazards and theorems.

## System inventory

| Part | State it keeps | Operations | Hard parts |
|---|---|---|---|
| WhatsApp sender `internal/whatsapp/sender.go` | Redis list `wa:queue`, key `wa:last_sent`, keys `wa:result:<id>`; one goroutine per pod | SendMessage, processQueue, waitForSlot, doSend, Close | several pods on one queue, clocks of several machines, retries, lost answers, crashes, a Redis without persistence |
| WhatsApp handler and history `internal/whatsapp/handler.go`, `internal/chat/repository.go`, `internal/chat/ai.go` | table `chat_messages`, field `AIClient.sendFunc` | a goroutine per webhook message: load, model and tools, save twice, reply, compress | overlapping turns of one chat or of several, READ COMMITTED, errors that are only logged |
| Feed sync `internal/sync/sync.go`, `cmd/sync` | tables `routes`, `route_stops`, `bus_stops`; shared maps of a run | FullSync: per operator routes, route stops, stops; Reload; graph build | goroutines that leave stops to each other, partial batches, cancellation, deadline |
| Operator clients `internal/busapi` | GMB route ids and stop names; Redis set `gmb:failed_stop_ids` | fetch of routes, route stops, stops, ETAs | skipped failures, retry of failed stops in the next run |
| Transit graph `internal/geo/index.go` | tables `transit_node_map`, `transit_edges` | BuildTransitGraph, FindTransferRoutes | four autocommitted statements against three, several builders |
| Stop index and planner `internal/geo`, `internal/service` | three maps under a RWMutex | Reload, LoadFromDB, look-ups with database fallback, transfers in memory and by pgRouting, grouping | fallbacks write after the lock was released; decomposition of paths |
| Rate limiter, caches `internal/ratelimit`, `internal/cache` | Redis sorted sets, JSON values with TTL | Allow, GetJSON/SetJSON | sliding window over several clocks, fail open |
| Frontend chat streams `frontend/app/api/chat`, `frontend/lib` | active stream id per chat in Redis, one MCP client per server, a rate limit | POST chat, GET stream | set and clear of the id race; one client for all requests, made by whoever comes first |
| Mobile chat `mobile/src/contexts`, `app/(transport)`, `app/history`, `hooks/useChatSessions.ts`, `lib/db.ts` | per tab: current chat, pending messages, a screen; SQLite sessions | open, send, tool answers, debounced save, delete | callbacks that outlive the chat they belong to; two tabs on one session |
| Arrival and route cards `frontend/app/page.tsx`, `components/chat-messages.tsx`; mobile `chat.tsx`, `components/chat`, `components/arrivals`, `hooks/useArrivalsRefresh.ts` | override, fetched arrivals and routes, look-ups started, stored chat, iOS widget | tool calls, refresh every 30 s, send, clear, reload | four sources for one card; answers after a clear |
| Live activity `mobile/src/lib/live-activity.ts` | `running`, `refreshTimer`, `trackedParams`, stored copy; iOS keeps the activity | start, refresh, stop, restore | awaits inside each; kill of the app |
| Dictation `mobile/src/hooks/use-voice-input.ts`, `VoiceInputSheet.tsx` | status, transcript, session number; the native recognizer | start (two awaits), stop, reset, events, edits | late events, overtaken starts, the language changes under it |
| Near by and history screens `mobile/src/app/nearby`, `app/history`, `useGeolocation.ts` | copies of the table `route_tracking` taken at focus | focus, track, delete, locate | stale copies, names that depend on the language |
| MCP tools, REST, auth, config, OSM | nothing, or a cache | request in, answer out | little |

Interaction: a webhook starts a turn (handler), which reads and writes the
history (repository), asks the model (AI client), whose tools read the stop
index and may call the sender, and replies through the sender. The sync job
writes the tables the server reads, directly and as index and graph; server
starts rebuild the graph too. The frontends talk to the server over HTTP/MCP.
In the app, the chat, the cards, the route screens and the live activity share
the chat's messages, the tracked trip, the table `route_tracking` and the
language.

What makes the parts correct:

- sender: a message is sent at most once, a nil return means sent, slots keep
  their distance, nothing blocks for ever;
- handler and history: the reply goes to the right user, the history is bounded
  and loses nothing without reason, every message is answered;
- sync: tables stay consistent with each other whatever fails; success means
  complete; what failed is retried;
- graph: edges never join stops that no route or walk joins; complete when
  builds are over; queries answer for the stops they were asked;
- chat streams: a running stream can be taken up again; a client that failed is
  not used again, and one that works is shared;
- mobile chat: a session stores its own turns and all that was shown; a waiting
  tool call is being worked on;
- cards: a card shows the arrivals of its own call; spinners end; what was
  cleared stays cleared;
- live activity: what the lock screen shows is what the app tracks, with the
  arrivals of its own trip;
- dictation: the microphone is never open unseen; each word is written once;
- screens: a copy of the counts is the table when its screen is looked at.

## Modules

Every module keeps control (guards, early returns, error paths, order of calls)
and reduces data to what the properties tell apart. Mutated forms of
definitions (named `<Definition>_<Mutation>`, marked "mutant") stand beside the
definitions; nothing refers to them.

**WaOutbox** is what callers of the sender rely on: a message is new, pending,
delivered or dropped, its caller is told at most one outcome, `ok` only of a
delivered message.

**WaSender** is `sender.go`. `queue`, `gate`, `outbox` are the Redis keys;
`caller`/`left` say where each SendMessage call is and how much of its timeout
is left; `pc`, `hand`, `tries`, `wait`, `verdict` are the goroutine of each pod.
Actions: `SendMessage`, `AwaitResult`, `TimeOut`, `WaitFails` (the call);
`Dequeue`, `WaitForSlot` (the clock is read), `AcquireSendSlot` (the script has
run: `Granted` with `TakeSlot`, `Denied`, or the call failed: `Ungated`),
`Wake`, `Request`, `Reply` (`Throttled`, `Answered`), `Retry`, `Publish`, `Stop`
(the loop); `Close`, `Start`, `Crash`, `RedisRestart`, `Tick`. A request is two
steps, since WaSenderAPI decides before its answer arrives, and the answer may
be lost. So is a call of the gate: up to `MaxLag` may pass between the reading
and the script (`read[p]`), and `gate` remembers how late the reading was that
it holds. The pipeline of a result may break before or between RPUSH and EXPIRE;
what it leaves without a TTL is in `torn`. Time is discrete: ages and countdowns
saturate, a pod's clock offset is the constant `Skew[p]`. No time passes between
the script and the end of waitForSlot, nor from there to the first request.
Crash keeps `closed` until `Start`.

**WaChat** is the life of a turn: `Receive`, `Load`, `Guard`, `Ask`, `SendTool`,
`NextRound`, then the transactions `Begin`, `Delete`, `Commit`, `Rollback` of
SaveMessage (twice) and CompressMessages, `Reply`, `Count`, `Reload`,
`Summarise`, and `Crash`. A statement sees what is committed when it starts; a
DELETE waits for transactions that delete the same rows. The model's answers are
arbitrary. `sent`, `met`, `saved`, `trimmed`, `summed` are history variables.

**FeedSync** is FullSync with one goroutine per operator: `Routes`,
`RouteStops`, `FetchStops` (bus operators), `LoadRetries` and `FetchGmbStops`
(minibuses), `Dedupe`, `Save`; `Begin`, `Finish`, `Interrupt`, `Crash`,
`RedisRestart`. A failing upsert leaves any subset behind (batches are separate
statements). A fetch may leave out any line or stop. A line is an operator's
route direction; its code is what FetchRouteStops is told, its region is not.

**TransitGraph** is BuildTransitGraph in its four statements (`Truncate`,
`PopulateNodes`, `PopulateRoutes`, `PopulateWalks`, or `Fail`), run by
`StartSync`/`Upsert` and `StartServer`, and FindTransferRoutes in its three
(`ReadFrom`, `ReadTo`, `FindPath`/`FindNothing`). Node ids are any numbering of
the stops, as SELECT DISTINCT promises no order. FeedSync and TransitGraph meet
in the tables `bus_stops` and `route_stops`: TransitGraph lets a sync write any
subset in any order, which covers every run of FeedSync.

**ChatStreams** is a POST from `Post` (rate limit, text) and `Classify` (is it
about buses) over `GetMCPClient`, `Created`, `ToolsFail` to `Stream` and `End`,
with `CreateNewResumableStream`, `SetActiveStreamId` and `ClearActiveStreamId`
as steps of their own, since nobody awaits them; `Expire`, `Resume` (GET), and
the faults `Break` (the MCP server forgets its sessions) and `Crash`. A
classification that fails counts as about buses. What resumable-stream keeps
(`sentinel`) is modelled from its use.

**MobileChat** has a provider per tab, which outlives the screens opened in it.
`SetChatId`, `Mount`, `Show` and `Left` are the hand-over of a chat to
`useChat`, with the pending messages; `OpenNew`, `OpenBlank`, `OpenStored`,
`NewChat`, `Back` the ways in and out; `Send`, `Stream`, `OnToolCall`, `Output`,
`Finish`, `Fail` a turn; `Observe` and `Save` the debounced save, `Delete`,
`Kill`. A list of messages is the set of its turns and how far the last answer
is. `ChatInput`, `Tappable` and the screens say which control is there to tap.
External, from its use: useChat keeps one chat and drops it when the id changes;
addToolOutput reaches the last message only and sends again when all calls are
answered; the look at open calls runs once, when a screen mounts; the history
tab has a provider of its own. Continue opens any session here (the code: the
latest).

**ArrivalCards** is either client, chosen in `CardsInit`. `HandleSend`, `Call`,
`WebCallArrivals`, `MobileCallArrivals`, `CallRoute`, `Chunk`, `CardsFinish` are a
question and its answer; `Refetch`/`Refetched` the 30 s refresh with `Refresh` and `UpdateWidget`
as its effects; `Loaded` and `Looked` (`GetRouteInfo`, `Sweep`) the loads beside
the chat; `WebClear`, `MobileClear`, `Reload`. `WebDrawn`, `MobileDrawn`,
`CardOf`, `RouteCard`, `Page` are what is drawn. Abstractions: one answer
streams at a time; React Query's cancellation and garbage collection are left
out; an answer without stops counts as none; after a clear the page stays on
the landing screen even if late chunks bring messages back. The maps are left
out (see [Not modelled](#not-modelled)).

**LiveActivity** is `live-activity.ts` step by step: `StartTracking`,
`EndActivities` and `Request` (the native start, Swift), `Started`,
`CountFails` (incrementRouteTracking throws after tracking has changed) or
`StartFailed`, `StopTracking`, `Forget`, `Stopped`; `Tick`, `NoAnswer`,
`Answer`, `Update` (a refresh); `Open`, `Close`, `Toggle` of the route screens;
`ShowLiveActivity` of the chat; `Write`, `ReadStored`, `RestoreTracking`,
`StorageFails`, `Launch`, `Kill`, `Dismiss`. Storage carries out writes in
order, later, or fails them, which nobody hears of. `unstored` remembers that
the last change was not stored.

**I18n** (the locale, read once at start), **VoiceInput** (the hook, its sheet
and the native recognizer, whose events arrive later and in order and which may
take a word back: `TakeBack`, a result without text) and **Nearby**
(the screens that copy `route_tracking`, the location with its permission and
watch) are composed by **Device**: they share the language, a sheet covers the
transport tab, and a change of the language restarts an open sheet. A second
sheet, hidden in the other tab, is left out, and so is the volume.

`MC*` modules hold the instances, `*_proofs` modules the proofs; those of
MobileChat and ArrivalCards are both in Chats_proofs.

## Runs

| Run | Instance | Shows |
|---|---|---|
| `sender` (WaSender.cfg) | 2 pods, clock of one 1 ahead, 2 messages (symmetric, sent from the same pod), 1 retry, 1 fault, one pod may close; interval 2, waits, timeouts, TTL and way to Redis (MaxLag) 1 | AcceptedAtMostOnce, OkMeansAccepted, SlotSpacing; RefinesOutbox |
| `sender_live` (WaSenderLive.cfg) | 1 pod, 2 messages, the rest as above, fair | CallsReturn, QueueDrains, ResultsExpire |
| `chat` (WaChat.cfg) | 2 turns of one chat, window 2, 1 tool round, 1 fault | WindowBounded, TrimmedHaveSuccessors, QuietChatsForgetNothing |
| `two_chats` (WaTwoChats.cfg) | 1 turn in each of 2 chats, 2 tool rounds, 1 fault, fair | CrossTalkNeedsOverlap, EveryTurnReplies |
| `chat_cross_talk` (WaCrossTalk.cfg) | 2 chats | violated: SendToolRepliesToUser |
| `graph` (TransitGraph.cfg) | 3 stops, a route through all, one walk, a sync and a server, 1 fault, repeated queries | EdgesMatchNodes, CompleteWhenQuiet, AnswersUnlessRebuilt |
| `feeds` (FeedSync.cfg) | a bus line and a minibus line sharing a stop, 2 stops, 1 fault, unbounded number of runs, fair | RouteStopsHaveRoutes, SuccessIsComplete, FailedStopsRemembered, NamesLostOnlyOnRetry, RunsEnd |
| `streams` (ChatStreams.cfg) | 3 requests, 2 of one chat, limit 2, 1 break of the MCP session, 1 crash | ResumableUnlessOverlapped, IdsAreKnown, ClientIsShared, FailedClientIsDropped |
| `mobile_chat` (MobileChat.cfg) | 2 tabs, 2 sessions (symmetric), 2 turns, 1 kill | StoredIsOwn, SavedTurnsStay, ShownIsStored, OpenCallsLive |
| `cards` (ArrivalCards.cfg) | web and mobile, 3 arrival calls (one with stops), 2 route calls that ask the same, symmetric, 1 reload | ShownIsLatest, RouteCardsAwaited, ClearedStaysCleared, WidgetFollows |
| `tracking` (LiveActivity.cfg) | 2 trips of one route, 1 screen, 2 calls at once (symmetric), 2 timers, 2 refreshes at once (1 after a kill), 2 writes, 1 kill; counts and storage may fail at any time | QuietMeansTracked, OwnArrivalsUnlessCrossed, ButtonTellsTruth |
| `device` (Device.cfg) | 2 languages, 2 services (one named alike in one language only), 2 words, 5 events, 2 starts, 2 trackings | MicIsShown, SpokenOnceAndKept, CopiesMatchTable |

Type correctness is proved (see below); `mobile_chat` and `cards` check it too.

**Why the bounds are enough.** Sender: two pods and two messages are the least
with which a message can be in two hands, two pods can compete for a slot and a
message can queue behind a retry; one fault can hit any step, and lost answers
and 429s are not counted as faults. A fault bound of one is a limit for TLC
only: the safety properties are proved for any. That both calls are made on one
pod loses nothing to the loops, which pop any message on any pod. A way to Redis
of 1 is half the interval: long enough for a slot to come early. Chat: a window of two is filled
by a single turn, so trimming and compression happen in the first turn already.
Graph: with three stops a renumbering can exchange two stops and keep the third,
and route and walking edges share an end. Feeds: one shared stop is what it
takes for one goroutine to skip what another claims; runs repeat without bound,
so retries cross runs. Streams: two requests of one chat can overlap, a third
shares the client with both; a limit of two refuses one. Mobile chat: two
sessions and two tabs are what it takes to confuse chats and to contest one;
behaviours with the history tab have one turn and no kill (`Bound`). Cards: three
calls in one behaviour, fewer where a route is among them (`FewCalls`): an
earlier card, the latest, and one of another kind. Tracking: two calls in
flight show every pair of operations beside each other, and a screen and the
chat can both start; with two refreshes under way at most (`FewRefreshes`), one
can be of each trip; after a kill there is one. Device: the halves share the language only and are used in
turn (`InTurn`): dictation before the location is known, tracking after the
location and the language were read; inside dictation two overlapping starts and
five pending events cover a take that ends while the next begins (with four, a
late result never met the take after it), and the last word is spoken when no
start is in flight. For the parts
with a theorem the bounds are TLC's limits only.

Where the system may stop by itself (all turns done) the configuration says
`CHECK_DEADLOCK FALSE`; elsewhere deadlock is checked.

**Fairness.** WaSender: weak fairness of the clock, of each call's AwaitResult
and TimeOut, of each pod's worker, and of Start (Kubernetes restarts a pod).
The worker's fairness includes the answer of WaSenderAPI, although `http.Client`
there has no timeout: a request that hangs for ever would stop the queue.
Starting a call, Close and faults are unfair. WaChat: each turn's goroutine;
the database and the model answer. A turn cannot stay with
the tool send_message for ever: a second call is a stutter of the model, and
NextRound remains enabled. FeedSync: each client's goroutine and Finish; HTTP calls there
time out after ten seconds and retries are bounded.

The runs of the clients check safety only: their code promises nothing about
when a person taps, a stream ends or iOS answers. That spinners and open tool
calls are waited for is stated as an invariant (what they wait for is in
flight) instead.

## Where the code falls short

One run ends in a violation of what the source says: `chat_cross_talk`.
`AIClient.sendFunc` is shared by all turns (`ai.go:106`), so `send_message` may
write to another user. CrossTalkNeedsOverlap says when at the least.

Other properties name the exact exceptions under which the code keeps them, so
that each is as strong as the code allows:

- Retries after a 429 bypass the send gate (`sender.go:290`): SlotSpacing is
  about the slots, not about every attempt.
- The gate compares readings of the clock taken before the script's way to Redis
  (`sender.go:222,225`). If a call was slow, the key holds an old reading, and
  the next slot may come early by that way: SlotSpacing counts the interval from
  the reading, not from the grant.
- RPUSH and EXPIRE of a result are a pipeline, not a transaction
  (`sender.go:209-212`): if it breaks between the two and nobody waits for the
  result, the key stays in Redis for ever. ResultsExpire excepts it (`torn`).
- Compression deletes rows stored after the summary's input was read
  (`repository.go:76`): QuietChatsForgetNothing excepts overlapping turns.
- Node ids read before a rebuild are used after it (`index.go:593`):
  AnswersUnlessRebuilt.
- Route stops of a minibus code used in two regions are those of the first
  (`gmb.go:450`): the other region's route never gets stops, without an error.
- A stream's clear deletes the id of a newer stream of the same chat, and a
  short stream's clear may come before its own set (`chat/route.ts:182,198`):
  ResumableUnlessOverlapped excepts the first; the second leaves an id that
  answers 204 until it expires.
- Any error of a POST, of the rate limiter or of the body too, drops the shared
  MCP client (`chat/route.ts:203`), and no client is ever closed:
  ClientIsShared counts them.
- A session opened blank where messages were left pending gets them
  (`ChatStreamContext.tsx:311`): StoredIsOwn excepts it. A session open in two
  tabs keeps the last save (`db.ts:68`): SavedTurnsStay. A screen that came over
  another chat does not resume its open calls (`chat.tsx:164`): OpenCallsLive.
- The override of a refresh hides the arrivals of a later call of the same
  answer (`page.tsx:152`): ShownIsLatest. Loads that end in the other order
  leave the widget behind (`ChatStreamContext.tsx:158`): WidgetFollows. A chat
  cleared while it streams forgets the data of a route but not that it asked
  (`page.tsx:241`), so a card may spin for ever: RouteCardsAwaited.
- Overlapping starts leave a second timer or an activity that nobody ends
  (`live-activity.ts:75`), and a refresh reads the stop before its await and the
  route after it (`live-activity.ts:104`): QuietMeansTracked and
  OwnArrivalsUnlessCrossed say when not.
- A start whose count throws answers false after it changed what is tracked
  (`live-activity.ts:57-66,77-80`): the activity stays, with no stored copy and no
  refresh, and the button offers to start it. Errors of AsyncStorage are
  swallowed (`live-activity.ts:29,69,136`), so that a restart restores another
  state. QuietMeansTracked (`unstored`, `clean`) and ButtonTellsTruth (`stale`)
  except what follows.
- A late "aborted" or "end" of the take before sets the status to "stopped"
  while the next is starting (`use-voice-input.ts:94,100`; the comment at line 70
  has the session number guard against it, but the handlers do not read it), so
  the button can start twice, and a failure of the second start hides the first:
  MicIsShown and SpokenOnceAndKept except what follows.
  Nor do results name their take (`use-voice-input.ts:77`): a final result that
  comes after the next take was asked for brings a word that is on screen a
  second time. It takes a start that fails while the result is on its way, after
  the language arrived or a stray end set the status to "stopped".
  SpokenOnceAndKept excepts it (`late`).
- A final result without text clears the word on screen and appends nothing
  (`use-voice-input.ts:78-82`): the user loses a word he has seen.
  SpokenOnceAndKept allows that for the one word that was not final.
- Counts are kept under the localized name of the last stop, or no name when
  the stops did not come, and looked up under the destination
  (`nearby/route.tsx:182`, `nearby/index.tsx:152`): CopiesMatchTable is about
  the copies, whatever the names.

## Proofs

TLAPS checks these for every value of the constants that meets the assumptions
named in the modules, with the SMT, Zenon and PTL backends. Each module
has a theorem of type correctness (TypeCorrect, for MobileChat ChatsWellTyped,
for ArrivalCards CardsWellTyped).
Every invariant used below was checked by TLC on the run's instance first.

- `WaSender_proofs`: Custody, AtMostOnce, NilIsHonest. The
  invariant is `IInv` of WaSender: beside the properties it says what each
  place in the loop knows (`Phases`), that a message not yet submitted is
  nowhere (`Fresh`), and what is known of a message's acceptance in each phase
  (`Fates`). At-most-once is not inductive without Fates: it needs that a
  message in the queue or before its request was never accepted, which rests on
  one custodian. SlotsAreSpaced uses `GateInv`: as long as an interval has not
  passed since the reading by which the last slot was granted, the key lives,
  and its age and the lateness of the reading it holds add up to that time. It
  holds because the key lives for two intervals from its SET.
  Refinement, `Spec => Outbox!Spec`, is there too: each action maps to Submit,
  Deliver, Drop, Report or a stutter, and IInv supplies what each step needs.
- `WaChat_proofs`: CrossTalkBounded, WindowHolds, OnlyTheOldGo,
  QuietChatsRemember. For the first the invariant relates `sendFunc` to the
  turns that are working: a turn in flight sees its own chat's function or that
  of a turn it has met. The others share `WInv`. What a DELETE will remove was
  chosen by an earlier SELECT, so the invariant speaks of the rows a transaction
  holds as victims: each has MaxMessages newer ones saved (`Victims`). The bound
  is not inductive, since a commit acts on an old view: for every i, the turns
  whose commit would now leave MaxMessages + i rows or more, and i, together are
  no more than the turns of the chat (`Spread`).
- `TransitGraph_proofs`: EdgesAreSound, AnswersAreSound, QuietGraphIsComplete.
  Edges join mapped nodes because only one successful numbering exists between
  two truncations and a truncation empties both tables; the numbering is
  injective. For completeness, `Progress`: unless a build failed, and while none
  is between its upserts and its TRUNCATE, the graph is empty with a builder
  about to number it, or has all but the edges some builder is about to insert.
- `FeedSync_proofs`: RoutesComeFirst, SuccessIsHonest, NoStopForgotten,
  NamesSurvive. The invariant says that a
  goroutine fetching route stops has its routes in the table, and that while no
  error is recorded every claimed stop is stored or its owner has yet to save
  it. That the region a code resolves to exists is by well-foundedness of the
  naturals. For the last two, which are not inductive as between fetch and
  save a stop is only in a goroutine's hands, `KInv`: in the midst of a run each
  stop of a stored minibus route is stored, to be retried or on its way between
  the two (`Midway`), what was claimed is stored or about to be, also in a run
  that will fail (`ClaimKept`), and only a retry brings a stop without names
  (`BlankIsRetry`).
- `ChatStreams_proofs`: ResumptionIsSound, IdsAreSound, SharingIsSound,
  FailureDropsClient. For the first the invariant (`Paired`, `Noticed`, `Named`)
  follows the id of a stream that never overlapped from its registration to its
  end, and says that no clear of another request of its chat is on its way. For
  the third, each client beyond the first is paid for by a failed request or a
  crash (`Paid`); for the fourth, who was given a client that failed, and when
  (`Given`).
- `LiveActivity_proofs`: QuietIsTracked, ButtonIsHonest, ArrivalsAreItsOwn. The
  invariant `Quiet`
  says what a start or stop that runs alone has done by each of its steps: one
  activity at most (`Sole`), the write on its way unless counting or storage
  failed (`Agreed`). For the arrivals,
  `Own`: the start of an activity that nothing crossed is about to take over, or
  is over with no later one yet at ending it (`Follows`), and whatever refresh
  is on its way or may begin is of its trip (`Fed`).
- `Chats_proofs`, of MobileChat: SessionsStoreTheirOwn, StoredTurnsStay,
  NothingShownIsUnsaved, CallsShownAreLive. None is inductive. A save that waits
  is of what shows, in the tab's session (`Timed`). `Owned` then follows the
  turns: one of another session, shown in a tab or left in pendingRef, is stored
  in its own (`Guests`), so that saving it elsewhere is refused for its message
  ids; a session held by one tab stores no more than that tab shows
  (`Covered`), so that the save that replaces its rows loses none; and two tabs
  hold one session only once it is contested (`Shared`). `Guarded` says that
  the count of loaded messages can equal the shown one only while the last
  question has no answer.
- `Chats_proofs`, of ArrivalCards: CardsShowTheirOwn, RouteCardsAreAwaited,
  ClearedStaysGone, WidgetIsTold. Every step that changes the messages is one of
  four: an empty chat, a reload, an answer to a query, and the writes of a stream
  or question (`Writing`). The invariant `CardsInv` says that each list, mark and
  override holds calls that were made (`Mades`), so that a new call is not yet
  cleared, loaded or overriding; that useArrivalsRefresh observes the query of the
  card that shows (`Watch`) and has seen what is known of it (`Sync`), from which
  a commit that keeps the override refreshes nothing; that a route marked as
  started has its data or is looked up, and is marked only while shown or once
  cleared (`Awaited`); and what the widget was told (`Told`).
- `Device_proofs`: MicIsHonest, WordsComeOnce, CopiesAreTrue. An open microphone belongs to the
  newest start, made under a visible sheet in its language; any other start in
  flight is overtaken and will return at its guard (`Own`, `One`). For the words,
  the events on their way are a path from the word on screen that awaits its
  final result to the one the recognizer has not finished (`Queued`): a final
  result is then of the word that shows, or of none where that word was taken
  back, and a new word comes when none does.
  `WordsInv` has this path, that new words are later than all that are seen
  (`Past`), and that the draft is the base with the takes after it unless edited
  (`Kept`); the attempt to prove it is what found the exception above. A copy equals
  the table unless something was counted since; that no equal number of entries
  hides a difference needs that both are finite (`Finite`).

Only model-checked: the liveness properties, which are out of the prover's reach.
Every other property of a passing run is proved.

## Not modelled

- In modelled parts, server: the connection pool and the retries of go-redis (a
  lost reply is an error here); `StartPeriodic` (nothing calls it); changes of a
  feed between runs (rows are never deleted, so old and new sequences would
  mix); FetchETA and LoadRouteMappings of the clients; costs of paths.
- In modelled parts, clients: several frontend servers and the conversion of
  chunks (`ui-stream-compat.ts`); the title a session gets from the server,
  whose late answer may set the header of a newer chat (`chat.tsx:130-162`); a
  question asked on the web's landing page while a cleared answer still streams
  (`page.tsx:413`); the sheets of the mobile chat, which are copies taken at the
  tap, so that refreshing an arrivals sheet does not change it
  (`chat.tsx:268-306`); scrolling, animations.
- The maps of both clients (`chat-messages.tsx:69-240`, `useMapData.ts`): they
  show the stops of every tool output of the chat, deduplicated by coordinates
  on the web, and the web's leaves out the refreshed stops of a card that
  carries a query (`chat-messages.tsx:116`).
- Whole parts: MCP tools, REST handlers, authentication, configuration, schema
  and OpenStreetMap clients keep no state that several steps share. The stop
  index, the planner and the rate limiter are in the plan.

## Plan

In this order, each with its theorem where one is worth it:

1. **GeoIndex**: the three maps, Reload, LoadFromDB and the fallbacks of
   RoutesForStop, StopsForRoute, GetStop that write after unlocking. Properties:
   what a look-up returns was true of the database at some moment of the call
   or of the last reload; what a fallback stores is not older than the last
   Reload forever. Abstract specification: an atomic map.
2. **Planner**: decomposePath, countBusTransfers, legSignature and
   FindTransferRoutesInMemory as operators, compared with a reference
   definition over all paths of bounded length.
3. **RateLimit**: the sliding window script; never more than the limit accepted
   in a window of one clock; what Redis loss and skewed clocks cost.
4. Composition of LiveActivity with Nearby through `route_tracking`, and with
   MobileChat through the tool `show_live_activity`.
5. Feeds that change between runs, and what the old rows of `route_stops` then do.
