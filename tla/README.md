# LiloCharge: models, checks and proofs

LiloCharge runs an EV charging network: a mobile app, a NestJS API with PostgreSQL and Redis
behind it, and chargers that keep a WebSocket open to the API and speak OCPP 1.6. This directory
holds TLA+ models of the API (money, charging sessions, chargers, the state of stations, accounts,
what users write, the import of stations) and of the mobile app (the map, favourites, the
onboarding, live updates, push notifications, the HTTP client), TLC configurations that check them
on small instances, and TLAPS proofs about both for every value of the constants.

The API is one Node.js process and the app one React Native process. Neither has data races, but
every `await` is a point where any other request may run, where the awaited call may fail or its
answer come late, and where the process may die. Almost every property below is about what another
request, a late answer, a failure or a restart can do there.
Paths are relative to `src/apps/api/src`, those that start with `mobile/` to `src/apps/mobile/src`
(without `mobile/`), unless they say otherwise.

1. [The system](#1-the-system)
2. [The modules](#2-the-modules)
3. [What the runs check and show](#3-what-the-runs-check-and-show)
4. [Bounds](#4-bounds)
5. [Fairness](#5-fairness)
6. [What is proved](#6-what-is-proved)
7. [Where the code and its documents disagree](#7-where-the-code-and-its-documents-disagree)
8. [What is not modelled](#8-what-is-not-modelled)
9. [Plan](#9-plan)

## 1. The system

| Component | State it keeps | Operations | Talks to |
|---|---|---|---|
| Wallet (`wallet/`) | `wallets.balance`, `wallet_transactions` | topUp, deductBalance, refundBalance, checkSufficientBalance | ArCa and Idram, PostgreSQL transactions |
| Session payments (`payments/`) | `payments` (one row per session) | pre-authorize, capture, refund | ArCa, Idram, Apple Pay, Google Pay, notifications |
| Payment methods (`payments/`) | `payment_methods` | exchange a token, wallet as default, find the method of a session | Apple Pay, Google Pay |
| Payment gateways (`payments/*.client.ts`) | none; the providers keep books | one HTTP call: settings, request, answer, status | the providers |
| Charging sessions (`sessions/`) | `sessions` | createSession, startSession, stopSession, history, receipts | payments, wallet, notifications |
| OCPP transactions (`ocpp/ocpp.transactions.service.ts`) | `sessions`, the next transaction id (in memory) | StartTransaction, StopTransaction | payments, remote starts, meter values |
| OCPP connections (`ocpp/ocpp.server`, `registry`, `routing`) | registry of connected chargers (in memory) | connect, boot, close, heartbeat | every handler and remote command |
| OCPP remote commands (`ocpp/ocpp.remote-*`) | tracked remote starts (in memory) | remoteStartTransaction, remoteStopTransaction, link, prune | registry, charger |
| Metering (`ocpp/ocpp.meter-values`, `sessions/session-monitoring.service.ts`) | `meter_values` | store samples, publish a live update, totals at StopTransaction | the gateway, the cost calculator |
| Live update rooms (`sessions/session-monitoring.gateway.ts`, `mobile/features/sessions/`) | Socket.IO rooms, listeners | subscribe, unsubscribe, connect, drop | the app |
| Station status (`connectors/`, `stations/`, `redis/`) | `connectors.status`, `stations.status`, Redis | updateConnectorStatus, searches, details, pricing | Redis |
| Authentication (`auth/`) | `users`, one-time codes and refresh sessions in Redis | request and verify OTP, login, refresh | Redis |
| Reviews, favorites, problem reports, users | rows of one user | create, update, delete, delete the user | PostgreSQL, SMTP |
| Vehicles (`vehicles/`) | `vehicles` | create, update, delete, detect the connector | PostgreSQL |
| User status reports (`connector-status-updates/`) | reports of a connector | report, find the most confident one | PostgreSQL |
| Notifications (`notifications/`, `mobile/features/notifications/`) | push tokens, the app's runtime | register, unregister, send, deactivate, handle | Firebase |
| Station import (`station-import/`) | `stations`, `connectors` | upsert from a CSV file or Open Charge Map | PostgreSQL |
| Station map (`mobile/features/stations/`) | list, filters, sheet, camera | type, filter, refresh, open, close | the API |
| Favourites (`mobile/features/favorites/`) | a list in the device's storage | toggle, remove, listen | the map |
| Onboarding (`mobile/features/onboarding/`) | stack of screens, session in memory | register, verify, log in, vehicle, payment | the API |
| API client and cache (`mobile/api/`) | cache entries in storage | request, interceptors, invalidate | the API |

What is hard about each, and what makes it correct:

- **Wallet.** A top-up pays at the gateway first and credits the wallet in a database transaction
  afterwards; two transactions at READ COMMITTED read the same balance and write absolute values.
  Correct: the balance never leaves its range, equals what the history says, no credit without a
  captured charge, no charge without a trace, and no update lost.
- **Session payments.** The gateway call lies between the read of the payment row and its
  unconditional update; answers get lost, users retry, two calls overlap. Correct: the row never
  claims what the gateway did not do, a retry does not take money twice, no hold is lost.
- **Charging sessions.** The app and the charger both stop a session, requests overlap, the user
  changes the payment method on the way, and every payment step may fail. Correct: nobody charges
  without backing, a session moves along the lifecycle graph, the wallet pays only for what is
  over, a stop collects the cost.
- **OCPP.** Sockets are replaced before their close events arrive, commands are retried on a
  client that may be gone, the charger's StartTransaction races the command's answer, a restart
  wipes memory and restarts ids from the clock. Correct: commands go to open sockets, a link names
  the right session, is final and is unique, an accepted start is not forgotten early, ids stay
  unique, a command returns.
- **Station status.** One fact in three places (rows, column, cache) written one await after the
  other. Correct: the three agree when nothing raced, and in the end the cache catches up.
- **Payment methods.** A choice clears all defaults and then sets one, in two writes; a session may
  look the method up in between. Correct: one default, the last choice, and sessions charge it.
- **Metering.** Readings are stored while others are published and while the totals are computed;
  aggregate, latest sample and cost are separate reads. Correct: nobody is billed for more than was
  measured, the bill is not below what was shown, updates do not go back.
- **Rooms.** Events are buffered without a connection and lost when it drops; the client subscribes
  once. Correct: a client is in the rooms that it listens to and no others.
- **Authentication.** Two requests verify one code or rotate one token at a time. Correct: accounts
  are unique, an exchanged token is dead, an undisturbed user holds the token that is accepted next.
- **What users write.** A row is looked for and then written; the mail of a report comes after the
  report. Correct: one review each, answered reports are mailed, deleting a user takes nothing that
  others read, a vehicle's connector fits it.
- **Notifications.** One phone serves one user after another, and its registrations may overtake
  each other. Correct: a listening phone is reachable and hears what is for its user only.
- **Station import.** A script of its own process that is cut off between upserts while chargers
  report. Correct: what is imported is complete after the next run and leaves the rest alone.
- **Mobile.** Answers come late, when the screen shows something else or is gone. Correct: the map and
  its sheet show what is asked for, screens agree with the storage, no screen lacks what it needs, the
  outcome of a call and a cached answer are true.

`PROJECT.json` lists the hazards with the line each one bites at and the properties that cover it.

## 2. The modules

```
WalletLedger  <--refines-- Wallet  <-- MCWallet, MoneyProofs
SessionLifecycle  <--refines-- ChargingSession  <-- MCChargingSession, ChargingSessionProofs
                                    | INSTANCE (composition)
                               SessionPayments  <-- MCSessionPayments, SessionPaymentsProofs
RemoteCommands  <-- MCRemoteCommands, RemoteCommandsProofs
     | INSTANCE (composition)
ChargePoints
StationStatus  <-- StationStatusProofs

MCMoney     : Wallet | ChargingSession | GatewayCalls                    <-- MoneyProofs
MCPromises  : Wallet | ChargingSession | RemoteCommands
MCServices  : Auth | PaymentMethods | SessionMetering | UserContent | VehicleProfiles
              | StatusReports | StationImport | ApiCalls  <-- ImportProofs, ServicesProofs
MCMobile    : StationsScreen | FavoriteStations | Onboarding | MonitorRooms | PushNotifications
                                                                        <-- MobileProofs
```

A colon above reads "checks, one part at a time". The parts of such a module share no state in the
code (the layers of `MCMoney` meet in `ChargingSession`, which is a composition itself), so that
interleaving them would multiply the states and show nothing new: the variable `part`, chosen by the
initial state, says whose behaviour it is, and the others rest. A property of the module says
`part = "x" => X!Property`; where several properties of parts make one promise, they are conjuncts
of one named formula.

Every handler is cut at its awaits. A slot (`req[r]`, `call[r]`, `request[r]`, `update[u]`,
`lookup[l]`) holds a request in flight: its `pc` says which await it is at, its other fields what
it read before. Code between two awaits is one action. `Fail` lets any await throw or never come
back; what was written before it stays written. Constant sets of slots bound how many requests are
in flight together, not how many there are. Operators named `Mutant: ...` in their comments are
faulty variants of the definition below them; they are in no specification and serve only to show
that the properties can fail.

| Module | Code | State | Actions |
|---|---|---|---|
| `WalletLedger` | class comment of `wallet.service.ts` | balance, rows | TopUp, Deduct, Refund, each atomic |
| `Wallet` | `wallet/wallet.service.ts` | balance, rows, whether the wallet row exists, the gateways' charges, slots | FindWallet, CreateWallet, ArcaPreAuthorize, ArcaCapture, IdramDebit, TxRead, TxCommit, Fail |
| `SessionPayments` | `payments/payments.service.ts` | payment rows, the gateways' books, slots | PreAuthorize, Capture, Refund and the gateway and save step of each, Fail |
| `SessionLifecycle` | `SESSION_STATE_TRANSITIONS` of `sessions/sessions.service.ts` | status | Move |
| `ChargingSession` | `sessions/sessions.service.ts`, `ocpp/ocpp.transactions.service.ts` | session rows, default method, wallet deductions, slots, and all of SessionPayments | create, start and stop from the app and from the charger, one action per await |
| `ChargePoints` | `ocpp/ocpp.server`, `registry`, `routing` services | sockets, registrations | Connect, Lose, Boot, HandleClose, Restart |
| `RemoteCommands` | `ocpp/ocpp.remote-start`, `remote-stop`, `transactions` services | command loops, tracked starts, ids, clock, sessions, StartTransactions in flight, and ChargePoints | Send, Answer, Fail, Retry, Expire, Lookup, BeginStart, CreateSession, LinkSession, Tick, Restart |
| `StationStatus` | `connectors/connectors.service.ts`, `stations/`, `redis/cache.service.ts`, `packages/shared-types` | connector rows, station column, Redis, updates and lookups in flight | WriteConnector, ReadConnectors, SaveStation, DeleteDetail, ScanListings, PurgeListings, Query, Store, Expire, Fail |
| `GatewayCalls` | `payments/arca.client.ts`, `idram.client.ts`, `apple-pay.client.ts`, `google-pay.client.ts` | one call: kind, settings, step, the provider's effect and answer | Call of each provider, Perform, Decide, LoseRequest, Receive of each provider |
| `PaymentMethods` | `payments/payments.service.ts`, its controller | rows of methods, slots | BeginExchange, ExchangeToken, SetWallet, FindDefault, FindOldest, UseMethod, Abort |
| `SessionMetering` | `ocpp/ocpp.meter-values.service.ts`, `ocpp.transactions.service.ts`, `sessions/session-monitoring.service.ts`, `session-cost-calculator.service.ts` | readings of the charger, stored samples, MeterValues and the StopTransaction in flight, the last live update | Measure, Receive, Insert, ReadAggregate, ReadLatest, ReadLiveCost, Emit, ReadTotals, CalculateCost, SaveTotals, Fail |
| `Auth` | `auth/auth.service.ts` | accounts, stored codes, refresh sessions, tokens given out, slots | one action per await of the four requests, Expire, Abort |
| `UserContent` | `reviews/`, `favorites/`, `problem-reports/`, `mail/`, `users/` services | rows of each, slots | Begin, the assertions, finds and writes of each request, SendMail, DeleteUser, Fail |
| `VehicleProfiles` | `vehicles/vehicles.service.ts` | rows, updates in flight | Create, BeginUpdate, FindVehicle, WriteVehicle, Delete |
| `StatusReports` | `connector-status-updates/` | reports of a connector, merits of users, hours | BeginCreate, ReadMerits, CreateReport, Earn, Tick |
| `StationImport` | `station-import/` with its CSV and Open Charge Map readers | station and connector rows, the script in progress | BeginCsv, BeginOcm, UpsertStation, UpsertConnector, Abort, Report |
| `ApiCalls` | `mobile/api/api-client.ts`, `cache-interceptor.ts` | cache entries, calls in flight, the API's resources, who is signed in | Begin, AddToken, Serve, FailToFetch, ReadBody, Respond, Invalidate, Expire, ChangeSession, Tick |
| `StationsScreen` | `mobile/features/stations/` | search field, filters, list, sheet, camera, requests in flight | Type, Debounce, PickFilter, RefreshTimer, Press, CloseSheet, MoveCamera, AnswerList, AnswerDetail |
| `FavoriteStations` | `mobile/features/favorites/` | the stored list, copies on two screens | Mount, Unmount, Toggle, Remove, RestartApp |
| `Onboarding` | `mobile/features/onboarding/` | stack of screens, the shared session, requests, the API's rows | SendForm, Serve, Lose, Continue, ShowError, Back, SelectGateway, Finish, SkipPayment, RestartApp |
| `MonitorRooms` | `sessions/session-monitoring.gateway.ts`, `mobile/features/sessions/session-monitoring-client.ts` | socket, rooms, buffered events, listeners | Connect, Open, Drop, Disconnect, Subscribe, Unsubscribe, Handle |
| `PushNotifications` | `notifications/notifications.service.ts`, `fcm-admin.client.ts`, `mobile/features/notifications/` | token rows, settings, the messaging client, the app's runtime, deliveries | Initialize, RegisterToken, RefreshToken, Unregister, Cleanup, HandleCall, LoseCall, BeginSend, Multicast, DeactivateInvalid |

Modelling decisions a reader should know of:

- **Isolation.** `$transaction` runs at PostgreSQL's default, READ COMMITTED, because no call and
  no configuration in the repository names another level. `update`, `create` and the commit form
  one step: the row lock is held from the update to the commit.
- **Gateways** (ArCa, Idram) are external. Their own books are kept apart from the API's rows,
  so that "the row says captured" and "the money was taken" can differ. A failed call may have
  been carried out or not.
- **Amounts** are small naturals. `MaxInt` stands for the 32-bit column; a larger sum is refused by
  the database, which is a failure of the request.
- **Callers of payments.** `SessionPayments` alone lets any call come at any time. Most of that
  freedom is used: within the repository nothing calls `refundPaymentForSessionFailure`, and a
  capture of a positive amount never meets an authorized payment, because only charger-started
  sessions get a cost and only app-started ones a hold (finding 3). Its properties are
  therefore about the service as its interface stands, `ChargingSession`'s about the program
  as it is wired today.
- **The wallet inside `ChargingSession`** is one step that may be refused: what happens inside it is
  `Wallet`.
- **Histories.** `abandoned`, `orphaned`, `overlapped`, `checked`, `outrun`, `trusted`, `raced`,
  `disturbed`, `entangled`, `crossed`, `late`, `chosen`, `rotated`, `held`, `imported`, `touched`, `ended`,
  `floor`, `strangers`, `finished`, `refused`, `handled` and the fields `alone`, `outdated` and `steady`
  record what happened; no guard of an action that models code reads them.
- **The app.** A state change of React, the render after it and the effects of that render are one step:
  nothing runs between them. Requests are answered in any order, late, or not at all. What a form
  accepts is reduced to valid and invalid, a payload to the query that it answers.
- **What the other side does.** Each module models one side in full and the other as far as it can be
  seen: `Onboarding` has the rows of the API that its requests need, `ApiCalls` the versions of
  its resources, `PushNotifications` the tokens of the messaging service, `SessionMetering` the
  measurements of the charger.
- **The cache of the app** is installed by no client of the app yet; `ApiCalls` models it in front of
  the client, as its own tests use it.
- **Remote commands** have no caller in the repository yet; the module lets anybody send one. The
  client is looked up once, before the first attempt, as in the code.
- **Cached connector status** (`cacheConnectorStatus`) is written by the code and read by nobody, and
  is left out. The listing keys stand for the nearby and the search keys; a deletion that fails
  half way leaves keys which the history `raced` already covers.

## 3. What the runs check and show

State counts are those of TLC; each run takes less than four minutes.

| Run | Distinct states | Shows |
|---|---|---|
| `wallet_overlap` | violation | `ChainUnbroken` fails when two transactions overlap (finding 1). |
| `promises` | 384,404 | One request at a time, failures included: the refinements `ImplementsLedger` and `ImplementsLifecycle`; a remote start and a remote stop of three attempts: the liveness property `CommandReturns`. |
| `payments` | 1,049,537 | Two calls on one payment in any order with every failure: `RowsAreBacked` (authorized and captured rows are what the gateway did), `RetriesTakeOnce` (the capture of one cost, however often it is repeated), `MoneyIsSettled` (holds are accounted for, a refunded row is settled). |
| `money` | 719,370 | Two overlapping operations of a wallet with every failure: `BalanceInRange`, `HistoryExplainsBalance` (the balance is that of the last row, and each row starts from one that was committed), `CreditsArePaid`, `ChargesAccounted`. Three requests on one session: `ActiveIsBacked`, `MoneyIsTracked` (completed sessions are charged, wallet payments were deducted, holds are known), and the action property `ChargerNeverReopens`. One call of each provider: `ReturnedWasTaken`. |
| `charging_overlap` | violation | `ImplementsLifecycle` fails with two requests (finding 2). |
| `charging_uncollected` | violation | `StopCollectsCost` fails (finding 3). |
| `remote_commands` | 1,669,341 | Two remote starts of two attempts, two StartTransactions, reconnects and restarts: `LinksAreSound` (a link names the session of its transaction, and only one), `StopFindsItsSession`, `RegisteredIsOpen`, and the action property `RecordsAreKept` (links are final, accepted starts stay tracked). |
| `charge_points_stale_close` | violation | `ConnectedIsRegistered` fails (finding 4). |
| `station_status` | 943,787 | Two updates and a lookup: `AggregateAsStated`, `FavoritesMatchMap`, `NoStaleWithoutRace`, and the liveness property `CachesCatchUp`. |
| `services` | 1,585,110 | Two requests of one service at a time: `AccountsAreSafe`, `ChoicesAreKept`, `BilledAsMeasured`, `ContentIsSound`, `ReportsAreBelieved`, `ImportIsComplete`, `AnswersAreTrue`, and the action property `StepsKeepOthers` (live updates go on, content stays, an import touches its rows). |
| `mobile` | 287,185 | Two requests of one part of the app at a time: `ScreensAreCurrent`, `UpdatesReachTheirUser`, and the liveness property `WaitsEnd`. |
| `onboarding_token` | violation | `SignedInIsAuthorized` fails (finding 5). |

Every property of a passing run has a mutant in `PROJECT.json`: a variant of one definition, as a
plausible mistake in the code would make it, under which the same run finds the property violated.
The properties that carry a condition (`overlapped`, `orphaned`, `outrun`, `trusted`, `raced`,
`disturbed`, `crossed`, `entangled`, `late`, `strangers`) are not true without it: the condition names
exactly the interleaving or failure that breaks the guarantee in today's code, and the hazard list
says where.

`money` and `services` turn the deadlock check off, because some of their parts really end: the call
of a provider returns, and what users write is bounded by `MaxRows`, tokens by `MaxRefresh`. The
other runs keep it: there is always a call that may come, a lookup, or a restart.

## 4. Bounds

| Constant | Value | Why it is enough |
|---|---|---|
| `Requests` (`Wallet`, `SessionPayments`, `MCServices`) | 2 (1 in `promises`) | Each guarantee relates one request to one that interferes; a third adds repetitions. `MoneyProofs` covers any number. |
| `Starters` (`Requests` of `ChargingSession` in `money`) | 3 | Two starts and a stop, or two stops and a start, are the largest sets of different roles on one session. |
| `Sessions` | 1 (2 in `promises`) | Every query is keyed by the session. |
| `Amounts`, `Costs` | {1, 2} (`Wallet`), {0, 1, 2} (`payments`), {0, 2} | Different amounts tell lost updates apart, and the capture of a cost from the capture of another one; 0 is the fallback cost, which captures skip. |
| `MaxInt` | 3 or 4 | Two operations reach it, so that the refusal of the column happens. |
| `MaxRows`, `MaxCharges` | 2 to 4 | A credit, a debit, and one more of either, so that every row follows each kind. |
| `MaxEntries` | 4, 3 | A hold, a capture, a repeated capture and a refund or a new hold; a charging session makes at most one of each per start and stop. `SessionPaymentsProofs` covers any number. |
| `HoldAmount` | 3 | Differs from every cost. |
| `Clients` | 2 | A replaced connection and its successor. |
| `RemoteStarts`, `IdTags` | 2 | Two commands that compete for one transaction, of the same or of different users. |
| `MaxAttempts` | 2, 3 | 3 is the default of the code; where links are checked one retry suffices, for tracking happens on the attempt that is answered. |
| `MaxClock`, `MaxTransactionId` (`remote_commands`) | 2, 2 | Ids may stay behind the clock, meet it, and outrun it before a restart. |
| `Updates`, `Connectors`, `Listings`, `Lookups` | 2, 2, 1, 1 | Two cascades that cross, a connector that hides another's status, one key of each kind, and one lookup in flight across a whole update. Each update request is sent once. `StationStatusProofs` covers any number. |
| `Reports` | OCCUPIED, OFFLINE | The initial rows take all four statuses; two reports suffice to make the aggregate rise and fall. |
| `Emails`, `Numbers`, `MaxCode`, `MaxRefresh` | 2, 1, 1, 3 | Two people who claim one phone; one code is verified twice at a time; three tokens are a sign-in and two refreshes. |
| `Tokens`, `MaxMethods` | 1, 3 | A method from before, one of a provider and the wallet: each may be the default, and a token may be exchanged again. |
| `MaxReading`, `Base` | 2, 1 | Two readings in two messages that cross, and a register that does not start at 0. |
| `Writers`, `Stations`, `MaxRows` | 2, 1, 2 | One user touches what another wrote; two reviews of one user on one station are what must not be. |
| `Makes`, `Models`, `Years` | 3, 4, 2 | One of each rule of the connector detection, and both sides of its year. |
| `Reports`, `MaxHour`, `Reviews`, `Sessions`, `Recent` (`StatusReports`) | 3, 2, {0, 3}, {0, 10}, 2 | Both ends of a reputation, an hour's difference, and one report more than are looked at. |
| `Sites`, `Evses`, `Facts`, `Files` | 2, 2, 2, 8 files of two rows | One station twice, with one and with two connectors, two stations, a broken row, a row without an id. |
| `Lifetimes`, `MaxVersion`, `MaxClock` (`ApiCalls`) | {0, 1}, 1, 2 | A response that is not stored, one that expires, and one write that makes it stale. |
| `Stations`, `Inputs`, `MaxMapRequests` | 2, 2, 2 | Another station and another query while the answers to the first are on their way. |
| `MaxScreens`, `MaxFormRequests` | 3 (5 in `onboarding_token`), 2 (1) | A screen pushed over the one that the user has gone back to; the five screens from the registration to the refusal. |
| `Clients`, `Sessions`, `MaxHandlers`, `MaxEvents` (`MonitorRooms`) | 1, 2, 2, 3 | Rooms of different clients do not meet; two listeners of one session; more events than one on their way. |
| `Users`, `Phones`, `Sends`, `MaxToken`, `MaxPushRequests` | 2, 1, 1, 2, 2 | Two users of one phone, a token that is replaced, and two registrations that overtake each other. |

Symmetry is used over request slots, sockets, remote starts and users, and only in runs without
liveness properties; the actions and the invariants treat the members of these sets alike.

## 5. Fairness

Safety runs need none, and most modules state none: their requests may die at any await. The
liveness properties assume:

- `CommandReturns` (`RemoteCommands`, run `promises`): weak fairness of "the pending call answers or
  fails" of each command, because `callTimeoutMs` races every call, and of each `Retry`, because a
  timer of `retryDelayMs` wakes the loop. Nothing is assumed of the charger, and nothing says which
  outcome a call has.
- `CachesCatchUp` (`StationStatus`): weak fairness of the steps of each update and of the store of each
  lookup, because every awaited call settles, by failing if need be, and of each key's expiry, because
  `setEx` gives every entry a time to live. That updates stop is part of the property's meaning:
  each request is sent once.
- `WaitsEnd` (`MCMobile`): for the sheet of a station (`DetailSettles`), weak fairness of the answer to
  each request, where a failure is an answer too, because `fetch` settles; for the room of a
  subscription (`SubscriptionsArrive`), weak fairness of `Open` and `Handle` of each client, because
  Socket.IO connects again by itself and hands over what it has buffered. That the user stays on the
  station, or the connection up, is no assumption: the properties let go when they do not.

## 6. What is proved

TLAPS proves these for every value of the constants that satisfies the named assumptions: any
number of requests, charge points, commands, users, connectors, listings, and any bounds.
Each proof has the same shape: an inductive invariant, which holds at first, is kept by every
action (one lemma or step per action), and implies what is to be shown.

**`MoneyProofs`**, the wallet (assumptions `AmountsAssumption`, `OperationsAssumption`, `BoundsAssumption`).
`TypeCorrect`; `HistoryIsComplete` (from `BalanceFollowsHistory` and `ReadsAreCommitted`) and
`NeverOverdrawn` from the inductive `HistoryInv`, which adds to them what an open transaction knows: the balance it has
seen was committed by some earlier row and covers its deduction. Without that a commit could
not be shown to stay in range. `TopUpsArePaid` and `NoChargeForgotten` rest on `BooksInv`, which
says that a charge a request holds is held by nobody else, neither another request nor a row, that
it has the request's amount, and that it is captured once the request is past the gateway. `SerialImplementsLedger` and
`SerialChain`: with at most one request slot, what an open transaction has seen is still the balance
(`SerialInv`), so each commit is one step of `WalletLedger` and every other step stutters. This is the
positive side of finding 1: serialising the operations is all that is needed. `ChainUnbroken` is
proved for one slot and refuted by `wallet_overlap` for two.

**`SessionPaymentsProofs`** (`PaymentAmounts`, `EntriesBound`). `TypeCorrect`.
`RowsClaimWhatWasDone` needs what a call knows of the books (`CallKnows`): the entry it has there is
the operation that it asked for, on the row that it found, for its session and amount; and that a row
which exists was authorized once (`RowKnows`). Nothing is assumed of the order of the calls: each of
them writes over whatever another has written. The two theorems about money without overlap (`TakenOnce`, `NothingForgotten`)
rest on `AloneInv`: of an undisturbed session one call at most is in flight, and the row that it has
read is the row still. `OnceInv` counts: the entries that take money, less the orphaned ones, are at
most one more than the refunds, and at most as many unless the money is on the row or a capture is
about to write it. `SettledInv` says for each hold and each capture where it is recorded. To the code
a capture of another amount is a new payment, which takes that one too: `SameCost` in the two
properties says that they are about the captures of one cost.

**`ChargingSessionProofs`** (`CostsAssumption`). `TypeCorrect`, `NobodyChargesOnCredit`,
`MoneyFollowsTheSession`, `GatewaysOnlyHold`, `ChargersStayEnded` from one invariant: what a request
remembers of the session it found (`ReqKnows`), what its call to the payments knows (`CallKnows`),
and how the rows of a session fit together (`SessionKnows`): who has a cost, who has a payment, whom
the wallet paid. That no gateway ever takes money (`GatewaysOnlyHold`) is part of it; it is the
general form of finding 3, and what excuses the proof from captures and refunds.
`OneAtATimeImplementsLifecycle`: with at most one request slot every step of a session is a transition
of `SessionLifecycle` or a stutter, because the row that a request checked its transition against
is still the row that it writes. `charging_overlap` refutes the same for two slots.

**`MoneyProofs`**, the rest (the assumptions of `MCMoney`, which extends `Wallet`). The theorems of `ChargingSessionProofs`, carried to
the composition that the run `money` checks, and `AnswersAreTrusted` for the clients of the four
providers, from what an answer tells of the effect it answers for (`AnswerKnows`).

**`RemoteCommandsProofs`** (`AttemptsAssumption`, `StartsAssumption`, `ClockAssumption`).
`TypeCorrect`, where a sleeping command has an attempt left. `CommandsGoToOpenSockets`: a
registered client is open and of that identity; inductive with the types. `LinksStay` and
`AcceptedIsKept`, together `TrackerKeepsRecords`, are action properties: a step takes a record away only by pruning it when it is
pending and expired, or by a restart. They rest on `TrackInv`: only accepted remote starts are tracked,
and their places in the order of the map are distinct and at most the number of accepted ones, so
that there is one newest candidate. `LinksAreRight` needs `SessionInv` (a linked id, and the id of a
request about to link, is on the row of a session with the same key). `OneTransactionOneRecord`
needs `IdInv`: ids in flight are below the next id, distinct, and not linked yet. `LinksAreOneToOne`
is the two together.
`StopsItsOwnSession` needs `UniqueIds`: unless ids have outrun the clock at a restart, the ids of all
sessions are distinct, below the next id, and different from those about to be created.

**`StationStatusProofs`** (`ReportsAssumption`). `TypeCorrect`. `AggregatesAgree`: the aggregate of
`computeAggregateStationStatus` and the one of the SQL are the same status of the same rows, and
`MapAsStated`: it follows the rules of the comment. `ColumnFollowsMap` needs `AloneInv`: an update that
has been alone since its write is the only one between write and save, and what it is about to save
is the aggregate of now. `OnlyRacesAreStale` needs `FreshInv`: what a lookup holds is what it would
read now unless a write has outdated it.

**`ServicesProofs`** (the assumptions of the services, which `MCServices` collects). One invariant per service:

| Theorem | Inductive invariant | What it adds to the property |
|---|---|---|
| `AccountsStaySafe` | `AccountsInv` | Ids are stored in the order they are made, and what a request replaces is a token that a client holds (`TokensKnow`); an undisturbed user has at most one request that may end in a token, and the id stored is that of the last answer, or of the answer on its way (`OneAtATime`). |
| `ChoicesStayKept` | `MethodsInv` | While nothing overlaps or is cut off, a choice in progress is the only one and what it found is still so; the default is the chosen method, or none once a choice has cleared the defaults; a lookup that began between choices goes for the chosen one (`ChoicesKnow`). |
| `SessionsStayBilled` | `MeterInv` | Readings grow with time; what a MeterValues in progress has read, and what is shown, is not more than what is stored (`IngestKnows`, `ShownKnows`); the totals are those of the stored samples unless some came late (`StopKnows`); one MeterValues after the other, none has read less than is shown (`OneAfterTheOther`). |
| `ContentStaysSound` | `ContentInv`, `VehiclesInv` | Where creations have not crossed, there is no review while one is about to be created (`OneReview`); a mail on its way was due (`MailsKnow`); the connector that an update is about to write is that of the vehicle it will make (`WritesWhatFits`). |
| `AnswersStayTrue` | `ApiInv` | What a call has been answered is what the server did with it (`CallKnows`); an entry, or an answer on its way to be one, is as new as the last invalidation unless it has raced with it (`VersionsKnow`), and of the user who is signed in unless that has changed (`OwnersKnown`). |
| `ReportsStayBelieved` | `ReportsInv` | Reports follow each other in time, and every confidence is between a half and one (`ConfidenceIsBounded`). A report of an earlier hour then weighs at most half of what a later one does at most, and at least half is what the later one weighs: `LaterIsTrusted`, from the powers of two (`PowersGrow`). |
| `StepsTakeNothing` | `MeterInv`, `ContentInv`, `OwnersKnow`, `ImportInv` | A request that deletes a review has found it as its user's (`OwnersKnow`). |
| `TypesHold` | all of the above, `ImportInv` | |

**`ImportProofs`** (`ImportAssumption`: files are sequences of rows, and what a row says is not
`None`). `ImportsStayComplete`, for every file and any number of runs. First what reading makes of a
file (`RecordsAreRead`): of the records about a station, the last one says what the file says of it, that is
what its first row says (CSV) or its last (Open Charge Map); of the entries about a connector, the last
one says what the last row does; and every station and connector of the good rows has one
(`ReadsRows`). Then the loop, with `ImportInv`: at work, what the file says of a station or a
connector is in the database or a record of it is still to be written (`Fulfils`); `LeftRemains` says that
this stays so when the first connector is taken off the records. At rest nothing is left to write, so
that what the file says is in the database (`NothingRemains`). A run that is cut off has nothing to
fulfil.

**`MobileProofs`** (the assumptions of the parts of the app, which `MCMobile` collects).
`TypesHold`, `ScreensStayCurrent` and `UpdatesReachOnlyTheirUser` from `PartsInv`, one invariant per part:

| Part | Inductive invariant | What it adds to the property |
|---|---|---|
| map | `MapInv` | A request whose answer is not dropped asks for what the screen shows now (`AsksForScreen`). Without it a late answer could not be shown to be of the station on the sheet. |
| favourites | `FavoritesInv` | The entries are not younger than the clock. The copies on the screens are the stored list because every write is followed by a read of each listener; `FilterIsStepwise` and `WithoutKeepsOthers` say what the filter of the list keeps. |
| onboarding | `FormsInv` | Every screen of the stack finds what it needs (`SoundStack`), for the user may go back to it; a user stays signed in while a request that needs one is on its way, and a payment setup that was answered is among the API's rows (`HandlerKnows`). |
| rooms | `RoomsInv` | Only the types. The rooms to be are those of the last event about each session (`WillBeIn`); a subscription adds such an event, and the handling of the first event changes nothing about them. |
| push | `PushInv` | The token that a listening phone has registered is on a row of its user, or on none while its request is on its way (`Reachable`); a token that no phone has yet is on no row and in no request (`TokensAreGiven`); what a delivery is about to switch off no phone has any more, and what it is about to send to is of the user it is for unless the phone has begun or ended meanwhile (`SendKnows`). |

The lemmas about the operators are stated once and cited: the least and the greatest member of a set
of readings (`LeastOf`, `GreatestOf`), `DeliveredGrows`, `IdleIsPart`, the rules of the connector detection
(`RulesTellConnectors`), the bounds of a confidence (`ConfidenceIsBounded`), the powers of two
(`PowersDouble`, `PowersGrow`), a connector that is set in a list (`ConnectorIsSet`). The last three
and `RecordsAreRead` are about recursive functions. They are proved without an induction rule: that the
function exists on `0..n`, and that each of its values has the property, by looking at the least
number for which it would fail (`LeastNumber`).

Only model-checked, and why:

- liveness (`CommandReturns`, `CachesCatchUp`, `WaitsEnd`): fairness is out of the prover's reach;
- the refinements for more than one request, which the runs refute. The violations are counterexamples of TLC.

## 7. Where the code and its documents disagree

1. **A wallet update can be lost** (`wallet/wallet.service.ts:151`, run `wallet_overlap`). Two
   operations read the same balance in overlapping transactions and each writes an absolute one; the
   class promises "atomic balance updates".
2. **A session can leave its lifecycle graph** (`sessions/sessions.service.ts:594`, run
   `charging_overlap`). The transition is checked against the row that was read before the awaits
   and the update is unconditional: ACTIVE back to AUTHORIZED, COMPLETED back to ACTIVE.
3. **A stop may collect nothing** (`ocpp/ocpp.transactions.service.ts:299`, run
   `charging_uncollected`). Charger-started sessions have a cost and no payment; app-started ones have a
   hold and never a cost.
4. **A late close event unregisters a connected charger** (`ocpp/ocpp.server.service.ts:128`, run
   `charge_points_stale_close`). The handler is bound to the identity, not to the client. The
   repository's reconnection test (`ocpp/ocpp-compatibility.e2e.spec.ts:769`) waits half a second
   between close and reconnect, so it does not meet this order.

5. **A user who has just signed in is refused** (`mobile/features/onboarding/onboarding-api.ts:118`, run
   `onboarding_token`). The API client of the onboarding screens is created without
   `getAccessToken`, while the API guards every route but a few with the global `JwtAuthGuard`
   (`app.module.ts:47`): the vehicle and the payment token are answered 401, though the screen
   "creates the user vehicle profile" (`mobile/features/onboarding/vehicle-setup-screen.tsx:73`). The
   clients of `mobile/features/favorites/favorites-api.ts:31` and
   `mobile/features/notifications/notifications-api.ts:38` are created in the same way.

Smaller observations that no document contradicts; the first group is in the hazard list with an
empty property list or a note:

- a remote start that timed out may have been accepted; a repeated StartTransaction creates a second
  session; crossing cascades leave the station's column wrong until the next update; a review does not
  invalidate the cached detail that shows it; two requests of one user may both create a review;
- while a sheet loads, its header shows the status of the station before
  (`mobile/features/stations/station-bottom-sheet.tsx:61`); the connectors below it wait;
- the cache of the app is wired nowhere; a response with lifetime 0 leaves the older entry in place, and
  a key does not say whose answer it holds (`mobile/api/cache-interceptor.ts`);
- a response transformer that throws is reported as a network error (`mobile/api/api-client.ts`);
- a failed start of the messaging client is remembered until the process restarts
  (`notifications/fcm-admin.client.ts:90`), and a token that is replaced between its registration and
  the subscription to replacements is missed (`mobile/features/notifications/fcm-runtime.ts`);
- an import writes over the status that a charger has just reported, and leaves cached answers as they
  are (`station-import/station-import.service.ts:45`).

## 8. What is not modelled

- *OCPP status broadcast*: a set of clients that nothing in the repository registers with.
- *Heartbeats* of chargers: they touch a timestamp that nothing reads.
- *Health, error reporting, logging*: output only; they keep no state that another part reads.
- *Profiles and ratings of users, templates and languages of notifications*: fields that no other row
  and no decision of the code depends on.
- *Tariff rates and rounding*: floating-point arithmetic. A cost is any member of `Costs`, and
  `SessionMetering` has the split of a session into charging and idle time, not its price.
- *Hashing, signing, and the guards that check access tokens*: no state; a token is its user and number.
- *Seed data*: a script for development that inserts constant rows once.
- *Configuration, languages and image addresses of the app*: functions of constants.
- *Drawing*: clusters, tiles, layout, animation, the profile screen, which shows constants.
- *Generated code, load tests, deployment files*: not part of the program's behaviour.

## 9. Plan

Done: first `Wallet` with `WalletLedger`, `SessionPayments`, `ChargingSession` with
`SessionLifecycle`, `ChargePoints`, `RemoteCommands`, `StationStatus`, and the proofs about three of
them; then the other services (`Auth`, `PaymentMethods`, `SessionMetering`, `UserContent`,
`VehicleProfiles`, `StatusReports`, `StationImport`, `GatewayCalls`) and the app (`StationsScreen`,
`FavoriteStations`, `Onboarding`, `MonitorRooms`, `PushNotifications`, `ApiCalls`); then the proofs
about the payments, the charging sessions, the gateways, the services and the app.

Next, to widen the model:

1. Compose `PaymentMethods` with `ChargingSession`, whose `walletDefault` may change at any time, and
   `UserContent`'s reviews with the cached detail of `StationStatus`.
2. Abstract specifications of the registry (a set of connected chargers) and of the remote-start
   tracker (a partial injection from commands to transactions), and their refinement.
