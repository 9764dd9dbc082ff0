# Verification of the portfolio risk state machinery

TLA+ models of the stateful core of UsEquityStrategies, the TLC runs that check
them on small instances, and proofs, checked by TLAPS, that hold for every
instance. The models are written from the code under
`src/us_equity_strategies/`; paths below are relative to it unless they start
with `docs/`, `tests/` or `scripts/`.

Contents: [inventory](#inventory) · [what is modelled](#modules) ·
[runs](#runs) · [proofs](#proofs) · [findings](#findings) · [plan](#plan) ·
[what is not modelled](#not-modelled)

## Inventory

The library is 75 600 lines in 177 files; most of it computes target weights
from price histories (pure functions of their input, `strategies/`,
`signals/`, `backtest/`, `research/*replay*`). What keeps state, survives
restarts or runs concurrently is small, and is what this project is about.

| Component | State | Operations | Interacts with | What is hard | What makes it correct |
|---|---|---|---|---|---|
| Portfolio event journal (`research/portfolio_event_journal.py`) | immutable record files, one directory per identity, one origin per scope | `append`, `load_chain` | object store (`create_text`, `list`, `read_text`), every caller that writes | concurrent writers, files visible before they are readable, interrupted writes, answers that are lost or wrong | an append-only chain, one successor per record, receipts only for what is on disk, nothing overwritten |
| Intraday risk state (`research/portfolio_intraday_state_io.py`) | none of its own: everything is on the chains | initialize, persist an event, replay it, migrate to a new policy's identity, read | journal (append, load), risk event preview | two-write handoff, stale heads, swallowed exceptions, duplicate deliveries | one live identity, protections survive, a draft only for the state that is current |
| Risk events (`research/portfolio_risk_events_preview.py`) | risk state: breaker, latched limits, high-water marks, held cycles | evaluate, validate progress, recovery qualification | called by both stores | limits latch and tighten over months, policies change under an open breaker | an observed trip is never refused or hidden; protections only tighten; recovery is earned |
| Daily risk state (`research/portfolio_risk_state_io.py`) | QPK's daily chain | read, persist | QPK `StrategyRiskStateStore` (external), risk events | lost acknowledgement, competing callers with old checkpoints | one transition per session, no trip lost, true reports, somebody can always go on |
| Settings drafts (`research/portfolio_settings_draft_io.py`) | create-only draft files | persist, read, preflight | intraday state | draft refers to a state that moves on | a draft is only confirmed for the head it was computed from |
| State snapshots (`research/portfolio_state_snapshot.py`) | snapshot files, a restored directory | save, restore | journal (read twice, appended to record by record), the caller's checkpoint | a source that goes on, a recovery cut short, a target that others start to use | a snapshot is one moment's complete history; a recovery is reported for exactly the history of the checkpoint |
| Async job runner (`scripts/run_ux1_async_job.py`) | the console's claim; a temporary directory; three pipes | claim, describe and copy objects, run the calculator, classify, post | console over HTTP, bucket through gcloud, calculator as a subprocess | lost or late answers, objects replaced while they are staged, full pipes, deadlines | one run works on a request, what it posts is true and what it prints is what the console holds, it always ends |
| Delever cooldown (`volatility_delever_cooldown.py`), retention (`volatility_delever_retention.py`, `research/tqqq_plugin_release_retention.py`) | a state handed from session to session | build a transition behind its predecessor | strategies, QPK's store | boundaries, missing sessions, splits, states their own check would refuse | re-entry exactly after the cooldown; what was given up never comes back; a chain is never stuck |
| Periodic investment (`buy_and_hold.py`, `plain_dca.py`, `strategies/nasdaq_sp500_smart_dca.py`, `strategies/ibit_smart_dca.py`) | purchase schedule | per-session decision | entrypoints | calendar boundaries | one purchase per period |
| Budgets and layers (`income_layer.py`, `income_budget.py`, `portfolio_risk_budget.py`, `cash_only_equity.py`, `account_sizing.py`, `combo_plugin_pipeline.py`) | none | pure calculations | strategies | numeric edges | sums and caps |
| Self-financing combo ledger (`research/c3_self_financing_combo_ledger.py`) | cash and positions | trade, mark | research | rounding | conservation |
| Strategies, signals, entrypoints, catalog, backtests, production parity, research studies | none or files of results | pure calculations, report writing | quant_platform_kit | numeric | out of scope, see [below](#not-modelled) |

`quant_platform_kit` (QPK) is an external library. Its `LocalObjectStore`
is modelled from how the journal uses it: `create_text` creates a file
exclusively and then writes it, `list` and `read_text` see whatever is there.

How the parts interact: a caller holds a *binding* (identity and expected head
digest) and calls `persist_portfolio_intraday_preview`; this loads and verifies
the chain of the identity, evaluates the event with the risk event kernel on
the state at the head, appends one record to the journal, and reads everything
back before it hands out a settings draft and the next binding. A policy change
is `migrate_portfolio_event_state`: seal the old chain, import its state as the
root of the new one. Nothing is shared between calls but the files.

## Modules

| Module | Models | Role |
|---|---|---|
| `EventChain` | what the journal promises its callers | abstract specification: `committed` records, `receipts`; `Commit` at the head, `Acknowledge` |
| `EventJournal` | `portfolio_event_journal.py` | the files and the steps of `append` |
| `EventJournalChain` | - | refinement mapping `EventJournal` → `EventChain` with its history variable, inductive invariant |
| `EventJournalProofs` | - | TLAPS proofs |
| `IntradayState` | `portfolio_intraday_state_io.py` | concurrent calls over the chains of `EventChain` |
| `IntradayProofs` | - | inductive invariants, TLAPS proofs |
| `RiskEvents` | `portfolio_risk_events_preview.py` | what an observation trips, what the risk state keeps, when recovery qualifies |
| `RiskEventsProofs` | - | TLAPS proofs |
| `SettingsDraft` | `portfolio_settings_draft_io.py` | what a call of `IntradayState` stores after its event, and what a consumer reads back |
| `SettingsProofs` | - | TLAPS proofs, on those of `IntradayProofs` |
| `DailyRiskState` | `portfolio_risk_state_io.py` | callers with checkpoints of their own over QPK's daily chain |
| `DailyRiskProofs` | - | TLAPS proofs |
| `StateSnapshot` | `portfolio_state_snapshot.py` | a source as `EventChain`, an archive, and the recovery as a writer of `EventJournal` |
| `SnapshotProofs` | - | inductive invariant, TLAPS proofs |
| `PreviewProcess` | `_run_preview_process` of `scripts/run_ux1_async_job.py` | the job and the calculator over three pipes |
| `AsyncJob` | `scripts/run_ux1_async_job.py` | workflow runs, console, network and bucket around `PreviewProcess` |
| `AsyncJobProofs` | - | TLAPS proofs |
| `DeleverState` | `volatility_delever_cooldown.py`, `research/tqqq_plugin_release_retention.py` | the cooldown and the ratchet on the retained quantity |
| `DeleverProofs` | - | TLAPS proofs |
| `MCEventJournal`, `MCEventJournalChain`, `MCIntradayState`, `MCRiskEvents`, `MCSettingsDraft`, `MCDailyRiskState`, `MCStateSnapshot`, `MCAsyncJob`, `MCDeleverState` | - | instances for TLC |

What is composed: `EventJournal` implements `EventChain`; `IntradayState`
extends `EventChain` and `SettingsDraft` extends `IntradayState`;
`StateSnapshot` extends `EventJournal` and instantiates `EventChain` for its
source; `AsyncJob` extends `PreviewProcess`.

### EventJournal

`files` maps every address of the scope (`origin.json`, `root.json` and
`successors/<sha>.json` of each identity) to a record, `Absent` or `Torn`; a torn
file exists and cannot be read, because a writer is writing it or died there.
An `append` of writer `w` is the sequence `Start`, `List` (`_inventory`), one of
`LoadKnown`/`LoadFresh`/`LoadRefused` (the first `load_chain` and the checks on
it), for an INITIALIZE `CheckScope`/`ScopeRefused`, then `Claim`, `Write` (the
two halves of `create_text`) or `TakenBySame`/`TakenByOther`, then `List` again
and `Confirm`/`Unconfirmed`. `Interrupt` ends it anywhere, without a receipt.
Another writer may move between any two of these steps.

A chain is a set of records, ordered by its sequence numbers. A digest has no
collisions (`RecordAssumption`). `load_chain` reads the origin, the root and the
listed successors in one step after the listing: records never change, so
reading them one by one can differ from this only in whether a torn file is met
before or after it is complete, and meeting it only makes the load fail.

Callers may present any record. In particular one identity can be started twice,
by an INITIALIZE and by a MIGRATE_IN that race: their roots have two addresses
(`RootOf`, `Origin`), and both files come to exist. The code notices when it reads:
`load_chain` refuses an identity with two roots (`Loads`), so at most one of the two
calls is acknowledged and nothing is appended afterwards. In the refinement such a
second root is no part of the chain; the history variable `late` of
`EventJournalChain` remembers which of the two came second, which the files do
not show.

### IntradayState

The journal is taken at its word, i.e. as `EventChain`, plus the one thing a
caller still sees of the files: a set `unreadable` of places with a torn file.
A call reads and checks in one step (`Initialize`, `Persist`, `Migrate`, or
`Replay`, which returns at once), and then appends the records in `todo`: `Claim`
and `Write`, or `NothingWritten` for an append that raises or finds the record
there, which the code deliberately does not tell apart; then `ConfirmSeal`,
`Confirm` or `Unconfirmed`, the read-back of `_append_confirm`. `Crash` ends a
call anywhere, `MidWrite` decides whether also inside `create_text`. A call that
is refused before it appends changes nothing and is no step.

`_verify_chain` walks from an identity to the one it was handed over from, and
so on to the first, and refuses to come by the same one twice. `Lineage` is what
it visits, without recursion: the identities that no set leaves out that holds
the first and is closed under `SourceOf`; `Cyclic` is the refusal.

The risk state is cut down to the breaker and one high-water mark, which is
enough to say that protections survive. The kernel that computes it is the next
component's; here an event either trips or does not. Times of attestations
(`_bound`, `_proof`, `_historical_contract`) are admission checks on a caller's
input and left out, except the order of observations that the journal checks
too.

### RiskEvents

The state is the `risk_state` at the head of a chain and the session and opening
value it was observed with (`day`). `Evaluate` is one call of
`evaluate_portfolio_risk_events` with any level, override and observation,
followed by the append of its `state_update`; `Handover` is a migration to
another policy, which moves the state unchanged; `CompleteSession` is the
passing of a market day, whose figures become recovery evidence. `opened` and
`tripped` are history variables the code does not have: the state with which
the breaker opened, and the last session with an active event.

The limits carry the code's field names. Ratios are exact quotients, compared
by cross-multiplication: the code goes through decimals to a float, so an
equality at a limit may fall to the other side there by a rounding of the last
bit. A sleeve record leaves out the strategy's id, which cannot change for a
held cycle. `verified` stands for a reconciled observation with nothing
pending; in QPK's health axes (external) such an observation opens the durable
breaker as an event does, which `CycleHealthOpen` says. What recovery says goes
into the output and nowhere else, so `Recovery` is an operator and no action;
the evidence is an honest row for every session completed since remediation,
as its calendar demands.

### SettingsDraft

Extends `IntradayState`: `StateCall` takes its steps, and a call whose event was
read back and whose preview has a draft (`Settled`) goes on to `CreateDraft`,
`WriteDraft` or `DraftNotWritten`, and `ReadDraft`, which alone decides what is
reported. `drafts` is the create-only files, a function from the digests that
have one to what is in it (`NoRecord` for a file that is torn), `handed` the
artifacts whose receipts were given out (a history variable: the code leaves
them to the caller). A consumer's `Preflight` brings any committed head as
checkpoint and any receipt with the frozen inputs it came from; `ReadState` and
`ReadArtifact` are the two reads of `read_portfolio_settings_draft`, between
which calls may take steps. `afterOpen` remembers whether an open breaker was
committed when the preflight began.

An artifact is represented by the record of its event, as its digest covers
both. What makes a draft's content qualified and its sources fresh enough
(`_qualified`, `_fresh_sources`) can only refuse and is left out.

### DailyRiskState

QPK's store creates a transition behind its predecessor at one stroke (it writes
a temporary file first, tests/research/test_portfolio_risk_state_io.py), so
there are no torn files and a chain is a sequence; the digest of a transition
names everything before it and is represented by its position. A call is
`Deliver`, then one of `ReadReplay`, `ReadNew`, `ReadRefused`; a replay ends with
`ReplayConfirmed` or `ReplayUnconfirmed`, a new transition goes through
`AppendLands` or `AppendFails` to `Confirm` or `Unconfirmed`. `ReadFails` and
`Crash` may end it at any read and anywhere. `held` is the checkpoint in the
caller's binding, which only a confirmed read-back moves, or another caller's
(`Adopt`); `pending` is what a caller knows no result of. What a delivery says
of risk is cut down to whether it trips. A call's binding was observed on some
day, and a chain whose head has a later session is refused (`HeadObserved`): a
caller whose binding is older than its delivery commits and cannot confirm it.

### StateSnapshot

The source is an `EventChain` of its own (`source`), which `SourceCommits` moves
on at any time; `Bind` is the caller learning a head it vouches for
(`checkpoint`, external: `_binding` requires it of a trusted source). `Terminal`
is the provenance of an import, the seal it names; `Lineage` follows it from
root to seal as `_verify_chain` does. `_save` is `SaveRead`, one `SaveAncestor`
per identity the chain came from, between which the source goes on,
`SaveReread` (or `SaveChanged`), `SaveClaim` and `SaveWrite` (or
`SaveTaken`) and `SaveConfirm`. `_restore` is `RestoreStart`, which alone finds
the directory empty, then one `append` of `EventJournal` per record, taken by
the writer `Restorer` through all its file operations, ending in
`RestoreReceipt`, or in `RestoreRaises` followed by the one read that decides
(`RestoreReconcile`), and `RestoreVerify` at the end. `SaveFails` and
`RestoreFails` end a call anywhere; `LiveCall` is any other writer, which shares
nothing with the recovery but the files. The source and the archive are not
touched while the target is (`Quiet`): they have no file in common, so their
steps commute. What the DAILY kind does through the same two functions, over
QPK's store, and path checks are left out.

### PreviewProcess and AsyncJob

Data is counted in chunks. The calculator is any program: `ChildWrites`,
`ChildReads`, `ChildCloses`, `ChildExits` in any order, `ChildWaits` when a pipe
blocks it, or nothing at all. One `Turn` of the job is one round of the loop:
select, at most one write, both reads. `Deadline` may fall at any time, `Collect`
is the wait after both outputs ended.

A run goes `queued` → `claim` → `stage` → `calculate` → `post` → `result` →
`done`, one step of `execute` each; `Exit` sets what main prints. `Describe` and
`Copy` are the two gcloud calls for one object, and `Overwrite` may replace it in
between; `usage` counts objects and bytes where `_download` does, before the copy. The console (`Serve`), the network (`Lose`, and any delay) and the
machine (`Kill`) are external. `post_json` sends once and never again; when it
gives up (`HttpFailed`) its message is still on its way. The workflow's
concurrency group lets one run execute at a time (`Executing = {}`). What makes
names, tokens and metadata well-formed is left out: it refuses at once.

The calculator's document is read and encoded again, and may grow by that (`1e15`
becomes `1000000000000000.0`). `_callback_body` replaces a success that no longer
fits into a request by `calculator_failed` (line 769), and `_post_terminal` chooses
the printed code from the result as it was (line 929): the run prints UX1_OK and
ends with 0 while the console holds a failure. `Posted` and `CodeOf` say so, and
`ExitTruth` names the case; `verdict` is kept after the run's end for it.

### DeleverState

Both calculators are pure functions from a predecessor and one session's input,
and the store behind them takes one successor per transition, so load,
calculation and append are one action: `Advance`; `Genesis`, `Migration`,
`Ratchet`, `RatchetSplit`. Quantities are integers in the smallest unit, and
`Floor` rounds to the account's step as the code does. `quiet` and `ceilings`
are history variables the code does not have: the states recorded since the last
trigger, and every ceiling so far as a fraction, in shares of today: a split
scales those recorded before it.
`volatility_delever_retention.py` computes ratios of one session's input, keeps
nothing and is left out.

## Runs

Every run finishes within about two minutes with two workers.

| Run | Question | Bounds, and why they are enough |
|---|---|---|
| `journal_chain` | Do the files implement the chain, whatever two writers interleave and wherever they stop? | 2 writers; a chain of up to three records with competitors at two heads, a seal, a repeated event id, and a root of the other kind that may come first or second. Every conflict in the protocol is between two calls about one address or one identity, so a third writer adds only repetition; 245 000 states. `TypeOK`, `LoadsNeverDiverge`, `SealIsFinal`, `AcknowledgedStays`, `NoFork`, `CreateOnly`, `ImplementsChain` |
| `intraday_handoff` | Is there ever more than one live identity, does it know everything? | 2 calls, three policies in turn (a handoff of a handoff), one delivery, one crash. `NeverSelfBlocked`, `OneLiveIdentity`, `ProtectionsSurvive`, `RetiredTruth` |
| `intraday_live` | Is a handoff completed? | 2 calls, two policies, one crash outside a write. `HandoffCompletes` |
| `intraday_replay` | (violated) Is a draft returned once? | 2 calls, one policy, one delivery, no crash |
| `risk_events` | Is an observed event ever refused, or hidden by what a request overrides? | one held cycle, two policies with two levels, three overrides, six kinds of days (calm, unreconciled, money paid out, a dip that only a trailing stop sees, a slide, a rise), a fresh scope and one with an open breaker, two sessions. Limits are compared one by one, so one cycle and two of everything else meet every order of two limits. `TypeOK`, `EvaluationIsAccepted`, `RequestNeverHidesTrip` |
| `risk_recovery` | When does a reset review qualify? | one policy, two levels that need five and six clean sessions, quiet and rough days, seven sessions: one to open the breaker, five to recover, one more to be too late or too early. `RecoveryIsEarned`, `RequestNeverEasesRecovery` |
| `risk_anomaly` | (violated) Does a new event restart the count of clean sessions? | as `risk_recovery`, with a day that stops a sleeve and leaves the account's figures quiet, and days whose books are not verified |
| `settings_draft` | Do event and draft stay together through failures, and can a draft from before an OPEN pass? | 2 calls, one policy, three deliveries: one that trips, one that does not, one that repeats its id with other content; one crash between or within writes; a consumer with every receipt and checkpoint. A handoff would move the head as an event does. `DraftTypeOK`, `DraftFollowsState`, `ReceiptHonoured`, `NoStaleDraft`, `OpenBlocksOldDrafts` |
| `daily` | Do concurrent callers with lost answers keep one honest chain, and can somebody always go on? | 2 callers, two competing observations of one session and one of each of two more, bindings observed on the first day or the last, one crash, any number of failed reads and appends. A conflict is between two callers about one place, and three sessions let a caller fall two behind. `TypeOK`, `OneTransitionPerSession`, `TripsAreKept`, `ReportedIsPersisted`, `NoStaleDraft`, `SomeoneIsCurrent` |
| `snapshot` | Is a snapshot one moment's history, and a recovery reported for nothing else? | a chain that migrates once, two heads that may be bound, one file in the archive, one other caller in the target that starts a scope of its own or continues the same chain. Two identities make every order of ancestors and descendants; 131 000 states. `SavedIsHistory`, `PartialNeverVerifies`, `RestoredExactly` |
| `async_job` | Does one run work on a request, are its answers true, does it end? | two dispatches and a second attempt, three objects of which one is replaced once, pipes of one chunk, a request of two, outputs over the limit, documents of every kind, a success that is too large to be posted among them. A request longer than the pipe and an output longer than the limit are what blocks and what floods; 269 000 states. `OneCalculation`, `ResultTruth`, `ExitTruth`, `StagedAsAgreed`, `NeverStuckTogether`, `EveryRunEnds` |
| `delever` | Is re-entry allowed exactly when it should be, and does a ratchet ever loosen or get stuck? | a cooldown of two and four sessions, so that one can end and another begin; accounts that are flat, capped, in coarser steps and bought into; a doubling and a halving split; 35 000 states. `CooldownExact`, `NeverSelfBlocked`, `NoRearm` |

Deadlock is checked in the journal, daily and risk event runs. In the intraday,
settings and snapshot runs it is not: a torn file stops a scope for good, which
is what the code promises ("Interrupted files block the journal"). Nor is it in
`async_job`, where every run may be done, and in `delever`, where the sessions
come to their bound.

Symmetry is over the writers or calls, which no definition tells apart; the
liveness run uses none.

**Fairness** (`LiveSpec`). In `intraday_live`: Weak fairness of the
steps of a call under way: a Python call that is not killed goes on. Strong
fairness of `Claim`: the store does not fail every time for ever. Strong
fairness of `Resume`: an operator keeps resuming a handoff whose source is
sealed, as docs/research/intraday-risk-state.zh-CN.md:33 asks of him; the code
itself never retries. `MidWrite = FALSE`, because a file torn by a crash blocks
the handoff for ever, by design.

In `daily`: weak fairness of the steps of a call. Strong fairness of `Retry`: a
caller that knows no result of an append delivers the same request again, at
last with a binding observed on the day of its session or later, which
the docstring ("An identical frozen delivery is idempotent") is there for; the
code itself never retries. Strong fairness of `ReadReplay` and
`ReplayConfirmed`: reads do not fail every time for ever. No fairness of
appends: they may fail for ever.

In `async_job`: weak fairness of `Job`, the steps of whatever run executes, its
timers included: every wait in the code has a deadline (`post_json`, gcloud,
select, `proc.wait`). Nothing is asked of the console, the network, the bucket
or the calculator.

## Proofs

The modules named `...Proofs` hold for every value of the constants, under the
assumptions named in the modules they extend: `StoreAssumption`,
`RecordAssumption` of the journal, `IntradayAssumption` and
`SnapshotAssumption` of the intraday state and of the snapshots, `RiskAssumption` of the
risk events, `DailyAssumption` of the daily state, `CooldownAssumption` and
`RetentionAssumption` of the delever state, `PipeAssumption` and
`AsyncAssumption` of the job. TLC evaluates them on every run.

| Theorem | Says |
|---|---|
| `EventJournalProofs!TypeCorrect`, `Invariance` | files, calls and receipts keep their types; `IInv` is inductive |
| `SealsAreFinal`, `NoForks`, `AcknowledgedIsDurable`, `LoadsAgree`, `FilesAreCreateOnly` | the safety properties of the same runs, for any number of writers, identities and records |
| `Refinement` | the file protocol implements `EventChain` |
| `IntradayProofs!OneLive`, `Survive`, `Retired`, `FreshDrafts` | for any number of calls, policies in turn, deliveries and crashes: one identity accepts events, it has every protection ever committed, a reported seal is there, no draft is handed out from before an OPEN |
| `NeverBlocked` | through handoffs of any number, what the calls write the verification accepts: seals, imports, links, and no identity that comes from itself |
| `IntradayProofs!TypeCorrect` | chains, calls and outputs hold records the calls can build, however many events and handoffs |
| `SettingsProofs!StateFirst`, `ReceiptsHold`, `OpenBlocks`, `DraftsStayFresh`, `DraftTypeCorrect` | for any number of calls and consumers: no draft without its event, what was reported stored stays, an OPEN from before a preflight blocks older drafts, none is issued from before an OPEN, and a file holds its own artifact or nothing |
| `SnapshotProofs!SnapshotIsHistory`, `VerifiedIsComplete`, `RecoveryIsExact`, `TargetIsAJournal`, `SourceIsAChain` | for chains of any length and any number of migrations and other callers: a saved snapshot is the history of its head, a part of a history never verifies, a recovery is reported for exactly what was vouched for; the target stays an `EventJournal` and the source an `EventChain` |
| `RiskEventsProofs!TypeCorrect` | the risk state keeps its shape |
| `EvaluationAccepted` | an observation that is let in leads to a state the stores accept |
| `RequestsHideNothing`, `RequestsEaseNothing` | what trips under the system's limits trips under every request, and what qualifies for a reset under a request qualifies under the system's limits |
| `RecoveryEarned` | a reset is put up for review only after five sessions since the remediation within the contract's bounds of what was in force when the breaker opened |
| `DailyRiskProofs!TypeCorrect`, `SessionsGoUp`, `TripsStay`, `ReportsAreTrue`, `DraftsAreCurrent` | the safety properties of `daily`, for any number of callers, deliveries and sessions |
| `DeleverProofs!TypeCorrect`, `CooldownsAreExact`, `RecordedIsUsable`, `NothingRearms` | for a cooldown of any length and any accounts, steps and splits: types, exact re-entry, no state that refuses its successor, no ceiling above an earlier one |
| `AsyncJobProofs!TypeCorrect`, `PipesNeverStuck` | for pipes, requests and outputs of any size the job never waits for a calculator that waits for the job |
| `OneRunPerRequest`, `ExitsAreTrue` | for any number of runs: one of them works on the request; a success or missing input that a run prints is what the console holds, except that a success too large to be posted is held as a failure; a failure that is printed leaves no success behind |
| `ResultsAreTrue` | a success rests on all the output of a calculator that ended well |
| `StagingKeepsItsWord` | for any plan, sizes and limits: what is copied is within the limits and as the frozen policy has it, and no calculator runs on part of it |

**The journal.** The hard step is `Claim`: a writer loaded the chain some time
ago and now creates the file behind what was its head. The invariant `IInv`
says what its old load is still worth. Files are only stored at their own
address (`Addressed`), a chain has no gaps and no two records of one sequence
number (`NoGap`, `SequenceUnique`, `Backed`), so whatever a call loaded is
everything there was up to its head (`ListedClosed`, `ViewCurrent`). And the key lemma, `ClaimIsAtHead`: if the
address behind the loaded head is still free, nothing was appended since, so
the checks made on the old load (sequence, no seal, event id unused) hold of
the chain as it is now. Every safety theorem and the refinement follow from
this. Nothing is assumed of which records callers present. A second root of an
identity, for whose address the free address of the first says nothing, is the one
exception to the invariant: `LineInv(D)` speaks of the records outside a set `D` of
such roots. `IInv` says that there is such a set, which is what the theorems about
`Spec` take, as a load that is accepted has seen one root and a receipt takes a
load; the refinement takes `HInv`, where the set is `late`.

**The intraday state.** A call builds its record on a head it read some time
ago, and the scope may have moved on to another identity since. What makes this
safe is that one record of the whole scope carries its state (`Carrying`): the
head of the identity that accepts events, or the seal whose import is still
missing. `OneCarrier` and `CarriesAll` say that there is never a second one and
that it has all protections. An append moves the role on: a record behind the
carrier takes it over (`NextKeepsScope`: the head it was built on and the head
it lands on have one digest, so they are one record), an import takes it from
its seal (`ImportKeepsScope`: the chain it starts was empty, so no other import
of that seal can exist, because the seal names the destination), and a start
finds nothing committed (`StartKeepsScope`). Every other identity has a head
that is a seal, which is why at most one is live. The weaker statement about
live identities alone is not inductive: between seal and import there is none.

The verification is a second layer (`VInv`): every seal and import is what
`_migration_records` makes of a committed record (`Made`), every link keeps the
protections, and no identity comes from itself. The last holds because an import
starts a chain no lineage can have known (`CommitMakesNoCycle`), and a lineage,
being closed, never grows (`LineageStays`).

**The drafts.** A step of `SettingsDraft` is a step of `IntradayState` or leaves
chains and calls alone, so its invariant comes along. A head that is read back
carries the state of the scope (`ConfirmedDominates`); a consumer that began
after an OPEN therefore holds a head that is open once it has read the state,
whatever is committed before it reads the artifact (`Reading`). A receipt stays
true although two deliveries of one event may store its draft at once, because a
file is addressed by the digest of its record and a digest names one record of
the chain (`OneRecordPerDigest`): whoever writes the file again writes what it
holds (`Honoured`).

**Snapshots.** A history is read chain by chain while the source goes on. What
makes the copy one of a moment is that all but the last of its chains are sealed
and the last is cut at its head (`Settled`): nothing is ever added to such a
history (`SInv` carries this from the read to the file and to the recovery). A
verified directory has, for every identity of the lineage, the chain up to the
seal the next one names, and a digest fixes the record before it; so by
induction along the chains it holds every record that led to its head
(`VerifiedHasHistory`), and a part never verifies. That a recovery is exact takes
only that the copy it compares the directory with at the end is still the
history of the caller's checkpoint. The directory itself needs nothing but the
types of `EventJournal`, whoever writes to it; and since every step is a call of
that journal or leaves it alone (`TargetIsAJournal`), what `EventJournalProofs`
proves holds of it too, the identity that both an INITIALIZE and an import may
start included.

**Risk events.** The invariant is `TypeOK` itself: it contains `StateValid`.
`TightenValid` shows that tightening limits with anything that may be requested
or latched leaves them valid, in particular that `breaker_drawdown` stays within
`max_drawdown_tolerance`; this fails for arbitrary values, and holds because a
request cannot touch the tolerance and latched limits carry both.
`LatchedStaysTight` shows that what is in force is a fixed point of tightening
with what is latched, which is the progress check. `TighterTrips` lifts the
order of limits through the comparisons. Recovery is two comparisons more: a
request only lowers bounds, and a session clean under lower bounds is clean under
higher ones, so the last restart of the count is no later; and the limits in
force are never above those the breaker opened with (`OpenedKept`), so five
clean sessions are five sessions within the contract.

**The daily state.** A call computes its transition from a head it read some time
ago. `CallsKnowTheHead` says what that is still worth: if the chain is as long
as it was, the session is still new and the breaker still the one at the head.
`AppendLandsKeeps` is the only step that needs more than bookkeeping.

**Delever.** The cooldown's invariant `Remaining` ties the counter to the
history: what is left of it is the cooldown minus the sessions since the trigger,
and zero once they are more. For the ratchet, `RetainedIsValid` shows that
whatever is recorded passes `RetentionValid`, as the floor of a minimum stays
below each of its arguments. `NothingRearms` needs the history in shares of
today: what a split does to the ceiling in force it does to every ceiling
recorded before, so only the step itself has to be compared (`RatchetBelow`,
`SplitBelow`).

**The job.** `Pipes` says why nobody waits: an output the job stopped reading was
closed by the calculator, and the input is open only while something is left to
send; so whatever the calculator blocks on is something the job can act on.
`Protocol` says what a message in flight is worth when it arrives late: a claim
that is under way has not been served (`ClaimsArePending`), an answer tells the
truth about a console that never takes a request back (`AnswersAreTrue`), a
result comes from the owner and carries what that run posts (`Posted`: its `body`,
or a failure in place of a success that is too large; `ResultsFollowPost`,
`OneResult`), the calculator answers the owner alone and once (`OneVerdict`), and
behind a recorded result or a failure that was printed none is on its way
(`NothingFollows`). `Flow`, in a second layer on top, says that
output read, output in the pipe and output written always add up. `Staging` is
the third: the copies are the first objects of the plan (`CopiesInOrder`), their
running total is what `usage` says less the object in progress (`BytesAddUp`),
and what was admitted of that object is what will be copied (`SizesAgreed`),
whatever the bucket holds by then.

**Model-checked only.** `HandoffCompletes`, `SomeoneIsCurrent` and `EveryRunEnds`
are liveness under fairness, beyond this prover; every safety property of the
passing runs is a theorem. Two things shaped the models so that they can be
reasoned about. No recursive definition is used for what the proofs speak of:
a lineage is the least closed set, a count of clean sessions starts at its last
restart, a sum is a running total, and the proofs go by induction over sequence
numbers (a smallest counterexample, from the well-foundedness of the naturals).
And the types name what a record is, not a finite set of records: the instances
bound what callers deliver, never what the calls may build.

## Findings

1. `intraday_replay`: two concurrent deliveries of one event both return the
   settings draft; the note on replays promises it once.
2. `risk_anomaly`: an event in one of the counted clean sessions does not
   restart the count; the contract of the risk levels asks for no new anomaly.

Three more places, where the documents make no promise that a run could refute,
are listed as hazards. A settings preflight reads the state and then the draft,
and does not look at the state again (`portfolio_settings_draft_io.py:234`): an
event committed in between leaves the old draft cleared, and
`OpenBlocksOldDrafts` bounds that window. A run of the async job whose success
is too large to be posted has a failure recorded and prints UX1_OK
(`scripts/run_ux1_async_job.py:769` and `:929`, `Posted` and `ExitTruth`): the
workflow is green and the console is not. And a run that cannot
create its directory or process ends without a result
(`scripts/run_ux1_async_job.py:883`, `Escape`): the console holds the request
for a run that is silent.

## Plan

In this order; each module with its MC module, runs, mutants and map. The suite
stays at a dozen runs, so that it can be repeated after every change: a new run
takes the place of one that others or a theorem have overtaken.

1. `RiskState`, an abstract specification of what a scope promises across both
   stores (the breaker never closes, protections only tighten), implemented by
   `RiskEvents`, and `IntradayState` composed with it in place of its breaker
   and high-water mark.
2. The DAILY kind of `StateSnapshot`, over the store of `DailyRiskState`.
3. `PeriodicInvestment`: calendars, as recursive functions over bounded
   histories against a reference.

## Not modelled

Path safety (symbolic links, escapes), canonical JSON, digests as bytes and the
freshness of attestations are admission checks on input; they are guards that
can only refuse. The portfolio previews, strategies, signals, backtests and
research studies, which are nine tenths of the repository's lines, compute
numbers from histories and keep no state: what could be wrong with them is
numeric or statistical, which a bounded model of small integers would not show.
The share of all lines that the models cover is small for that reason, and the
share of the code that keeps state is large. Of the pure components only
periodic investment is waiting in the plan.
