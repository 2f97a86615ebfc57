# DNSReconciler: specification, model checking and proofs

DNSReconciler is an agent. One runs on every node, and every agent keeps the
DNS records of its node as the node's configuration has them: it finds out the
addresses of its host, lists what the DNS provider holds, and creates or
updates its records in passes that a scheduler starts. The zone is shared with
the agents of other nodes and with people, every provider call can fail, and
each agent's only memory is a state file. This directory holds TLA+ models of
the program (the Go sources under `src/src/internal`), TLC configurations that
check them on small instances, and theorems that TLAPS proves for every value
of the constants. Paths below are relative to `src/src/internal` unless they
name a document.

## 1. Inventory

| Component | State it keeps | Operations | Modelled in |
|---|---|---|---|
| reconciler (`reconcile/`) | none of its own | a pass over the templates; for each: list, then create or update; after a duplicate list again and update | `Reconcile`, which implements `DesiredState`; recognition of records in `Ownership`, `Recognition` |
| state store (`state/`) | the state file | load, update in memory, prune, replace by rename | `Reconcile` |
| shutdown cleanup (`cleanup/`) | reads the state file | delete each entry by id, clear the state | `Reconcile` |
| provider adapters (`provider/*`) | zone ids, capabilities, the plan of a Cloudflare zone | list, create, update, delete, refresh of the plan | `DnsProvider`; the plan in `PlanCache` |
| http client (`provider/httpclient.go`) | none | request with timeout | as calls that fail or lose their answer |
| run and reload (`app/app.go`) | `runState`: live configuration and providers, under a lock | startup, pass, reload, remote reload, shutdown | `RunState`, `Reconcile` |
| scheduler (`scheduler/`) | none | first pass at once, then with every firing of the schedule, plus jitter, until the signal | `Scheduler`, `Timing`; as passes that may start at any time in `RunState`, `Reconcile` |
| file watcher (`watcher/`) | `lastMod`, a channel of capacity one | baseline, poll | `RunState` |
| remote configuration (`config/remote.go`) | cached bytes, ETag, fetch time | conditional fetch under a TTL | `RunState` |
| loader (`config/loader.go`, `generate.go`) | none | look for the file, write a starter file, read, validate | `RunState`; source lists in `Discovery` |
| runtime context (`runtimectx/`) | a snapshot per pass | interfaces, container CIDRs, public addresses, private addresses | `Discovery`; as a snapshot in `Reconcile` |
| address resolver (`address/`) | none | the first usable source by priority, family and ranges | `Discovery` |
| container discovery (`containerrt/`, `reconcile/container.go`) | none | list networks and containers, filter, one template each | `Discovery`; as templates that come and go in `Reconcile` |
| defaults and expansion (`config/defaults.go`, `expansion/`) | none | inheritance, `${...}` | `Templates` |
| Azure token cache (`provider/azure/auth.go`) | a token and its expiry | fetch when a minute or less is left | `TokenCache`, `Timing` |
| logging and rotation (`logging/`) | the open file, its size, its day | open, write, rotate, prune | `LogRotation` |
| provider registry, credentials, request signing, command line, service managers | none | lookup, parsing, commands to systemd, launchd, Windows | not modelled: pure functions and I/O |

How they interact. `app.Run` loads the configuration, builds the adapters and
starts the scheduler, the watcher and the reloader as goroutines. They share
`runState` (under a lock) and the watcher's channel. A pass reads `runState`
once and goes on with what it read; it loads the state file, takes a snapshot
of the host, makes templates of the configuration and of the containers, lets
the reconciler make its provider calls, and saves the state. A signal cancels
the context of everything; when the scheduler has returned, the cleanup goes
through the state file. Agents on different nodes share nothing but the zone,
and know each other's records only by the comment (or, where the provider has
them, the tags) on them.

What is hard here:

* steps of several agents and of an operator between any two calls of a pass,
  with ids and listings that are stale when they are used;
* a create that takes effect though its caller sees an error, and a crash
  between a provider call and the save of the state file;
* recognising one's own record by free text;
* two goroutines that replace the live configuration, and a watcher that
  samples a file somebody else writes;
* a snapshot of the host made of several calls, each of which may fail, and
  walks over Go maps whose order differs from pass to pass;
* caches with a time to live (token, plan, remote configuration) that are used
  while calls take time, and a timer with jitter;
* files whose modification time goes back, and a log directory that two
  processes rotate.

What makes each component correct:

* reconciler: one record for each template of a node whatever fails, nobody
  else's record touched, the desired state reached once things calm down, and
  no more writes after that;
* state file and cleanup: every id written down is that of the template's own
  record or of none;
* recognition: a node finds what it wrote itself, also after its comment was
  edited or cut, and leaves what disagrees with it;
* run state: only a validated configuration goes live, edits are caught up
  with, a signal ends the process;
* discovery: the content fits the type of the record, bridges of containers
  are avoided, passes over a host at rest agree, the best source is followed;
* inheritance and expansion: a value of the host that is lost for a pass does
  not lose the record;
* scheduler and caches: no pass ahead of the schedule and none jumped over by
  jitter, no request with an expired token, no plan older than a day;
* log rotation: nobody writes to a file that was removed, the latest files
  stay, and a writer that lost its file gets another one.

## 2. Modules

```
DesiredState  <- Reconcile (INSTANCE)
Ownership     <- DnsProvider <- Reconcile <- MCReconcile <- MCSeparated
              <- Recognition <- Templates <- MCOwnership
Scheduler, TokenCache, PlanCache <- Timing <- MCTiming
RunState      Discovery <- MCDiscovery      LogRotation

proofs:  Reconcile <- ReconcileProofs <- RefinementProofs
         Recognition <- RecognitionProofs <- TemplatesProofs (and Templates)
         RunState    <- RunStateProofs      Discovery   <- DiscoveryProofs
         Timing      <- TimingProofs        LogRotation <- LogRotationProofs
```

**Ownership** is `findOwnedRecord` and its helpers. A comment is the empty
string, free text, or a JSON object (`form`) with key and value pairs, and the
words a text search finds in it. `BuildOwnershipComment` turns the quotes of a
template's comment and cuts it at 100 bytes: a cut comment is no JSON any more
and keeps some of its pairs as text. `Occurs` says which word is found within
which other one (`web1` in `web10`), as the code searches without word
boundaries; the empty value is found in everything. Strings are compared
without case.

**DnsProvider** gives the effect of each API call on a zone, a set of records,
in three groups: Cloudflare changes single records by id; Technitium adds
single records and names the one to update by its new content; PowerDNS,
Route 53 and Azure replace the record set of a name and type. The services are
outside the repository and taken as the adapters use them.

**Reconcile** is the main model: any number of nodes in one zone. `pc[n]` says
where the agent of node `n` is: between templates (`choose`), before a create,
an update or the second listing (`create`, `update`, `requery`), idle, in the
cleanup, stopped or crashed. Each provider call is an action, as that is where
others can come in between; the code from one call to the next is part of the
action, including the update of the state in memory. `snap[n]` is what the pass
read when it began (configuration, addresses), `mem[n]` the state in memory,
`file[n]` the state file, `cand[n]` the id an update will go to. `Fault` is a
call that fails, or takes effect and loses its answer, a save that fails, or a
crash. `select` may take the timer when the signal is there as well, so that a last pass may
begin after it, whose calls all fail. `Change` is the environment: an address, the configuration, `dryRun`, a
signal, an operator's hand in the zone. Records have a ghost field `by`, the
node and template that wrote them last. `--once` is a single pass, without
cleanup.

**DesiredState** is what the agents promise, without calls, ids or comments: a
pass looks once at what its node wants (`due`), and then brings about each
template at most once, by one record (`held`) that goes from one address to
the next in a single step. Records disappear when the node leaves or by hand,
and what people wrote (`foreign`) stays, unless it stands at a name that is one
template's alone. Every step counts as a change of the environment or does not
(`changes`, which both modules have): a step of an agent never does, so that
none of them passes for one of the environment, and an act in the zone from outside
(`Interfere`) empties or edits one record, or writes, edits or removes one that is
nobody's. `KeepsPromise` in `Reconcile` says that the calls amount to
this; the mapping is at the end of that module. A listing, a refused or failed
call, and a save map to a step that does nothing in the zone.

**Recognition** states what `FindOwnedRecord` has to satisfy, over all pairs of
comments. **Templates** says where these come from: a template takes the
comment of its provider when it has none (`MergeDefaults`, and the same again for
the templates of containers), and its values are expanded with those of the
host and of the container (`Expand`), where a value of the host may be empty and a label
missing, in which case the variable stays as it is written. Its steps are edits of the
template and changes of the values.

**RunState** is the process of one agent: `pc` is the main goroutine (startup,
scheduler, shutdown), `rpc` the reloader with `config.Load` as its three steps,
and `Poll` the watcher. A configuration is the number of the edit it came
from and whether it validates; the modification time of the file is the number
of its edit, or an earlier one where a backup was put back. The timer and the
signal may both be there, and either be taken. In remote mode the
local file is watched as well, as in the code.

**Discovery** is one pass's view of its host. `host` is the host as it is,
`snap` the snapshot as far as the pass has filled it; `pc` names the next call.
Interfaces that cannot be listed or read are
as if they were not there, like engines that do not answer. An address is a model value that is IPv4, IPv6 or mapped; a CIDR range is the
set of its addresses; a pattern is the set of values it matches. A walk over a
map is a choice. `content[t]` is what a template asked for last: `Reconcile`
takes over from there (its `addr`, which may change at any time, and its
template status are what `Discovery` produces).

**LogRotation** is `FileWriter` for any number of processes over one directory,
the service and a `--once` run: opening the file of the day, writing, turning
when the day or the size says so, pruning. `handle[p]` is the open file of a
process, which may have been removed by another (`gone`) or closed by a turn that
failed (`closed`); the date may be set back.

**Timing** composes **Scheduler** (`Run`, `nextDelay`, `computeJitter`),
**TokenCache** (`getToken` of the Azure adapter) and **PlanCache** (the plan of
the Cloudflare adapter and `refreshPlanIfStale`) over one clock. An action `Tick` lets time go by
for all three: the timer runs down, the token ages with its service and with the
agent, who counts from the arrival of the answer, and an outstanding question
comes nearer its timeout.

Where a variant of an action or operator stands beside the original, marked
`Mutant`, it is a plausible mistake in that code; `PROJECT.json` names the
property that detects it.

## 3. Runs

Passing runs:

| Run | Module | Question | Size |
|---|---|---|---|
| `shared` | MCSeparated | Two nodes publish their own addresses under one name in a Cloudflare zone; one of them cleans up at shutdown. `TypeOK`, `Inductive`, `OwnUnique`, `EntriesOwned`, `NoClobber`, `KeepsPromise`, `Converges`, `Quiesces` | about 131,000 states |
| `adopt` | MCSeparated | One node with two names of its own, where records with the same content may be there before and `dryRun` is switched: `Inductive`, `KeepsPromise`, `Serves` | about 152,000 |
| `ownership` | MCOwnership | Comments over two keys as they are inherited and expanded, with values one of which occurs in another, that change, or that cannot be had: `FindsItsOwn`, `LeavesTheirs`, `SurvivesEdit`, `LossTolerated` | about 104,000 |
| `runstate` | RunState | Four edits of local file and remote service, the times of the file going back, two faults: `TypeOK`, `OnlyValid`, `RemoteStands`, `CatchesUp`, `Terminates` | about 310,000 |
| `discovery` | MCDiscovery | A network card, a tunnel and a Docker bridge, three templates, one container that may be in a bridge and in a macvlan network, services that may answer with a page or the other family: `TypeOK`, `ContentFits`, `NoBridge`, `Steady`, `Follows` | about 234,000 |
| `rotation` | LogRotation | Two processes, three days, a foreign file the pattern fits, a clock set back and failed calls: `TypeOK`, `FileFound`, `FewFiles`, `SizeCounted`, `KeepsLatest`, `Resumes` | about 98,000 |
| `clock` | MCTiming | A schedule with two distances or one that never fires, the three kinds of jitter, tokens of three lifetimes, a plan that changes: `TypeOK`, `TokenValid`, `OnePerFire`, `NoneSkipped`, `PlanRecent`, `PlanFollows`, `PassesGoOn`, `SignalEnds` | about 147,000 |

Runs that find a documented statement violated by what the code does:

| Run | Statement | What happens |
|---|---|---|
| `rrset` | "without clobbering each other's entries" (`reconcile/helpers.go:102`), as `NoClobber` | In PowerDNS, Route 53 and Azure zones a create replaces the whole record set, other nodes' addresses included. |
| `dryrun` | "Log every planned change without touching the provider API" (README.md:68), as `DryRunWritesNothing` | The cleanup at shutdown does not look at `dryRun`, which a reload may have set. |
| `twins` | "Repeated runs must converge on the same correct state" (DesignSpecification.md:72), as `Quiesces` | A container in two routable networks gives two templates with one id, name and comment; each pass writes the one and then the other. |
| `technitium` | "Technitium update requires both old and new values" (`technitium/operations.go:58`), as `Serves` | Both values sent are the new one: after a change of the address the update names a record that is not there, in every pass. |
| `logsize` | "When a file exceeds MaxSize, the current file is closed and a new one is opened" (`logging/rotation.go:21`), as `SizeKept` | The new one is the file of the same day, which is the same file: it grows on, and is closed and opened at every line. |

Further differences between documents and code, which no run checks:

* "A node must only create, update, or delete records it can prove it owns"
  (DesignSpecification.md:68): with two nodes behind one public address the
  second create is a duplicate, and `record.go:244` adopts the first record of the
  name, the other node's. They take it from each other for ever. `Separation`
  excludes this.
* "All records owned by this node are deleted" (README.md:789): a template that
  left the configuration, or whose container stopped, is pruned from the state
  file (`app.go:267`) and its record stays.
* "each node must match exclusively via its own metadata"
  (`reconcile/helpers.go:102`): the text search runs after the JSON comparison
  has said no, and finds `web1` in `web10` (`helpers.go:187`).
* "Config changes are detected automatically and applied" (README.md:772): an
  edit between the loading of the file and the watcher's baseline
  (`app.go:317`), or one that leaves the file with an older time, is not noticed. `CatchesUp`
  is stated for the others.
* source type `explicit` (README) is unknown to the code, which has
  `explicitIPv4` and `explicitIPv6`; `addressFamily` of a source is read by
  nothing; an `addressSelection` counts only with `useGlobalDefaults: false`;
  `providerId` is looked up by id only, not by friendly name; the ownership
  modes `singleton`, `manual` and `disabled` are validated and then treated like
  `perNode`; fingerprints are written and never compared.

Bounds, and why they are enough. In `Reconcile` one fault and two changes: the
interesting histories need one lost answer, crash or failed call, and one
operator or another node at a bad moment; the second change lets a signal or a
reload be combined with an address that moves. A template that is dropped,
added and dropped again needs a third change, which the theorem
`OneRecordPerTemplate` covers and the run does not. Two nodes are enough for a
conflict over a name, and two templates of one node for one within it; the
invariant that covers all numbers is proved. In `RunState` four edits allow two of each source in
either order plus a removal, and two faults a crash in a pass after a failed
fetch. In `Discovery` two changes and one failed call suffice to have a bridge
disappear between two calls while an engine does not answer in another pass.
In `LogRotation` two files may stay of three days, so that the day before the
last one is pruned under a process that was late or whose clock went back; a file is full with two
units. In `Timing` a tick is 30 s, the timeout of a fetch and of a question: the
margin of a token is two ticks, a day is shortened to three, and the
distances of the schedule are shorter and longer than a pass. The bounds are the constants `MaxFaults`, `MaxChanges`, `MaxEdits`, `MaxCalls`, `MaxLength` and `LastDay`; as they
make the environment rest in the end, properties of the form `<>[]` say
what happens when it does.

Fairness. `Reconcile`: weak fairness of each agent's pass (the scheduler starts
a pass at every tick, calls have timeouts) and of the restart of an agent that
crashed (`service/manager_linux.go:24` and `manager_darwin.go:63` have it
restarted). No fairness for calls to succeed other than by the bound on
faults, and none for signals, cleanup or the operator. `RunState`: weak
fairness of the main goroutine, of the watcher and the reloader as long as the
context is not cancelled, and of the TTL running out; strong fairness of
`Shutdown`, as `select` chooses at random when both are there. `Discovery`: weak
fairness of the pass, whose engines answer or refuse. `LogRotation`: weak
fairness of the days going by and of the lines a process that runs has to log, which every pass does.
`Timing`: weak fairness of the calls of a pass, which are answered or time out,
and of the timer; strong fairness of `Tick`, as passes follow each other without
a pause under a schedule that never fires and yet each takes time; strong
fairness of `Returned`, as Go's `select` chooses at random when the timer and
the signal are both there.

## 4. Proofs

Every safety property and every action property that a passing run checks is
a theorem; each theorem holds for all values of the constants that satisfy the
assumptions of its module (`ReconcileAssumption` and the like), which TLC
evaluates in the runs. Each invariant of an induction was checked by TLC on an
instance of its module before it was proved.

**ReconcileProofs**, for any nodes, templates, contents, comments and bounds
that satisfy `Separation`:

* `InductiveHolds`: `Spec => []Inductive`, and from it
* `OneRecordPerTemplate` (`OwnUnique`), `StateFileNamesOwn` (`EntriesOwned`) and
  `NobodyClobbers` (`NoClobber`).

`Separation` is the assumption that comments tell records apart: the provider
is Cloudflare, every comment is a JSON object that fits within 100 bytes, no
node recognises a foreign record or that of another writer at the same name,
and those who share a name publish addresses nobody else does. Where it fails
the runs `rrset` and `twins`, and two nodes behind one address (section 3), show what
happens; `MCSeparated` has TLC evaluate it, so that the instances of `shared`
and `adopt` satisfy it.

The argument: a second record of a template could only come from a create, a
clobbered record from an update or a deletion by id. So the invariant has to
say what an agent's place in a pass guarantees. `HoldsNone`: from the listing
that showed none until the create, there is none, as nobody else writes records
recognised as the template's. `CandidateMine`: the id an update goes to is that
of the template's own record, of a foreign one it may adopt, or of none.
`RequeryExclusive`: a duplicate is met only where the name is the template's
own, which is what makes adoption right. For a listing to show what the
invariant needs, records must look as their authors make them (`ZoneShape`,
`Addresses`), and for an id to mean anything later, ids must be unique and not
given out again (`UniqueIds`, `IdsKnown`). `OwnUnique` and `EntriesOwned` are
part of the induction themselves.

Without `Separation`, for any comments:

* `TypeCorrect` (`TypeOK`), for any of the five providers; the induction needs that a call has a template in
  hand.
* `DryPassWritesNothing`, for any provider: a pass that began in a dry run leaves
  the zone as it is, whatever is switched while it runs. The run `dryrun` is therefore about the
  cleanup and nothing else.
* `OneRecordInSet` (`OwnUnique`) and `OwnNamesUnclobbered` (`NoClobber`) for
  PowerDNS, Route 53 and Azure. A record set has one writer at a time
  (`OneWriter`), as each call replaces it. Nobody is clobbered as long as every
  name is that of one template, which the theorem assumes: what the run `rrset`
  finds is due to the shared name and to nothing else.

**RefinementProofs**, under `Separation`: `PromiseKept`
(`Spec => KeepsPromise`), by a step simulation over `Inductive`. The start of a
pass is `Look`; a template that is skipped, is right as it is, or whose call is
refused or fails, `Pass`; a create or update that takes effect, with its answer
or without, `Publish`; a crash and the end of the cleanup `Halt`, its start
`Leave`, its deletions `Withdraw`; the environment `Move`, `Configure` and
`Interfere`, which the signal also maps to, as it leaves the zone alone; a listing that
leads to a call, a create that is refused as a duplicate, and a save are no
step at all. As only the last three are changes of the environment, an agent's
deletion has to be a `Withdraw` of its own record and can be nothing else. One more invariant is needed,
`InHand`: a call is made for a template that was taken off the list of its pass,
and never in a dry run. Without it a call could publish what is not due.
`OwnUnique` makes a create and an update end with one record, `CandidateMine`
makes the record an update replaces the template's own or one it may adopt.

**RunStateProofs**, for any bounds: `ProcessTyped` (`TypeOK`), `ValidOnly`
(`OnlyValid`) and `LocalFileWaits` (`RemoteStands`). The invariant adds `Quiet`
(nothing runs before the baseline is taken), `Later` and `Numbered` (edits are
numbered in order). `Later` has to do without "a later edit has a later time":
it says that the file is never from before the baseline, and that while it is the file
of the baseline its time is not after `lastMod`. So a signal, which takes a
time after `lastMod`, means that the file is of a later edit than the baseline,
and so is what the reloader then reads.

**DiscoveryProofs**, for any host, source lists and filters: `SnapshotTyped`
(`TypeOK`), `FamilyKept` (`ContentFits`), `BridgeAvoided` (`NoBridge`) and
`SteadyHeld` (`Steady`). The invariant adds `Fresh`: as long as nothing has
failed or changed, the ranges the pass excludes are those of the bridges there
are, and the private addresses it chose lie outside them. For `SteadyHeld` two
more: `Seen`, by which a pass that nothing disturbs knows the host as it is as
far as it has got, call by call; and `Settled`, by which after a whole such pass
each template asks for what the sources have to offer on that host (`Best`).
Both passes ask for `Best`, and `Best` is a single address where no source
leaves a choice (`BestSingle`).

**RecognitionProofs**, from `OwnershipAssumption` alone: `OwnRecordFound`,
`OthersLeftAlone`, `EditSurvived`.

**TemplatesProofs**: `TemplatesAreRecognised`, by which `Templates` implements
`Recognition` (what inheritance and two expansions make of a comment is a
comment), so that `TemplateFindsItsOwn`, `TemplateLeavesTheirs` and
`TemplateSurvivesEdit` follow; and `TemplateToleratesLoss` (`LossTolerated`). That
one is about two expansions of one text. A lost value makes the comparison of
the JSON objects fail, and the text search saves the record: it passes over empty values and finds every
other one in the comment, where the same text has put it. A comment that is no
object has no keys, and the first record of the name is taken.

**TimingProofs**, for any distances, jitters, lifetimes and bounds:
`TimingInvHolds`, and from it `TypeHolds` (`TypeOK`), `TokensValid`
(`TokenValid`), `NeverEarly` (`OnePerFire`), `NeverSkips` (`NoneSkipped`) and
`PlanStaysRecent` (`PlanRecent`). The invariant ties each clock
to the others: what the agent takes for the expiry of its token is not after
the service's by more than the fetch took, a fetch and a call take at most
their timeouts, and the margin covers both; the timer is never ahead of the
schedule; what the adapter goes by is as old as it says plus the time of a question.
`SleepInv` is for `NeverSkips`: until the schedule fires, the timer runs out
later than it by less than the share of some distance, and once it has fired,
before it fires again; a share that is no longer than any distance then leaves
no room for a second firing.

**LogRotationProofs**, for any processes, days, stray files and bounds:
`TypeHolds` (`TypeOK`), `NoFileLost` (`FileFound`), `FilesBounded` (`FewFiles`),
`SizesCounted` (`SizeCounted`), which are inductive together, and `LatestKept`
(`KeepsLatest`). They rest on two lemmas about pruning, proved from finite
cardinalities: what `PruneOldFiles` removes has `MaxFiles` later files, none of
which it removes (`LatestStay`), and when no removal fails no more than that
many are left (`FewStay`). A process whose file was removed by another one has `MaxFiles`
later files for good, as later removals leave them.

Only model-checked: liveness (`Converges`, `Serves`, `Quiesces`, `CatchesUp`,
`Terminates`, `Follows`, `Resumes`, `PlanFollows`, `PassesGoOn`, `SignalEnds`),
as it rests on fairness, which is out of the prover's reach. No model uses a
recursive definition.

`Converges` asks for exactly one record with the current address. Where
records of the same content may be there before, only `Serves` holds: an
operator's record with the new address makes the provider refuse the update of
the node's own record, which keeps the old one (`record.go:219`).

## 5. What the models leave out

* One zone and one provider in a run of `Reconcile`; templates of a pass in any
  order; TTL, the proxied flag and priorities, which the comparison of records
  ignores as well.
* A call that was given up on has taken effect by then, or never does.
* Whether tags are sent is constant in `Reconcile` (`TagsPlan`), though
  `PlanCache` shows that the plan may change; a test for it would be of the
  service, which refuses what its plan does not allow. Ids of records are never
  given out again, and requests and answers are not decoded.
* Two passes of one agent never overlap, but a `--once` run started by hand
  while the service runs shares its state file; this is modelled for the log
  directory only.
* A state file that does not decode, which the program does not leave behind as
  it replaces the file by rename: it ends every pass before its first call until
  somebody removes it (`state.go:71`).
* Schedule, time zone, state path and the TTL of the remote configuration are
  read once, at startup: a reload does not change them (`app.go:332`).
* The remote service sends an ETag. Services for public addresses that are asked
  one after the other (`resolver.go:141`) are one answer, or none.
* A listing is complete: the adapters ask for no second page, and one name with more
  records than a page holds (100 at Cloudflare and Route 53) is left out.
* Templates of containers whose engines do not answer are absent from a pass,
  also from one that begins after the signal; in `Reconcile` that is a
  `ConfigChange`.
* When a cron expression fires is the library's to say; a day with a change to
  summer time is a distance like any other.
* Container engines answer in full or not at all, per engine; one container
  template; sockets are found or not like an engine that answers or not. An
  engine that accepts a call and never answers would hold the pass for ever
  (`docker.go:41`).
* Expansion of names, contents and tags, and the inheritance of zone, TTL,
  proxied and tags, which follow the same rules as the comment.
* A disk that is full but lets a file be opened.
* Provider registry, credentials and request signing, command line and service
  managers: functions of their input, or commands to the host, without state of their own.

## 6. Plan

Done, in this order: `Ownership`, `DnsProvider`, `Reconcile` with its runs and
proofs; `Recognition`; `RunState`; `Discovery`; `DesiredState` and the
refinement; `Templates`; `LogRotation`; `Scheduler`, `TokenCache`, `PlanCache`
and `Timing` with its proofs.

Then the proofs: `RunStateProofs`, `DiscoveryProofs`, `RecognitionProofs`;
`RefinementProofs`, `LogRotationProofs`, `TemplatesProofs`; `Steady` and
`NoneSkipped`; and of `Reconcile` what holds without `Separation`.

To come:

1. The parts of `Separation` one by one: which of the theorems of
   `ReconcileProofs` need comments that are JSON objects, which need addresses
   nobody else publishes, and what a Technitium zone, where an update names its
   record by content, still guarantees.
2. A promise the record-set providers keep: `DesiredState` where writing a name
   takes away what people wrote at it.
