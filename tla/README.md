# Verification of the EX4300 to EX4400 migration tool

This directory models the migration tool in TLA+, checks the models with TLC on
small instances, and proves with TLAPS every safety property of every model for all
values of its constants.  The reference is the code under `src/`; a path below
without a directory is in `src/src/ex_migration_provisioner/`.

The tool is a set of command line programs that one operator runs, in turns, for
days.  It has no server and no shared memory.  What makes it hard:

- it writes to switches over a connection that may fail, or do its work and lose
  the answer, and every switch may undo a write by itself when its
  commit-confirmed timer runs out;
- two switches must change together, and each is committed on its own;
- the process may stop between a change and the record of it, and the record is
  two files;
- each command reads the records of all earlier ones, of this plan and of plans
  that have been replaced, and picks the ones it goes on from;
- other people work on the same switches.

The repository's tests drive single functions with canned device answers.  They
never stop a run between two steps, lose an answer, or let a timer fire.

## Components

| component | state it keeps | operations | what makes it correct |
|---|---|---|---|
| discovery (`ex_migration_discovery`) | `old-switch/collections/*` | collect | a collection is complete or ignored |
| analyzer (`ex_migration_analyzer`) | evidence sets, approvals, analyses, reviews | analyze all eligible collections, review | an accepted analysis explains every port, whatever the order of evidence |
| planner (`ex_migration_planner`) | plans, approvals | build, approve | no port is moved on a guess |
| operator workflow (`ex_migration_operator`) | physical-cutover acknowledgements, endpoint exceptions | status, and one command per phase | status and commands mean the same plan; the workflow comes to its end |
| EX4400 pre-stage (`cli_base.py`, `write.py`, `render.py`) | packages, renders, bootstrap identity, transactions | prepare, render, identify, run | a recorded success is live; a failed one is undone |
| old-switch management and probe (`temp_management_cli.py`, `precutover_probe_cli.py`) | transactions, probe records | stage, disable and enable silent ports | a touched port is enabled again |
| QFX transaction (`qfx_stage*.py`, `qfx_transaction.py`, `attachment*.py`) | attachments, plans, transactions | discover, plan, stage both switches | both switches change or none does |
| endpoint activation (`endpoint_stage*.py`) | observations, correlations, transactions | correlate, configure ports | an endpoint has one port and a port one endpoint |
| port state and reports (`port_state*.py`, `cabling_report.py`) | comparisons, reports | compare, report | a report covers what was committed for this plan |
| cleanup (`recovery_cleanup*.py`, `access_hardening.py`) | cleanup plans, transactions | disable unused ports, narrow the uplink, delete unused VLANs | only over live endpoints, only what was approved, kept only when validated |
| site baseline (`ex_migration_site`, `ex_migration_qfx_bootstrap`) | discoveries, inventory, active policy | create ESI-LAGs, stage, publish | the policy offers only what is live on both switches |
| artifact store (`core.py` and every `write_*`) | all of the above | write once, verify | a record is whole or not there |
| out-of-band baseline (`ex4400_baseline`) | one CSV inventory for all migrations | find the new switch, one plain commit, update its row | READY is true, and gone after a failed repetition |

They interact through files only: each command reads the records under
`migrations/<id>/` that others wrote, and every record names its inputs by
digest.  Through the switches they interact with administrators and with each
other's timers.

## Modules

| module | what it is | code |
|---|---|---|
| `Junos` | a switch: running, rollback 1, candidate, timer | external, from the calls of PyEZ `Config` |
| `PairChange` | abstract: what a coordinated change of two switches promises | `qfx_transaction.py:61-66` |
| `QfxTransaction` | one run of `qfx-stage`, step by step, any number of times | `qfx_stage_cli.py`, `qfx_stage.py`, `qfx_transaction.py` |
| `EndpointLedger` | abstract: the ledger of completed endpoints | `endpoint_stage.py:187-203` |
| `EndpointActivation` | `activate-endpoints` with its history of records | `endpoint_stage_cli.py`, `endpoint_stage.py` |
| `PairBaseline` | ESI bootstrap, site discovery and site stage | `ex_migration_qfx_bootstrap`, `ex_migration_site` |
| `PhaseWrite` | pre-stage `run`, `stage-old-recovery` and `pre-cutover-probe`, step by step | `cli_base.py`, `write.py`, `temp_management_cli.py`, `precutover_probe*.py` |
| `Cleanup` | the final cleanup of the EX4400, step by step | `recovery_cleanup*.py`, `access_hardening.py` |
| `MigrationIntent` | collections, composite evidence, review, plan | analyzer and planner |
| `GuidedWorkflow` | status, next action and every command it offers | operator, and the records of all phases |
| `OutOfBandBaseline` | `ex4400-baseline` for many migrations at once, and what pre-stage takes from its inventory | `ex4400_baseline/cli.py`, `core.py`; `ex_migration_operator/current_cli.py`, `cli.py`, `write.py` |
| `...Proofs` | theorems about the model named before it, seven modules | |
| `MC...` | small instances | |

`QfxTransaction`, `EndpointActivation`, `PairBaseline`, `PhaseWrite` and `Cleanup`
extend `Junos`;
`QfxTransaction` implements `PairChange` and `EndpointActivation` implements
`EndpointLedger` under refinement mappings; `GuidedWorkflow` extends
`MigrationIntent`.  In a model `Faults` is a constant set.  Where a property holds only as
long as nobody else commits and no timer overtakes the run, a history variable
(`disturbed`, in `PhaseWrite` `overtaken`, in the abstract modules `void`) records that
this happened, and the property is claimed until then: one run with every fault
answers both what holds always and what holds when nothing interferes.

A timer may overtake a run in every model (only the run `pair_baseline` leaves the
fault out, see `PairBaselineProofs` below).
A confirm window may be one minute
(`cli_base.py:793`, `recovery_cleanup_cli.py:284`) while each RPC may take 120 seconds
and validation as long as it likes, so the window of a command's own trial can close
before its final commit or its rollback.  The code does not notice:

- the final commit is then an empty one, and is recorded as COMMITTED_AND_CONFIRMED
  although the change is gone (`cli_base.py:999-1012`,
  `recovery_cleanup_cli.py:740-752`, `endpoint_stage_cli.py:647`);
- rollback 1 is then the change itself, which the explicit rollback commits for good
  and records as rolled back (`cli_base.py:977-987`, `recovery_cleanup_cli.py:260-274`,
  `qfx_stage_cli.py:162`).

### Junos

A configuration is a set of statements.  The assumptions, none of which the
repository's code states in one place:

- every commit moves the configuration it replaces to rollback 1; so do the
  commit that confirms an earlier one and the automatic rollback.  The code
  relies on it: `_rollback_pair` takes a confirmed device back with inverse
  statements and an unconfirmed one with rollback 1;
- `commit_check()` may confirm a commit that waits for confirmation.  Both
  outcomes are modelled;
- unlocking, or losing the session, discards the candidate;
- the automatic rollback replaces the shared candidate too.

### QfxTransaction

`pc` is the place in `run` (a phase of the whole pair or of one role); `locked`,
`committed` and `confirmed` are the code's `locked_roles`, `committed_roles` and
`final_confirmed_roles`; `tx` is the transaction in memory and `record` the one
on disk with whether its integrity file agrees.  Each loop over the roles is one
action per role, in the code's order.  The two `except` clauses of `run` are
`RpcFails` and `PersistFails`, `_rollback_pair` is `RollbackRole`, and `Crash` is
everything they do not catch: `KeyboardInterrupt` and the death of the process.
Devices differ only in what happens to them, so the VLANs of the aggregate are
all of a configuration.

### EndpointActivation

`history` holds the transaction records, which may be torn; `Historical` is what
`committed_endpoint_state` reads from them, `Completed` is what is left of it after
`_reconcile_completed_state` compared it with the switch, `Candidates` and
`Activated` are the two halves of `correlate_endpoint_intent`.  The evidence a run
works on is any relation between endpoints and ports: a MAC is where it is
plugged in, and people move plugs.  One run at a time; a second shell would be
one more administrator who commits.

### PairBaseline

Two commands over one pair.  Neither keeps a record of an attempt, so what is
left of a dead one is only on the switches.  `discoveries` are the approved
discoveries with the inventory directory of each, `policy` is the published policy.
A discovery is named by the LAGs it found and by those that carried the management
VLAN already, per switch (`Managed`); of what else the digest of the code covers,
profile and identities of the pair do not change here, and the reasons why other ports
are blocked are left out.  The pair found again as it was is no new discovery.  A port
stands for an ET interface with its AE, whose numbers the code derives from each other.

### PhaseWrite

Three commands over two switches, `command` says which is at work and `sw` on
which switch.  `run` and `recovery` share their points (lock, load, check, prompt,
commit, validate, confirm) and differ where the code differs: `run` looks at no
left-over candidate, saves its verdict before the final commit and rolls a failed
validation back; `recovery` leaves it to the confirm window.  The probe commits
twice for good, `disabled` is its `disabled_by_probe`, `Restore` its emergency
restore.  `bound` is the host name the pre-stage was identified with: `run` refuses
a switch that has another, unless `identify` was run again by hand.  `record` is the
newest transaction of each command and `succeeded` remembers whether an older one
says success, because each attempt has a directory of its own.  `TimerExpires` may come
at any point; `overtaken` are the commands on whose own trial, still at work, it did.
What the records of such a command say is no longer claimed, of the other it is.  A silent port is one
statement, "interfaces p disable".

In `stage-old-recovery` the branch for a payload that is already present
(`temp_management_cli.py:275-292`) is never taken: a port that is not
configuration-empty is refused before (`:85-91`).  The model has no such step.

### Cleanup

`recovery_required` is always False in the code, so no QFX statement is ever made
and the EX4400 is the only switch written; of the branches of `_rollback_all` only
rollback 1 of the EX4400 is reached.  The window may close on the run between its trial
commit and its final commit or rollback, and an administrator's commit confirms an
open trial; either sets `disturbed`.  `config` and `delete` are what the run read
before its lock, and `Recheck` says what is read again under it and what is not.
`plans` are the plan directories, named by their content and made once.  Clients
come and go at any time (`up`, `talking`), an administrator may put a port into
a VLAN or take it out.

### OutOfBandBaseline

One shell works on a migration at a time, shells of several migrations overlap.
`pc[m]` is the place in `main`; `rec[m]` is what its `record` knows and the status
it writes next.  `_write_status` takes two steps, because `upsert_inventory` reads
every row (`ReadRows`), puts its own in and replaces the file (`ReplaceRows`):
`seen[m]` are the rows of the others as they were read.  `Fail` is the way of every
exception and of Control-C through the inner `finally` to the handler that writes
FAILED, and `WriteFails` the write that raises, handled in `main` and swallowed in
the handler.  A candidate is never visible to anyone but the lock's owner here, so
`Lock` takes in loading and `commit_check()`, and a switch either runs the baseline
or not.  The network is its own actor: `arp` lags behind `lease`, and nothing in
the code compares the MAC behind the EX4300 with the switch that answers at the
address.  `TakeAddress`, `Identify` and `Prestage` are what the guided workflow does
with a READY row; `Prestage` writes to the switch that answers at the bound address
(`Answering`), after comparing its serial number with the pinned one; an address the operator types instead is left out, since nothing
is known of it.

### MigrationIntent and GuidedWorkflow

Evidence sets, analyses and plans are named in the code by digests of their
inputs, here by the set of collections they are made of.  A collection is what one
discovery found: mode of each port, where each client was learned, the VLANs,
the management configuration, and whether the policy accepts it.  Collections and
approvals are ordered by time because the code picks the latest.

`NextAction` is `workflow_status` of `ex_migration_operator/current_cli.py` over
that of `core.py`, a chain of conditions in the order of their early returns. The
commands behind it are actions; `prestage` and `activate` consist of steps, each
asking for a new status as the code does, and discovery may add a collection
between any two of them. `Newest` is `choose_approved_plan`, by which commands
choose, `StatusPlan` the plan the status means. The policy under which an
old-switch recovery checkpoint is always satisfied (`policy_cli.py:47-64`) is the
live entry point and is the one modelled. `EndpointsHaveEvidence` says of an
activated port that a client was seen on it that was seen on no other access port,
unless that was an uplink when it was: a plan takes the mode of a port from its
last collection. A port without a data VLAN is taken to be up; a down one is
unused and concerns nobody. Device transactions are one step here.

## Runs

| run | faults | states | what it shows |
|---|---|---|---|
| `qfx_faults` | failing and lost RPCs, disk errors, crashes, early timers, an administrator | 38 thousand | a trial is exactly the approved statements over the exact baseline; a committing run ends.  Until disturbed: a change is kept only after a recorded validation; COMMITTED and ROLLED_BACK records are true; one-sided results are visible; `PairChange` is implemented |
| `qfx_lost_false_rollback` | lost answers | violation | finding 1 |
| `endpoint_faults` | failing and lost RPCs, disk errors, crashes, leftover edits, early timers, a committing administrator | 3.3 million | a trial is exactly what was approved.  Until disturbed: what the history says is live, ports are never shared, an ambiguous endpoint is never tried, the ledger is implemented |
| `pair_baseline` | failing and lost RPCs, disk errors, crashes, an administrator on one port | 0.9 million | the published policy is live on both switches; LAGs only on free ports; nothing rides along; every write comes to rest |
| `pair_baseline_one_sided` | failing RPCs | violation | finding 2 |
| `phase_write` | failing and lost RPCs, disk errors, crashes, early timers, leftover edits, identities bound again | 4.6 million | a trial is what was approved and recorded; the old switch gets nothing of other people's; a port known to be disabled comes back.  Until a window has overtaken a command: its success and rollback records are true |
| `phase_probe_lost` | lost answers | violation | finding 3 |
| `cleanup` | failing and lost RPCs, disk errors, crashes, early timers, leftover edits, a committing administrator | 2.3 million | the hardening goes on trial alone and over live endpoints.  Until disturbed: it is kept only when validated; records that say committed or rolled back are true |
| `oob_baseline` | failing steps, lost answers, disk errors, crashes, an address that moves | 8.3 million | a READY row is the work of its migration's last run until a row is lost to another shell; a run leaves a row that tells how it ended; only the pinned switch is pre-staged, and it is the one behind the EX4300, with the baseline, unless an address moved |
| `oob_lost_update` | failing steps | violation | finding 5 |
| `guided_workflow` | failing commands, crashes | 0.4 million | status and commands agree, lineage is complete, no port is moved on a guess, the workflow completes when nothing stands against it |
| `guided_replan` | none | violation | finding 4 |

Each property of a passing run has a mutant in `PROJECT.json`: a plausible bug in
the modelled code for which TLC reports that very property.

### Bounds, and why they are enough

- Two QFX switches are all there are.  A configuration is a baseline, one VLAN to
  add and one foreign VLAN: statements are added and removed as sets, so more
  VLANs of a kind behave as one (and the theorems hold for any number).
- Endpoint activation has two intents, two ports and two VLANs: a conflict needs
  two intents on one port or one intent on two.  `MaxTransactions = 2` records: a
  contradiction in the history is between two of them.  An administrator edits
  only a clean candidate and commits once: after that the properties about the
  history are void, and the one about a trial speaks of one edit at a time.  The two
  ports are interchangeable (`PortSymmetry`).
- The baseline has two ports, one of them open to an administrator, and three
  initial pairs: blank, provisioned, used on one side.  `MaxDiscoveries = 2`: an
  inventory left half written by one discovery and passed over by the next needs two;
  site-stage only ever looks at the last.  The theorems hold for any number.
- `phase_write` has one statement of each kind and one silent port: payloads are
  loaded, committed and taken back as sets, and the ports of a probe are disabled
  and enabled together.  The run with two ports is `phase_probe_lost`.
- `cleanup` has two ports, every choice of which have a completed endpoint, and one
  stale VLAN, so that a port may be taken into use while the other is in use.
- `oob_baseline` has two migrations, two switches in every way of cabling them and
  two addresses: a lost row needs two writers, a wrong switch two addresses.  One
  migration goes on to pre-stage, because the workflows of two have no state in
  common.  One switch changes its address once, and no run begins after a row was
  lost: both make later properties void or repeat what was seen.  Switches and
  addresses are interchangeable (`Symmetry`; the run has no liveness property).
- The workflow has two ports, two clients and at most three collections of eight
  kinds: a moved client, a changed configuration and a history that explains a
  silent port each need two, and a third may come while a plan is at work.
- `CHECK_DEADLOCK FALSE` is set where the system may stop: the workflow, when it is
  complete or when a command refuses for ever.

### Fairness

- A run computes on and each RPC has a timeout (`timeout=120`), so some step of the
  run always happens: weak fairness of `RunStep`, in `PhaseWrite` of `CommandStep`.
  `Cleanup`, `EndpointActivation` and `OutOfBandBaseline` have no liveness property:
  that a run of theirs takes a bounded number of steps is proved (`Termination`), and
  how it ended is what their invariants are about.
- A commit-confirmed timer fires: weak fairness of `TimerExpires`.
- No fairness is assumed of the operator's answers, of starting a run, of crashes
  or of administrators.  What a run promises before its prompt is therefore
  nothing, and `CommitRunEnds` speaks of runs that committed.
- `Completes` is about an operator who does keep running what is offered (weak
  fairness of `Step`), whose commands do not fail for ever, whose pre-stage run
  succeeds in the end if it ever can, and who finds the endpoints searched for
  again and again (strong fairness of `RunRecorded` and `FindAll`).  Without the
  first, nothing is promised; without the others, a device that is down for ever
  would be a counterexample.  `Clear` lists what the code has no way around.

## Proofs

Every invariant and every action property that a passing run checks is the
conclusion of a theorem, for all values of the constants and under every fault the
model has.  The theorem that goes with a property is listed in `PROJECT.json`.

The argument has the same shape everywhere.  `TypeCorrect` comes first, one case per
action, after lemmas that type the operators of `Junos` for the module's statements.
A property speaks of the moment something is kept, recorded or offered, and is
seldom inductive; the invariant that is says what the run has established at each
point before.  A step lemma per action (or per group that touches the same state)
preserves it, and an action property follows from the invariant before the step.
Where a property holds until the first disturbance, a lemma says that a disturbance
is never taken back, and the invariant needs to hold only while there is none.

### Termination

The liveness properties need fairness, which the prover does not handle.  What of
them does not is `Termination`, proved of six models: a number `StepsLeft` is bounded,
is zero exactly between runs, is lowered by every step of a run, whatever fails, and
every other step is one of the environment (timers, administrators, clients, other shells).  So no
`except` clause or retry comes back to where it was, and a run that keeps moving
ends.  The bounds are 22 steps for `QfxTransaction`, 15 for `Cleanup` and
`PairBaseline`, 14 for `PhaseWrite`, 13 for each migration of `OutOfBandBaseline`
whatever the other shells do, 11 for `EndpointActivation`.  They count steps of the
model, that is calls to a device, prompts and writes.

### QfxTransactionProofs

Assumes `ConfigAssumption` (the VLANs to add are some, and not in the baseline; the
foreign ones in neither, as `derive_required_qfx_vlans` makes them).

- `TrialSafety`: `Spec => []TrialOverBaseline`.  `TrialInv` adds to the property what
  holds before the commit: a locked device has a clean candidate until it is loaded,
  after `Revalidate` it runs the baseline, after loading its candidate is the staged
  configuration.
- `KeptSafety`: `Spec => []KeptOnlyAfterValidation`.  `KeptInv` relates each device to
  the run: its running configuration and rollback 1 are the baseline or the staged
  configuration, and where the run stands decides which; up to the final confirmation
  every committed device is on trial; `confirm` and what follows it are reached only
  with a passed validation in memory and on disk; once something failed, a committed
  device that has not been dealt with still runs the change.  The exception for
  disturbed runs is needed: a window that closes before a failing validation makes
  rollback 1 the staged configuration, which the explicit rollback then commits for
  good.
- `PairRefinement`: `Spec => PairSpec`; a step that disturbs, and every step after it,
  is an `Interfere` of the abstract pair.
- `ConfirmedSafety`, `RolledBackSafety`, `OneSidedSafety`: what the record on disk says
  is true of both switches.  `RecordInv` follows the verdict: each one is formed in
  memory at one point, reaches the disk at the next, and is overwritten before the
  following run commits.  The part about rollbacks needs that every answer has
  arrived (finding 1 is the case in which one has not); the part about success does
  not, and rests on the fact that no plan passes over a pair that has the change.

### CleanupProofs

Assumes only `FaultsAssumption`.  `TrialSafety` holds under every fault; `KeptSafety`,
`CommittedSafety` and `RolledBackSafety` hold until disturbed.  `LoadInv` holds always
and is enough for the first: no trial is open from the plan to the commit, the
candidate is the hardening once it is loaded, and the completed endpoints are live
under the lock.  The other invariants hold until disturbed: `DeviceInv` (the switch
runs the old or the hardened uplink, and a trial is over the old one), `RunInv` (which
of them at each point, and that the trial of a run at work is open until it is
confirmed or taken back: this is what a window that closes too early breaks), `TxInv`
(where each verdict is formed) and
`RecordInv`.  The last one shows why no run follows a recorded success and why a
ROLLED_BACK record cannot survive into a later trial: the run writes its approval
over it before it commits.

### PhaseWriteProofs

Assumes `PayloadAssumption` (each payload has some statement) and `DisjointAssumption`
(render, transit port, silent ports and foreign edits are different statements).

- `TrialSafety`: the diff that goes on trial is the one on record, edits left by
  others included.  `CandidateInv` keeps the payload in the candidate from loading to
  commit, unless something discarded the candidate in between, when the diff is empty.
- `OldSwitchSafety`: `ForeignInv` says that no edit of others ever runs on the old
  switch, because `recovery` and the probe look for one after taking the lock.
- `SuccessSafety`: `TrialInv` ties the success in memory to a confirmed commit, unless
  the window has overtaken the command.  That it stays true rests on `CandidateInv` again: a candidate holds all that runs but
  silent ports, so no later commit of any command takes a payload away, nor is it
  missing from the rollback 1 of a later trial.
- `RolledBackSafety`: `GoneInv` has to speak of rollback 1 as well as of the running
  configuration, and of a trial that an earlier attempt left to its timer: the next
  attempt commits over it.  It holds while the window has not overtaken `run`; after
  that, rollback 1 may be the render.  What `recovery` is overtaken in does not matter
  to it: that is another switch.

### PairBaselineProofs

Assumes `InitialAssumption`, `OpenAssumption` and `DiscoveriesAssumption`, which only
type the constants.
`TrialSafety` and `FreePortSafety` hold under every fault.  For the second the ports
must be free on rollback 1 too, and `PriorInv` helps: a trial of either command only
adds.  `PolicySafety` is proved under `NoOvertaking`: no timer fires before a command
is through.  The code leaves it open (`ex_migration_site/cli.py:604`): site-stage run
again while the trial of a lost attempt waits for its timer finds empty diffs and
publishes what that timer then takes away.  Without the hypothesis the property is
false; it is a hazard in `PROJECT.json`, and the run has the same exception.

### EndpointActivationProofs

Assumes `PlanAssumption` (`NoVlan` is no VLAN), `BoundAssumption` and
`FaultsAssumption`; the number of records is any.

- `TrialSafety` and `OneVlanSafety` hold under every fault.  `OneVlanPerPort` needs
  `VlanInv`: between the check before the lock and the commit, the memberships of a
  port to be activated agree with what will be added to it.
- `RecordedSafety`, `UnambiguousSafety` and `LedgerRefinement` hold until disturbed.
  `LedgerInv` says that the ledger and the rows of the run at work are one to one and
  clear of each other, `LiveInv` that what is recorded is in the running
  configuration, in rollback 1 while there is a trial and in the candidate while
  there is one.  They are invariant together only: that loading takes no port of a
  completed endpoint away is the first, that `Completed` is all of the ledger the
  second.

### GuidedWorkflowProofs

Assumes `ObservationAssumption`, `NowhereAssumption` and `CollectionsAssumption`, which
type the observations and bound the discoveries.  `SamePlanSafety`, `LineageSafety`,
`EvidenceSafety` and `FinalizedSafety` rest on `PlanInv` (every plan was accepted, from
collections there are), `WorkInv` (a command works on records an earlier one wrote),
`NewestInv` (a plan of all collections is the newest), `StagedInv`, `EndpointInv` and
`FinalizedInv`.  `NewestInv` is why status and commands mean the same plan: the guide
builds no plan while there is one of all collections, and a new collection is in no
plan yet, so the status waits for the next one.  That a set of plans has a latest
element comes from the library's theorem that finite sets are well-founded under
strict inclusion.

The first attempt to prove `EndpointsHaveEvidence` failed for a reason.  The property
said that the client of an activated port was never seen on another access port of
the plan; but a plan takes the mode of a port from its last collection, and a client
may have been learned on what was an uplink then.  A larger instance gave the
counterexample, which is what the code means to do, and the property and the
instance now have the case.  Likewise the chain of `NextAction` was first a `CASE`
whose guards overlap, of which nothing can be proved that depends on their order.

### OutOfBandBaselineProofs

Assumes that the no-value `None` is no switch and no address and that the guided
migrations are migrations (`GuidedAssumption`); there may be any number of them.

- `TypeCorrect`: typing needs `Path`, that a run has an address when it connects and a
  switch when it commits.
- `ReadySafety` and `ReportSafety`, from `RowInv`.  `RowTells` adds to a READY row that a
  run about to write READY has committed, and that a run about to end has told its
  outcome.  `OneRow` is the heart: if nothing was lost, replacing the file changes one
  row.
- `StagedSafety`: `Pinned` holds always; `WhereInv`, until an address moves, follows
  the address from the ARP table through `rec`, the file, the rows other shells have
  read (`seen`, where a READY row may survive its retirement) and the pinned identity.
  It needs no assumption about lost rows: a stale READY row is old, but still right
  about the switch.

### Only model-checked

- The liveness properties `CommitRunEnds`, `WriteEnds`, `TouchedPortsComeBack` and
  `Completes`: fairness and ENABLED are beyond the prover.  `Termination` is the part
  of the first two, and of nothing else, that needs neither.
- The five violations: a counterexample is an instance.
- `Junos` and the abstract modules have no theorems of their own; what holds of them
  is proved where they are used.

## Findings

1. If the answer to a final confirmation is lost, the QFX rollback restores the
   staged configuration and the record says ROLLED_BACK.
2. When the second final confirmation of the bootstrap or of site-stage fails,
   rollback 1 of the first switch is the staged configuration: the LAG stays on
   one side.
3. If the answer to the probe's disabling commit is lost, the probe does not know
   that it disabled anything and leaves every touched port disabled for good.
4. After a pre-stage, a new collection leads to a new plan whose pre-stage cannot
   be recorded: the bound host name is the one before the first run, and a run
   that changes nothing leaves no record.  The workflow offers `prestage` for ever.
5. Two baseline runs that overlap lose each other's inventory rows: the file is
   read, changed and replaced without a lock.  A row that a new run has marked
   IN_PROGRESS or FAILED is READY again, although `docs/ex4400-baseline.md:159` says
   that marking it prevents this.

`PROJECT.json` gives the lines of each.  The models show more that the code does not
guard; each is a hazard there, and the properties say what they assume of it:

- a confirm window that closes on a command at work: the final commit or the rollback
  that follows leaves a record that is false (see Modules above);
- an interrupt between the two final confirmations leaves one QFX changed for good
  (`provisioning-design.md:120` calls one-sided success unacceptable);
- a completed endpoint whose port an administrator cleared is opened again; once it
  is activated elsewhere the history contradicts itself and every later command
  refuses to read it;
- the cleanup looks for references to stale VLANs in the configuration it read
  before its lock, so a port put into such a VLAN meanwhile loses it;
- a cleanup stopped after its final commit and before its last record can not be
  repeated: the uplink no longer carries "all";
- a baseline run takes the address from an ARP table that may be old and installs
  the baseline on whatever EX4400 answers there, and the identity pinned later is
  that of whoever answers by then;
- dead ends of the guide, excluded by `Clear`: a collection the policy rejects, a
  probe whose own collection makes its plan stale, an acknowledgement written by
  half, a review that can not be repeated, exceptions that cleanup does not accept.

## Not modelled

- Text: parsing of show output, rendering, reports, the settings files.  A check
  over text is the outcome of the check.
- Two operators at once on one migration.
- Commands run out of turn by name (`migrate <id> build` while another action is
  offered).  `Build`'s mutant shows what that does to the lineage.
- Staleness by settings and policy digests, which every command compares.
- `netconf_bootstrap.py`, which enables NETCONF on an EX4300 over SSH before a
  baseline run: one plain commit of the shared candidate, with no lock and no diff.
- The simulator, and the reading of the post-cutover observation, whose outcome is
  the evidence `EndpointActivation` starts from.

## Plan

1. Proofs: `TouchedPortsComeBack` without its fairness (once the enabling commit is
   out, no step but another `disable` takes a port down again); an abstract promise of
   a commit-confirmed change of one switch, which `Cleanup` and `run` of `PhaseWrite`
   both implement, as `QfxTransaction` does `PairChange`; that a plan is pre-staged
   for good only once (finding 4 seen from the proof side).
2. `ArtifactStore`: mkdir, body, integrity, and the readers that skip, refuse or
   write again; the identifiers that do and do not contain a time.
3. Algorithms against reference definitions over bounded inputs: VLAN derivation
   (`current_policy.py:188-226`), port-state classification, the mapping of the
   cabling report.
4. A run for the probe that makes its own plan stale.
