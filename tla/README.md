# A TLA+ development of tollgate-lab

tollgate-lab drives a shared hardware bench: smart-card readers behind one pcscd
daemon, boards with serial ports, a PoE switch that powers routers, and routers that
run FIPS and TollGate. Several sessions - people, lanes, agents - use the bench at the
same time, each from processes of its own that share nothing but files, flocks and the
devices. This directory models the parts whose correctness depends on how those
processes, the devices and their failures interleave; TLC checks them on small
instances and TLAPS proves the main results for all values of the constants.

Paths below are relative to `src/tollgate_lab/`.

## 1. Inventory

### Components, their state and operations

| Component | Code | State | Operations |
| --- | --- | --- | --- |
| pcscd domain lock | `hardware/pcscd_domain.py` | one flock'd file, the holder's text in it, journal lines | `acquire_pcscd_reader` (LOCK_SH), `acquire_pcscd_disturbance` (LOCK_EX), `release`, reading the holder for the error |
| pcscd-ctl | `pcscd_ctl.py` | none of its own: the pcscd daemon, labgrid's places, the domain lock | `restart` with two labgrid checks, systemctl and the wait for PC/SC; `status` |
| board reservations | `reservation.py` | one JSON file per board with an expiry | `reserve`, `release`, `BoardReservation`, `status`, `reclaim_if_expired` |
| session registry | `session_registry.py` | one JSON file per session under its flock, the journal | `session_begin`, `note`, `add_pid`, `end`, `sessions_status` |
| stock-firmware switch driver | `drivers/stock_zyxel_poe.py` | the bench flock, a StockWeb | `on`, `off`, `cycle`, `get` |
| stock-firmware web client | `hardware/zyxel_stock.py` | login, xssid token, the switch's single web session | `_login`, `_fetch`, `post_cmd`, `poe_status`, `set_poe_state`, `save_config`, `reboot`; other maintenance calls |
| OpenWrt switch driver | `drivers/zyxel_poe.py` | the port's MCU, the daemon's cached info | `on`, `off`, `cycle`, `get`, `_verify_manage` |
| bench lock | `hardware/bench_lock.py` | a flock'd file with the holder's text | `acquire_bench_lock`, `release`, `read_bench_lock` |
| hardware.lock | `hardware/lock.py`, `hardware/__init__.py` | a file with user and timestamp | `acquire_hardware_lock`, `require_hardware_lock`, `release_hardware_lock`, `HardwareLock` |
| disk hygiene | `disk_hygiene.py` | free space, build trees | `ensure_run_headroom`, the two prunes, the command with `--force` |
| artifact deployment | `deploy/ci_artifact.py` | one build directory that every process uses; the router's packages, service and power | `deploy_branch`, `deploy_portal`, `ensure_artifact`, `download_artifact`; `reboot_router`, `factory_reset`, `firstboot_reset` |
| FIPS / TollGate deployment | `deploy/fips.py`, `deploy/tollgate.py` | the router's packages and services | `install_fips_on_router`, `install_tollgate_on_router` |
| router driver | `drivers/router.py` | on the router: config.json, the backend that has read it, its sessions, nodogsplash's; locally: one temporary file | `apply_pricing`, `restore_pricing`, `ensure_test_mint`, `replace_mints`, `reset_state`, `pay_direct`; reads |
| OpenWrt strategy | `strategy/openwrt.py` | one state of five | `transition` |
| wrappers, lookups, probes | the rest | none between calls | one call each |

PROJECT.json lists every component with its files and its status.

### How they interact

- *Shared files and flocks.* The domain lock, the bench lock, a session's file and the
  stock driver's lock are flocks: the kernel drops them when a process dies, and two
  opens by one process conflict like two processes. Reservations and hardware.lock are
  plain files: a check and the write that follows it are separate steps.
- *Composition.* `pcscd-ctl restart` takes the domain lock as a disturbance and asks
  labgrid for foreign places before and after it does. The stock driver runs every
  toggle through the web client under a lock file. A harness run takes the bench lock, runs
  the disk hygiene and then takes hardware.lock, in that order; people and commands outside
  the bench rules use the last two without the first.
- *A shared directory.* Every download removes `BUILD_DIR`, fills it and picks from it, under
  no lock; the copy to the router comes after the test dependencies have been installed. A
  removal that fails goes unnoticed.
  `ensure_test_mint` goes through one file in /tmp, whichever router it is for.
- *Devices.* The switch's web session belongs to whoever logged in last. Its answers do
  not say whether a write was taken. The OpenWrt switch's MCU may refuse what the daemon
  accepted, and `poe info` lags behind it. A router answers a failed ssh command with "".

### What is hard, and what makes each part correct

| Part | Hard behaviours | Correct when |
| --- | --- | --- |
| domain lock | polls racing releases, deadlines, deaths at any step, stale holder text | a disturbance is alone; every acquisition ends; the file names the disturbance inside; the journal never shows an overlap that was not |
| pcscd-ctl | a check that ages while waiting for the lock; a restart that outlives the wait for it; a probe that raises | no session inside during a restart that its run waits for; a clear check under the lock; the lock always released; the answer is about no other live run's restart |
| reservations | read-decide-write without a lock, expiry during a call, deaths, two processes of one project | unless calls overlap or a project undoes a grant of its own: two projects never both hold a board, a hold is on file; the dead block nobody for ever |
| session registry | rewrites in place against reads, probes against probes and begins | live sessions never read LOST; beginning never fails on a probe; the dead become LOST |
| stock switch | evictions between form and submission, logins that break off, dropped writes, lost responses, reboots nobody waits for | unless calls overlap, a reported toggle happened and sibling fields survive; what is answered had the session's token; every call ends |
| deployment: fetching | downloads by several processes in one directory, removals that leave files, file names that pass for another branch's, forks without runs | what reaches a router is of the branch asked for, by CI's run or by file name; every call ends |
| deployment: installing | lost commands, reboots that are late or never end, installs whose outcome nobody reads | success means installed and a reset means wiped, except after a named mishap; a failed installation is no success; every call ends |
| bench lock, hardware.lock, hygiene | a file judged and replaced without a lock, outsiders, deaths that leave it behind, a check for builds that sees none | runs are safe from one another; no live run refuses another; the dead block nobody |
| router driver | commands that fail without a word, a socket of the process before, writes torn off, a shared temporary file | no setting undoes another; success means loaded; a reset leaves no session anywhere; every call ends |
| strategy, FIPS and TollGate deployment | starts whose failure is ignored, a router that loses power, a transition that fails on its way | running services are claimed only when told to start; the state changes along known edges only; True means running |
| OpenWrt switch | rc=0 without effect, lag, wedges, restarts, faults, failing ssh | success is real; healthy lag is not failure; a cycle cuts power; every call ends |

The hazards, each at its line and with the properties that watch it, are in PROJECT.json.

## 2. Modules and their correspondence with the code

A module's actions carry the names of the code's functions or of the steps inside them;
each comment says which. An element of a set of clients is one use - one acquisition, one
process, one driver object - so that two uses by one process are two elements.

`SharedDomain` is the abstract specification: who is inside the shared region, any
number of readers or one disturbance.

`PcscdDomain` is `_acquire` and `release` of `hardware/pcscd_domain.py`: `Open` (the file
is opened and created, not truncated), `Grant` / `Wait` / `GiveUp` (the LOCK_NB loop up
to the deadline), `Blame` (the file is closed, then the holder is read for the error),
`Truncate` and `WriteHolder` (a disturbance writes itself in two calls), `LogAcquired`,
`LogReleased`, `Unlock`. `Crash` may fall between any two. `flock` is the kernel's view
and `pc` the code's: that the two agree is an invariant, not an assumption. It implements
`SharedDomain` with `inside` mapped to the handles between the acquired journal line and
the unlock.

`PcscdCtl` composes with it: it EXTENDS `PcscdDomain`, runs its steps for the restarters
and adds `restart()` around them - the labgrid snapshot, the acquisition, the late check,
systemctl, the probes, the `finally` release - next to
labgrid places that come and go under no lock and a daemon that comes up in its own time.
An unreachable labgrid answers "no holders", as the code has it. `systemctl restart` is not one
step. `Systemctl` queues a job; systemd carries it out when it gets to it
(`SystemdRestarts`); the run waits for the end of it (`SystemctlReturns`) or for its time-out
(`SystemctlTimesOut`). A run that times out or dies lets go of the lock and leaves its job
behind (`stray`), and systemd may carry that out at any later moment (`StrayRestarts`), under
whoever has the lock by then.

`Reservation` is `reservation.py` for one board. `reserve` is three steps (read the
clock, read and decide, replace), `release` three (exists, read and decide, unlink); `Tick`
lets a second pass between any two. Times are relative to the present, so that the model
is finite without a clock. A grant is to a process: `hold` is how long each may count on the
board by what its own `reserve` has returned, until it calls `release` itself. An entry names
a project only, so that another process of the project may release it, or refresh it with an
older clock reading, under one that is still in its block; the history `undone` marks those.

`SessionRegistry` has sessions that rewrite their file in place (`Truncate`, `Write`) under
their flock and viewers in a round of `sessions_status` (`Look`, `Read`, `Probe`,
`Unlock`, `Lose`, `Return`). A viewer's probe takes the very flock it asks about.

`StockSwitch` is `StockZyxelPoEDriver._set` on top of `StockWeb`: `Lock`, the no-op rule
(`Pre`), reading the row for its sibling fields, the form, the two verifications. Every
request runs through `_fetch`: `Evicted`, `Login`, `Token`, resend, `EvictedTwice`. A login
that takes the session and then cannot read the token (`Token`) raises, and the object
keeps a session it has no token of: the history `tokenless`.
Repairers are direct users of `StockWeb`: they repair a row with `set_poe_state`, save the
running configuration (`Form`, `SubmitSave`) or ask for a reboot into the saved one
(`SubmitReboot`), which happens some time later (`Reboots`). The latter two send their form
past `_fetch`, and nothing looks for a login page in the answer. `LockOf` says which file each
client takes: drivers theirs, a repairer any of `LockFiles`. The history `overlap` says that
calls, or a call and a reboot, have overlapped since the bench was last quiet.

`PoeManage` is `on`, `off` and `cycle` of `drivers/zyxel_poe.py` with the device: `Manage`
returns rc=0 whether or not the MCU took it, `Refresh` is the daemon catching up,
`Wedge`, `Restart` and `Fault` are what goes wrong.

`CiArtifact` and `Deploy` are the two halves of `deploy/ci_artifact.py`. `CiArtifact` is
`download_artifact` run by several processes, up to the copy on the router: `Clear`,
`Resolve` (Blossom), `FindRun` and the fall back from a fork to upstream, `Download`,
`Rerun`, `Pick`; for a branch `Deps` before `Copy`, for a portal `Ensure` before it all.
All of them work on one `dir`. `Clear` and `Rerun` may leave files there: the first does not
look at what sudo has done and goes on, the second raises. The history `mixed` marks the processes that pick
from a directory with such leftovers, or one that another process has changed since they
cleared it; a file from Blossom is taken by its own name and is exempt from that. Copying ends a
call there; `Deploy` is what follows for one router: `Install`, `Health`, `Restart` /
`WaitForReboot` / `RedoDeps` (`reboot_router`), `FactoryReset`, `VerifyPortal`, with the
router's own `GoesDown` and `ComesUp`.

`Builds` is what both EXTEND: the packages; the builds that CI has made for a branch
(`BuildsOf`) and those that pass for one by their file name (`NamedFor`), which are not the
same; and `Deliverable`, what may be staged for a call. `CiArtifact` guarantees it of every file
staged without `mixed` (`StagedIsAsked`), and `Deploy` fetches one of them (`Fetchable`), so that
what the first half proves is what the second assumes. A command that never ran comes back
empty (`Ssh`), opkg may find a build as new installed and do nothing (`UpToDate`), and a reboot
may come at an unlucky moment: the history `mishaps` names what of that has happened to
a call without anything raising, and `found` is what was installed when it began. Both
properties say what holds after each mishap, not only without one.

`BenchRun` is a harness run through three files of code: `Open`, `Grant` / `Wait` /
`GiveUp`, `Truncate`, `WriteHolder` of the bench lock; `Headroom`, `PruneDebug`,
`RemoveDebug`, `LookAtTmp`, `RemoveTmp` of the hygiene; `ReadLock`, `Replace`, `Unlink` of
hardware.lock; then the work, with a build of its own (`StartBuild`). Outsiders go into
the same steps without the bench lock: `Clean` is the hygiene command, `Lock` is `make
lock`, `EnterBlock` a `with HardwareLock()` block, whose refusal nobody looks at. The
history `meddled` marks the runs whose hardware.lock an outsider has changed. The bench lock
implements `SharedDomain` too, without readers: `inside` are the runs that `acquire_bench_lock`
has returned to (`Benched`).

`Router` is what one test process does to its router: the edit (`Sed`, `Cp`, or `Read` and
then `Dump` / `Copy` / `Remove` or `Write`), `Restart`, the wait for a ready backend
(`Ready`) and for a healthy one (`Health`). Its wait is the code's: the answer of a rust
backend, the socket file of a Go one. The backend starts and dies at any time and reads
the file when it starts; the power may go. A copy or a write that fails leaves the old
file, the new one or half of it.

`Bringup` is `OpenWrtStrategy.transition` and the two installations. The recursion of
`transition` is `Lowest` (where it bottoms out) and `Climb` (what each return assigns). `Lowest`
follows the conditions as they are written: from `unknown` it begins at `shell`, not at `boot`.
`RungEdges` lists the changes of the state that come of it.

`MC*` modules only give the constants their values. `*Proofs` modules hold the theorems; two
of them extend two models each, `OccupancyProofs` (`Reservation`, `SessionRegistry`) and
`RouterProofs` (`Router`, `Bringup`), which is why `SessionRegistry` and `Bringup` name their
variables and their specification differently from the others (`at`, `RegistrySpec`,
`BringupSpec`).

A few definitions next to the one they resemble are marked as *mutants* or carry its name
and a word for a bug (`Open` / `OpenTruncating`, `LateCheck` / `LateCheckTrusted`). No
specification uses them: each is a plausible mistake that, put in the place of the real
definition, makes TLC find one property violated. PROJECT.json pairs each property with
its mutant, which is how we know that the property depends on the code.

### Abstractions

- Waits are counted in polling rounds, not seconds; every timeout may be anything from
  zero rounds to the bound. Two windows stated in seconds are therefore only compared
  where `PoeManage` makes their order an assumption.
- Names, pids and texts are identities: the text in a lock file is whom it names.
- The priority of `StockSwitch` stands for all the sibling fields of a row.
- `Frozen` of `StockSwitch` leaves open which rows the driver's digest rule takes for a
  wedge; `PoeManage` has the same rule in full, because there it decides about a retry.
- `cycle()` of the stock driver lets go of its lock in between and is two calls.
- In `SessionRegistry`, reading a record and unlinking one that is too old is one step.
- In `CiArtifact` a package is the branch and commit it is of; formats, repacking,
  architecture detection and the Rust configuration are left out, and no caller prescribes
  a CI run. Another format, or half a file, is `Junk`.
- `Deploy` has a router whose power is never cut. The MAC address that `factory_reset`
  asks for is checked before anything changes, which is one of the ways to raise.
- `SuccessIsInstalled` is about deployments without a reboot: after one, an old backend may
  be what answers.
- `Router.Restart` takes the old process as gone at once; that the router's init
  script waits for it is assumed, the script not being part of this repository.
- `BenchRun` has no failing write of the holder's text: an OSError there
  (`hardware/bench_lock.py:109-112`) leaves descriptor and flock open until the process ends,
  which to everyone else is a process that keeps the bench until it dies.
- That the switch copies running to startup when it says so is taken for granted:
  `save_config` goes by the words 'Configuration saved' in the page
  (`hardware/zyxel_stock.py:324`), and no property is about it.
- `Router` has one phone, and a configuration is its mints and its price. `metric` is always
  the same. The backend saves a session as it is paid for (only that with sessions.json),
  and reads what is saved only when it starts.
- In `Bringup` a restart that fails may leave TollGate stopped, an installation may
  stop what it replaces; which package is chosen is left open, as is FIPS's configuration.
- In `BenchRun` one directory stands for all of /tmp/opencode; sizes and free space are
  `low` or not, and removing something may or may not help.
- Protected ports, budget and password lookup come before any state changes; a refused
  port never gets to the first action.

## 3. What is checked

| Run | Instance | Question |
| --- | --- | --- |
| `pcscd_ctl` | one reader, two restarters of different lanes, a place of the first's, 1 poll, 1 probe | Does a restart spare readers and foreign places, answer for itself, always return? Does the lock implement the shared/exclusive region? |
| `reservation` | two processes of one project, one of another, TTL 2, stall 2 | Do projects exclude each other except where two calls overlapped or a project undid its own grant, and can a patient caller always get past the dead? |
| `sessions` | one session, three viewers | Is a live session never LOST and never blocked, a lost one never live again; is a dead one journaled? |
| `stock_switch` | a driver and a repairer on the driver's lock file, two priorities, 1 round per wait | Is success real and do sibling fields survive unless a reboot overlaps, does what is answered have the session's token, do calls end? |
| `poe_manage` | settling 3, grace 1, deadline 6, lag 3, 2 attempts | Is success real, is lag tolerated, does a cycle cut power, do calls end? |
| `artifact` | two processes for dev and main, one from a fork and with a pinned commit, builds of dev, main and feat_main, a portal, 1 file left behind | Is a file from Blossom one that was asked for whatever happens, one of a CI run unless it was mixed with others', and do calls end? |
| `deploy` | one router, three branches with a backend each, a portal | When is success installed and a reset real, what is it otherwise, do calls end with a router that stays away? |
| `bench_run` | two runs of two users and a visitor, 1 poll, a lock that is stale after one tick | Is hardware.lock a run's own, does a run never refuse a live one, does hygiene spare builds, is the bench a region of one run at a time, can a patient run get past the dead? |
| `hygiene_builds` | the same | Violated: "NEVER prune while cargo/rustc/ldproxy processes are running". |
| `router` | two mints, two prices, three kinds of backend, 1 round per wait | Does no call undo another's setting, is a success loaded and an ensured mint on file, is a reset complete, do calls end? |
| `bringup` | both services, 3 attempts | Are running services claimed only when told to start, and along which edges does the state change? |
| `fips_running` | the same, 1 attempt | Violated: "True if FIPS service is running after installation". |

Why the bounds are enough. One poll is the smallest number that has a failed poll before
the deadline and one at it. A reader and two restarters have every pair of modes,
a third party to release around, and an exclusive wait behind an exclusive holder. Three
reservation processes have a sibling of one's own project and a stranger; TTL 2 with a
stall of 2 lets an entry expire inside a call. Three viewers are needed for a probe that
meets a probe while another has yet to read; sessions do not interact with one another,
each having a file of its own, so that one is enough. In `poe_manage` the numbers keep
the code's order (settling 35 s, grace below it, deadline 60 s) with a lag as long as the
settling window, the worst it allows. Two deployers let one disturb the other. The
build of feat_main passes for one of main by its name, the build of dev for no other
branch, and the pin sets commits apart. `MaxLeft = 1` lets one file of any of them survive a
removal; the theorem has no bound on it. Routers share
nothing but the build directory, so that `deploy` has one.

`stock_switch` has maintenance on the driver's own lock file, the favourable case; what
overlaps there is a reboot that nobody has waited for. With a second file the state space is too
large for a run; the theorems hold for any `LockFiles`.

Two runs of different users are the first that can refuse one another; a third process,
the visitor, is enough for whatever an outsider does to either. `Stale = 0` makes a lock
that is a tick old stale, so that it expires inside a call. `router` has two values of
each setting, so that an undone one shows, and a foreign configuration that differs in
both; every kind of backend is there, since `reset_state` treats them differently.

Deadlock is checked except in the `sessions` run: when the session is over and its file
pruned there is nothing left to do. Liveness runs state weak fairness for the steps a
running process takes on its own (the operating system keeps scheduling it, and each
blocking call of the code has a timeout) and for time. Nothing obliges a reader to end
its session, a user to call, a browser to log in or a process to die.
The deployments and `router` state weak fairness of a call's steps: each command has a
time-out. The router need not come back, nor the backend. `bench_run` assumes it of time
and of a `Patient` run, which is started again when it is refused and which does not die:
the operating system schedules it, and every other process may die or be idle for ever.
`bringup` has no liveness: a transition is a bounded loop of commands with time-outs.
`reservation` adds that a `Patient` caller retries a refused `reserve`. `sessions` adds
strong fairness of `Look`: somebody runs `status` again and again, and each file present
at such moments gets its turn. `poe_manage` has the daemon catch up unless wedged.

## 4. What is proved

| Module | Theorems | The invariant behind them |
| --- | --- | --- |
| `PcscdCtlProofs` | of the lock: `TypeCorrect`, `FlockAgrees`, `MutualExclusion`, `HolderOnFile`, `JournalExclusion`, `Implements`; of the composition: `CtlTypeCorrect`, `CtlRefinesLock`, `CtlImplementsDomain`, `RestartsSpareReaders`, `ClearCheckBeforeRestart`, `OwnRestartAnswered`, `FinishedRunsAreClean` | a handle's flock is that of its label (`FlockMatchesCode`); a disturbance past its text is the one on file; whoever is journaled is at `held`. Every step of the composition is a step of the lock or a stutter, so the lock's invariants carry over; where `restart()` is fixes where `_acquire` is, and a job that somebody waits for is that of a run at `systemctl`, which has the lock (`JobsAreAwaited`) |
| `OccupancyProofs` | of reservations: `TypeCorrect`, `HoldsAreOnFile`, `ExclusionUnlessRaced`; of sessions: `RegistryTypeCorrect`, `LiveSessionsAreNotLost`, `BeginIsNeverBlocked` | until a race, the hold of a process that its project has not undone is covered by the entry on file; a call that has decided to replace remembers no live entry of a stranger, one that has decided to unlink no stranger's at all (`Decided`). A session holds its flock from the truncation until it closes, unless its record has expired, and no record precedes the flock (`FilesInv`); a viewer that probes has read a record, one that is about to declare a loss has seen the flock free (`LooksInv`); who is lost had begun, and begins no second time (`LostInv`) |
| `StockSwitchProofs` | `TypeCorrect`, `VerifiedTogglesAreReal`, `TogglesKeepSiblings`, `AnsweredWritesHaveLanded` | clients of one lock file exclude each other (`LockInv`), so that without an overlap a driver past `ReadRow` carries the priority the row has (`ReadInv`); a client that owns the web session has a fresh token, is reading it or is `tokenless` (`TokenInv`); what a client is at fits what it wants (`WantInv`) |
| `PoeManageProofs` | `TypeCorrect`, `SuccessesAreReal`, `LagIsTolerated`, `CyclesAreReal` | in a call without trouble, what shows is real (`ShownIsReal`); the rounds a taken manage has not shown for are rounds info has been behind, and a digest counts as frozen only after the settling window (`LagInv`) |
| `CiArtifactProofs` | `TypeCorrect`, `DeployedBranch` | a process that is not `mixed` has, under the names it may pick, only what is deliverable for its call (`OwnDirectory`); under a package's own name nobody ever writes another package (`OwnNames`) |
| `DeployProofs` | `TypeCorrect`, `SuccessInstalled`, `ResetReal` | a backend that runs after the installation is of the branch asked for or, after one of three mishaps, what was `found` (`InstalledInv`); after the wait of a firstboot reset, nothing is left but what has been put back, or a mishap says why (`WipedInv`); where a call is fixes which it is (`ControlInv`) |
| `BenchRunProofs` | `TypeCorrect`, `HolderOnFile`, `HardwareLockIsOwn`, `OrderedRunsPass`, `BuildsAreSpared`, `BenchImplements` | a run past the grant has the flock, so that it is alone there (`InsideInv`); a run's hardware.lock on file is that of a run that has yet to remove it or that is dead (`EntryInv`). The last write of the holder enters the region of `SharedDomain`, the unlock or a death leaves it, every other step stutters |
| `RouterProofs` | of the driver: `TypeCorrect`, `PricingIsKept`, `SuccessLoaded`, `ResetClean`; of the strategy: `BringupTypeCorrect`, `StatesAreEarned`, `RungsAreInOrder` | see below |

*The router.* `RouterInv` is a conjunction of four arguments over what gets where
(`ControlInv`), one lemma each. What a call has read is what the file says until it writes
(`ReadInv`): nobody but this process writes it, so that the price it writes back is the one
in force. From the restart on, the backend runs with the file or not at all (`LoadedInv`);
before it, with anything. From the copy on, the mint is in the file (`MintInv`). `reset_state`
takes away what is saved before it restarts the backend, and the backend's session before it
shuts the phone out, so that nothing brings either back (`ForgottenInv`): in the other order a
backend that starts in between would. None of the three theorems holds by itself from step to
step: `PricingKept` says nothing of what a call is about to write, `SuccessIsLoaded` nothing
before the call is over. For the strategy, `RungsInv` fixes the state each place of a
transition is worked at in, and that FIPS has been told to start before TollGate is;
with it, no step leaves `RungEdges`.

*The two halves of a deployment.* `DeployedBranch` ends where `SuccessInstalled` and `ResetReal`
begin: the one says `staged[d] \in Deliverable(call[d], BranchAsked(d))`, the other start from a
file in `Deliverable(call, branch)`, over the same module `Builds`. No theorem composes the
two specifications; the exception `mixed` of the first is an assumption of the second, that
nobody else works in `BUILD_DIR` and that its removals succeed.

Assumptions on constants are named in the modules that declare them, and TLC evaluates
them in the runs. Roles are disjoint, markers such as `NoHolder` are fresh, bounds are
naturals. The two that carry weight: `LagTolerated` says that a healthy daemon's lag is within `Settling`, as the
code's comment on the window has it; `DeadlineBeyondSettling` was found while
proving `LagIsTolerated` - the last reading within the lag must be followed by another
before the deadline - and 35 s against 60 s satisfies it.

Only model-checked: the liveness properties (fairness and ENABLED are beyond the prover),
and the violated properties; every other property of a passing run is proved. The type
invariants, `FlockMatchesCode`, `FinishedRunsHoldNothing` and `FileNamesHolder` are
proved and no run lists them: what a theorem says of every instance need not be checked
on one again. Induction over data and RECURSIVE operators are out of the
prover's reach too; the models have neither.

## 5. Where the code and its documentation disagree

Two runs exhibit a disagreement; PROJECT.json quotes the sentences.

- `hygiene_builds`: `pgrep` is given four patterns, refuses, and its refusal counts as "no
  build". A build outside the bench lock loses its tree. `RunsSpareRuns` says what is left:
  the bench lock keeps the runs' own builds safe.
- `fips_running`: "running" is a part of 'not running', so that `install_fips_on_router`
  returns True for a service that has not started.

Others are behaviours of the models that no run singles out:

- A restart that `pcscd-ctl` no longer waits for, because it timed out after 90 s or died, is
  still carried out (`pcscd_ctl.py:60-67`, 166), with the domain lock free: it may abort the
  exchange of a reader that has come in, or answer another run's wait for PC/SC.
  `RestartSparesReaders` and `AnswerIsOfOwnRestart` except it, and only it.
- Two overlapping `reserve` calls of different projects both return an entry
  (`reservation.py:114`). And two processes of one project share an entry without counting:
  the first `release` removes it under the other, which is still in its block
  (`reservation.py:133-139`), and a refresh with an older clock reading shortens it (86-91).
  These are the exceptions `ExclusiveUnlessRaced` and `HoldIsOnFile` have.
- `sessions_status` reads a record and probes the flock later (`session_registry.py:140`,
  146): a session that ends properly in between is called LOST. Live sessions are not.
- A session that dies between truncating and writing its record leaves a file that every
  later `sessions_status` skips (`session_registry.py:103`); a death with a record on file is
  always journaled (`DeadAreJournaled`).
- The driver locks `/tmp/amperstrand-bench` (`drivers/stock_zyxel_poe.py:51`), the bench lock
  is `/tmp/amperstrand-bench.lock` (`hardware/bench_lock.py:28`): maintenance under the latter
  runs side by side with toggles. So does the reboot that `reboot` asks for and does not wait for.
  Then a verified toggle may be undone before it returns, and a toggle may undo a repair: the
  exception `overlap` of `SuccessIsReal` and `SiblingsKept`.
- A re-login whose token cannot be read raises and leaves a `StockWeb` with the new session and
  the old token (`hardware/zyxel_stock.py:145-164`). The next write through it is answered and
  silently dropped: the exception of `AnsweredWritesLand`. The verification notices.
- A branch is looked for in a file's name (`deploy/ci_artifact.py:621-623`): a query for `main`
  takes `..._feat_main.ipk`, and `feat/x` and `feat-x` are one branch.
- A `BUILD_DIR` that could not be removed is used as it is (`deploy/ci_artifact.py:786-790`), and
  a CI run's download picks the first package there, which may be another branch's; so may a
  package that another process has put there meanwhile.
- `deploy_branch` reports success for the backend that was there before when the command that
  installs was lost, when opkg found nothing to do (`deploy/ci_artifact.py:1019` on), or when
  an earlier reboot came in between. `SuccessIsInstalled` has a disjunct for these.
- `firstboot_reset` reports success when its command was lost, and when the router answered
  before it went down (`deploy/ci_artifact.py:297-310`, 1206-1218); the dependencies may be missing
  afterwards. `ResetIsReal` has one case for each.
- `_goto_shell` asks whether the state is `boot` where it means whether it is not
  (`strategy/openwrt.py:92`): a transition from `unknown` to `shell` or above skips `boot`,
  although the module promises "unknown -> boot -> shell" (lines 3 and 45-49). `RungEdges` has the
  edge.
- A portal's download starts with a query for tollgate-wrt builds
  (`deploy/ci_artifact.py:682`) and may install a backend in the portal's place.
  `Deliverable` has that exception, and `StagedIsAsked` no other.
- `pcscd-ctl` exits 2 for a denied restart as for an unstable pcscd (`pcscd_ctl.py:224`).
- `reset_state` asks for `backend.has_sessions_json`, which the package's `BackendConfig`
  does not have, and raises (`drivers/router.py:582`).
- `ensure_test_mint` returns at once if the file has the mint, although the call that
  wrote it may not have got to the restart (`drivers/router.py:679`): the exception in
  `SuccessIsLoaded`.
- Going back to `boot` asks for `unknown`, which `transition` refuses
  (`strategy/openwrt.py:86`).

## 6. Not modelled yet, and the plan

The order of the work, most important behaviour first; 1 to 10 and 12 are done.

1. `SharedDomain`, `PcscdDomain` - the lock everything around the readers rests on.
2. `PcscdCtl` - its composition with labgrid and systemctl.
3. `Reservation` - exclusion between projects without a lock.
4. `SessionRegistry` - detection of the dead.
5. `StockSwitch` - a toggle through a web session that anybody may take.
6. `PoeManage` - a toggle verified through readings that lag.
7. `CiArtifact`, `Deploy` - what reaches a router, and what success says of it.
8. `BenchRun` - the bench lock, hardware.lock and disk hygiene as one harness run takes them.
9. The stock client's `save_config` and `reboot`, in `StockSwitch`.
10. `Router`, `Bringup` - the configuration and the restarts around it; bringing a router up.
11. `set_static_ip` of the stock client: the switch moves to another address under its
    clients, which `StockSwitch` would need a second address for. `enable_ssh`,
    `enable_telnet` and the password gate are one form each.
12. Proofs about `Router` and `Bringup`, the bench lock as a `SharedDomain` and `Builds`
    between the two halves of a deployment: done.
13. The rest of the router driver: reads, which change nothing, and edits (DHCP of
    nodogsplash, hosts entries, IPv6, the upstream) that no other call of the driver reads
    back. `wait_for_session_expiry` takes a lost ssh for an expired session, because
    `get_nds_state` answers with something other than "Authenticated".

Left out for good: device wrappers with one call per operation, port and policy
lookups, cloud providers, the QR reader, the health probes and the run ledger. They keep
no state between calls, and a model of them would only repeat their text.
