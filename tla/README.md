# Crawlson in TLA+

Crawlson runs a declared *journey* through a web site with an external browser
driver (`agent-browser`), writes a report of what it saw, and turns a report
into a user guide or a list of findings.  Its promises are about trust: it
clicks only what the operator authorized, it never clicks twice, it says what
it did and did not do, it never leaves the origin unnoticed, it always cleans
up, and a guide never shows what was not executed.  It collects the guides of many
runs into one directory that says of itself what it was made from.  It also installs and updates
itself, in place, possibly in several processes at once.  This directory states those
promises as TLA+ formulas over a model of the code, checks them with TLC and
proves nearly all of the safety ones with TLAPS.

    tlc -config MCWalk.cfg MCCrawlRun        # one run of the model checker
    tlapm RunStory_proofs.tla                # one module of proofs, some minutes

Contents: [inventory](#inventory) · [plan](#plan) · [modules and
code](#modules-and-code) · [runs](#runs) · [fairness](#fairness) ·
[proofs](#proofs) · [what is not modelled](#what-is-not-modelled) ·
[findings](#findings).

## Inventory

The product is one Rust crate with two identical binaries (`crawlson`,
`clson`), a demonstration binary and a separate release tool.  It has no server:
each command is a single-threaded process that talks to child processes and to
the file system.  Concurrency comes from outside: the browser, the deadline,
other crawlson processes, the operator's editor.

| component | code | state it keeps | operations | what makes it correct |
|---|---|---|---|---|
| runner | `src/runner.rs` | the report under construction, the current step, tracing on/off, outcome so far | preconditions, setup, one arm per kind of step, evidence, cleanup, report | the verdict follows from the steps and never improves; clicks are licensed and never retried; cleanup is compulsory |
| preflight | `src/runner.rs` (`run`, `authorize_actions`) | none | twelve ordered gates | any refusal precedes any browser command, with the status its reason calls for |
| driver | `src/driver.rs` | command records, run deadline, session | one bounded child process per capability | after the deadline only cleanup; every response is checked against the origin; a confirmation is an error, not an answer |
| journey | `src/journey.rs` | none | parse, validate | only documents whose steps, versions, sign-in and evidence fit together pass |
| auth | `src/auth.rs` | the private copy of a sign-in state file | validate, stage, remove | the copy lives only while it is loaded |
| render | `src/render.rs` | `render/` on disk | verify a run, decide, publish | a report no run could have produced is rejected; a guide tells the truth; published output is never replaced |
| focus | `src/focus.rs` | the derivative and its sidecar | map a rectangle, draw an outline, re-encode | the outline lies in the image, around the target; the renderer computes the same from the sidecar |
| collection | `src/collection.rs` | output directory | `build`, `check` over many runs | worst entry decides; limits hold across entries; create-only output |
| install | `src/install.rs` | prefix, receipt, backups of a transaction | install, inspect | all-or-nothing replacement of two binaries and a receipt |
| update | `src/update.rs` | update state file, lock, receipt | manual upgrade, periodic worker, notices | one replacement at a time; attempts reserved before they are made; back-off bounded |
| release | `src/release.rs` | none | validate bundle and manifest | field-by-field checks |
| release tools | `tools/release/` | none | build bundles, inventories, manifests | offline build tool |
| doctor | `src/doctor.rs` | none | find and probe agent-browser | only a supported version drives a run |
| cli, lib | `src/cli.rs`, `src/lib.rs`, `src/bin/` | none | argument parsing, exit codes | a table |
| demo | `src/bin/crawlson-demo.rs`, `scripts/demo.sh` | fixture site | serve, drive | a fixture |
| schemas, workflows | `schemas/`, `.github/` | none | – | data |

**How they interact.**  `run` calls preflight, then doctor, then opens the
driver and calls it once for each capability; the driver refuses or kills a
command at the deadline and keeps a record of what it did.  The run leaves a
directory: `report.json`, screenshots, a trace.  `render` reads that directory
and the journey file again, in another process and at another time, so the
report is a protocol between two programs: the runner's many early returns must
each write something the renderer recognizes, and the renderer must trust
nothing it did not verify.  `collection` does the same for many runs.  `install`
and `update` share a lock, a receipt and the two binaries.

**What is hard.**

* The page changes between any two commands: what was read is stale when it is
  acted on.
* Every command can fail in four ways (not started, failed with a record, timed
  out after the browser acted, succeeded with an unusable answer), at each of
  about twenty places, some after an irreversible click.
* The deadline passes anywhere, also in the middle of a piece of evidence.
* Numbers go through JSON and are compared exactly with what is computed again.
* A verdict is computed in one place and overridden in four others.
* A report is checked by other code than wrote it.
* The journey file, the artifacts and `render/` change between run and render, and
  while a render works; two renders of one run may meet.
* A collection reads a manifest, many journeys (each twice) and many runs, file by
  file, none of which is locked, and competes for its output directory.
* Installing replaces two files and a receipt, in steps, and can stop after
  each of them.

`PROJECT.json` lists the hazards one by one, with their lines and with the
properties that cover them.

## Plan

The core, the path from a command line to a published guide, comes first: most
of the code's branching and all of its irreversible effects are there.

1. *Done.* `Journey`, `Preflight`, `Report`, `CrawlRun`, `CrawlRunProps`: one
   run, every driver command an action.
2. *Done.* `Render`, `RunRender`: the renderer as a decision, composed with the
   run that wrote the report and with the disk in between.
3. *Done.* `RunPromise`: the abstract specification, implemented by `CrawlRun`.
4. *Done.* `CrawlRun_proofs`: type correctness, no retried click; what the deadline
   decides.
5. *Done.* `Standalone`, `Install`: the transaction of an installation with its
   backups, renames, receipt and rollback; a crash between any two.
6. *Done.* `Update`, `Maintenance`: the manual upgrade and the periodic worker over
   the shared lock and receipt, composed with installers.
7. *Done.* `RunRender` in the code's own steps: verification, the second reading of
   the images, the look at `render/`, the rename; two renders at once.
8. *Done.* `CollectionTree`, `Collection`: `prepare`, `build`, `check`; status
   precedence, shared limits, copies of runs that change, the generated tree and its
   audit, create-only output against other invocations and the operator.
9. *Done.* `Focus`: the rectangles, the clipping and the outline, pixel by pixel,
   against a definition by areas.  `Sidecar`: the numbers of a capture through JSON, to the
   renderer's second computation.
10. *Done.* `CrawlRunInvariants`, with `CrawlRun_proofs`, `RunStory_proofs` and
    `RunPromise_proofs`: the other invariants and action properties of `walk`, and the
    safety part of `KeepsPromise`.
11. *Done.* `RunRender_proofs`, `Collection_proofs`, `MaintenanceInvariants` with
    `Maintenance_proofs`, `Focus_proofs`: all of `render`, `maintenance` and `focus`, and of
    `collection` all but `StaleIsNotBroken`.
12. *Done.* `RunReport_proofs`: `HonestReportAccepted`, from an invariant that counts, for
    each capability, the commands of the steps recorded so far and of the current one, and
    `CompletedInside`.
13. An abstract specification of an installation (the pair and its receipt
    change in one step, or a crash leaves one of a few named states) that
    `Maintenance` implements.

## Modules and code

| module | models | extends |
|---|---|---|
| `Journey` | the document and `validate` in `journey.rs` | – |
| `Preflight` | the gates of `runner::run` and `authorize_actions` | `Journey` |
| `Report` | the report, as `runner.rs` writes and `render.rs` reads it | `Preflight` |
| `CrawlRun` | `runner.rs` over `driver.rs`: the state machine | `Report` |
| `Render` | `render.rs`: acceptance of a report, decision | `Report` |
| `RunPromise` | abstract: what one run promises | – |
| `CrawlRunProps` | properties, first inductive invariant, refinement mapping | `CrawlRun`, `Render` |
| `CrawlRunInvariants` | the inductive invariants of a run: verdict, session, current step, recorded steps, what may still pass, what a renderer accepts | `CrawlRunProps` |
| `RunRender` | a run, then renderers of it, step by step, with edits in between | `CrawlRunProps` |
| `Focus` | the image: `focus.rs` up to the pixels | – |
| `Sidecar` | the numbers: `capture` of `driver.rs`, `render` of `focus.rs`, `verify_focus_metadata` of `render.rs` | – |
| `CollectionTree` | the pure part of `collection.rs`: manifest, generated files, audit, comparison | – |
| `Collection` | `guides build` and `guides check`: the state machine | `CollectionTree` |
| `Standalone` | what installer and updater share: files, receipt, state, lock, clock | – |
| `Install` | `install.rs` | `Standalone` |
| `Update` | `update.rs`: manual upgrade, periodic worker | `Standalone` |
| `Maintenance` | processes of both kinds over one installation, and their deaths | `Install`, `Update` |
| `MaintenanceInvariants` | the inductive invariant of an installation: lock, transactions, updates, intervals | `Maintenance` |
| `MCCrawlRun`, `MCRunRender`, `MCMaintenance`, `MCFocus`, `MCSidecar`, `MCCollection` | instances | |
| `CrawlRun_proofs` | proofs: types, clicks, verdict, deadline and session | `CrawlRunInvariants` |
| `RunStory_proofs` | proofs: the steps and their evidence | `CrawlRun_proofs` |
| `RunPromise_proofs` | proofs: passes, and the refinement of `RunPromise` | `RunStory_proofs` |
| `RunReport_proofs` | proofs: where steps end; the renderer accepts what the runner writes | `RunPromise_proofs` |
| `RunRender_proofs` | proofs: renderers | `RunRender`, `RunPromise_proofs` |
| `Collection_proofs` | proofs: collections | `Collection` |
| `Maintenance_proofs` | proofs: installers and updaters | `MaintenanceInvariants` |
| `Focus_proofs` | proofs: the focused image | `Focus` |

**Control.**  `pc` names the driver command (or file operation) to issue next:
`entry` is the URL read at the head of the step loop, `act` the first command of
the step's arm, `trailing` the URL read `current_url_result` makes at its end,
and so on.  One action is one command: the guard says what must have gone before,
`Succeeds`/`Errors`/`Fails` say what the adapter returns and records, and the
primed variables hold everything the runner computes up to the next command,
including the end of the step, the end of the run and the report fields.  So the
atomicity of the model is that of the code: the browser and the deadline act
between actions and never inside one.

**The page** is no variable.  The browser belongs to the site's scripts, timers
and redirects; each command that looks at it finds any page (before the first
navigation, the blank one).  Every property below therefore holds even if the page
changes between any two commands.

**Commands.**  `Fails` has no record (refused by the deadline, or not started)
or a record of failure; `Errors` adds the command that succeeded at the adapter
and was rejected afterwards.  `ClickFails` is the exceptional one: without
knowledge of the browser, the click may have been performed or not.  The
environment's truth is in `performed`, which counts clicks per step and which no
action of the runner reads: what the report claims is compared with it.

**Steps.**  A step's record is its status and its observation; `box`, `shot` and
`click` are command sequences, as in `sequence` of the capture bundle.  The three
artifacts of a focused capture are recorded one by one, so a capture fails after
none, one or two of them.  `StepResult` is the step loop's treatment of a result
(the sign-in barrier, stop on a blocked step or a failed link), `StepError` of an
error, `EndStep` what they share.

**Verdict and overrides.**  `Conclude` fixes the execution outcome; after it only
`Override` touches the report's outcome, as in `finalize`.  `primary` and `cause`
are the loop's running outcome and its reason, and with `Conclude` become
`execution_outcome` and its reason.

**Data.**  A URL is a model value, in or out of the origin, exact or with a query;
`safe_url` maps it to what a report may show.  Reason codes that no property
distinguishes are one (`driver_error`).  Texts, selectors, digests and timestamps
are left out, except as "matches or not" and "the same document or not".

**Render.**  `Accepted` is the conjunction of the renderer's checks over a report,
in its order; `Decision` is what is to be published.  A renderer takes up to four
steps.  `Verify` reads report, journey and artifacts and decides; the artifacts come
last in the code and their state is what counts, so the three are one step.
`ReadImages` reads each image a guide shows once more and holds it against the
digest in the report.  `Look` compares `render/` with the result.  `Install` is the
rename, which on Unix also fills an empty directory.  Between any two of them the
journey file may be edited, an artifact may change and `render/` may be occupied, by
hand or by the other renderer.  The answer a renderer gives is in `job[q].answer`;
the properties compare it with what is on disk when it is given.

**Focus.**  CSS lengths are multiples of half a CSS pixel and the device scale is in
quarters, so all arithmetic is exact on integers; the code's is in 64-bit floats.
`render` is the function of the code up to the pixels: a colour is as it was,
dimmed or red.  `FocusTellsTheTruth` says what the picture has to be without
mentioning rectangles, from the pixels whose area the target's area meets.

**Numbers.**  `Sidecar` follows the same computation in floats, for its three readers and
writers: the driver parses the browser's answer, `focus.rs` draws and writes the sidecar, the
renderer parses it and computes everything again, and compares exactly.  `Print` is the shortest
decimal that stands for a float.  `Read` is what serde_json does without its feature
`float_roundtrip`: the digits become a float, the power of ten is one, and they are
divided, so that a float may come back as its neighbour.  A float has `Precision` bits and is
counted in multiples of 1/`Unit`, which keeps everything in integers; a subnormal or a number
written with an exponent does not occur.  The horizontal axis is the vertical one with other
numbers, so it is left out: screenshots are as wide as their viewport.

**Collections.**  One action is what an invocation does up to the next moment at which
somebody else's edit could make a difference: the manifest, the journey, the size of
a file, its bytes, the report, the renderer's own reading of the journey, the output
directory, the staged tree, the rename.  A run directory is one evidence file and a report, in
the order of their names, so that it can be replaced in between.  A renderer on the
private copy is a function of the copy and of the journey file at that moment
(`RenderOf`); `CrawlRun` and `Render` say what it accepts.  A file is copied whole before its
size is compared with the one that was reserved, so what a grown file adds counts as read
although the copy fails.  A rename that fails may leave the staging directory behind, since the
result of its removal is ignored.  The operator can alter a report in three ways: so that it
cannot be read, so that it names other inputs, and so that it still names the same.  A file's `data` is the set of
facts its bytes are made from: two files have the same digest only if they have the same
facts.  Links are kept apart from their text, as so many directories up and names
down, because the audit and the paths of a tree depend on them.  `installed` is no state
of the code: it remembers the tree an invocation put in place, for the properties.

**Installations.**  Each process of `Maintenance` runs one command: an installer
with the bundle of its own version, a manual upgrade, or the worker a foreground
command spawned.  One action is one change another process could see or a death
could separate from the next: a rename, a removal, a write of the receipt or of
the state (both atomic in the code), taking the lock.  `Crash` ends any process
between two of them; its lock goes, because the lock belongs to the file handle, and
its transaction directory stays, which nobody reads again.  A command that returns
deletes its transaction directory and then releases its lock (`Finish`).

A file is a version and who put it there, so two files of a version differ, and a
process knows whether the file it runs is still the one at the prefix: on Linux
`current_exe` follows the file, so `ExeAtPrefix` compares files; where it is the path
recorded at start (macOS), `ExeByPath` is true and any file at that path will do.  An instance
has casts of commands on either platform; `ByPath` are those on the second.
`tx[p].left` holds the targets a rollback still has to visit, in the code's order
(the second first); its `errors` are the messages `rollback_targets` collects while it
goes on.  `mem[p]` holds what an updater read and will act on later.  Of the state
file the model keeps the fields decisions read.  `contact` is no state of the
code: it remembers the last contact with the release service, for `ChecksSpaced`.

## Runs

The site has pages inside the origin (`home`, `next`), one with a query
(`search`), one outside (`away`) and the blank one.  One page per class is
enough because the code compares URLs only for equality and for these
classes; two exact pages are needed so that a URL can be wrong inside the origin.
`MaxSteps` is 4: a step can be before, at and after another one that fails, and
the two links of `TwoLinks` have a step on both sides.  `Fallible` bounds the
commands that may fail *before* the deadline; after it every command but the
four of cleanup fails in every run.  Where `Fallible` is `Capabilities` there is
no such bound.  `PlainPages` leaves `search` out.  Deadlock is not checked
because a finished run has nothing left to do; `Terminates` says it does finish.

| run | instance | states | shows |
|---|---|---|---|
| `walk` | eight journeys, four of them refused whatever the options, under all 192 command lines, everything may fail | 1,637,215 | the verdict is explained by the steps; a step that passes or fails ends with a look at a page inside the origin, but for a link that is not followed; evidence is adjacent; cleanup happens on every path; a deadline that cuts a run short makes it an error; silence after a verdict; a pass is earned; the action state never understates; no click without every gate, none repeated, none on an unverified one; the sign-in comes first and its private copy is confined; the renderer accepts the report |
| `promise` | two links, and a sign-in with a link; failures of load, click and close | 196,982 | `CrawlRun` implements `RunPromise`, its liveness included; every run ends and every launched session is closed |
| `render` | a run, then two renderers with a second edition of the journey, an artifact that changes, an occupied `render/` | 388,388 | a guide and findings tell the truth about the run, whoever asked for them; `render/` is never replaced |
| `collection` | two invocations, two guides in one topic or in two, seven choices of runs, one edit | 343,850 | an installed collection tells the truth; bounds hold, but for a file that grows while it is copied; the worst entry decides; output is kept; `check` tells stale from damaged, as long as the report does not name other inputs |
| `focus` | 2,336 boxes on six screens | 28,032 | the focused image is what it should be, pixel by pixel |
| `sidecar` | 18,540 boxes on three screens, floats of 13 bits | 222,150 | the renderer computes from the sidecar what the driver computed from the browser's answer, although floats are misread on the way, unless the scale is misread |
| `maintenance` | three processes in five casts, six installations to begin with | 3,020,181 | no binary is lost on the way; failures roll back; files no receipt accounts for stay; an update replaces what it checked, and nothing newer; the release service is not asked too often |
| `blocked`, `crashed`, `overtaken`, `siblings`, `broken` | a blocked run and its render; an install that dies; a worker overtaken by an install; an entry that cannot be prepared; an altered report | – | disagreements, see [findings](#findings) |

`promise` and `render` limit `Fallible` to a command of each phase
whose failure has a consequence of its own (an uncertain click, an
override), which keeps the temporal checks within minutes; `walk`
covers the rest.

In `render` each of the two renderers renders once: a third result could only meet
what two have left.  One artifact changes, an image of the guide or the trace
(`Fragile`): one that is read twice and one that is read once.

In `collection` two invocations meet in every combination of build and check, and the
operator makes one edit (`MaxChanges`), anywhere: every hazard of the list
needs one edit between two steps, and a second invocation takes the part of further
ones.  Two entries are enough for an order, an aggregate bound and a worst one; the seven
choices of runs have every outcome, alone and with a better one, a run that passed without a
step a guide could show, and a topic whose name is that of a generated file.  The bounds admit the
runs as they are and not a run that has grown by two bytes (`LargeB`), so that each bound is
met exactly and exceeded.  Nothing need happen, so deadlock is not checked.

The screens of `focus` have a scale of one, of three to two and of one to four (where the
outline has its least width), a scale that is off by just less and just more than the
tolerance; they are a few pixels high or wide, the boxes go across the whole length
in steps of half a CSS pixel, and four widths and two heights lie below and above the
width of the outline, zero included.

A float of `sidecar` has 13 bits instead of 53.  Misreading comes from digits that no longer fit a
float, so what matters is how many decimal digits a float needs beyond those it can hold: 13
bits and five digits are in nearly the ratio of 53 bits and seventeen (10^5 is 12 times 2^13,
10^17 is 11 times 2^53), and the powers of ten are exact in both as far as they are needed.  The
run has every float from 8 to 12 CSS pixels and thirds and sevenths above the top of the page, with
nine heights of the same kind.  Of the three screenshots one belongs to the viewport (a scale of 1), one is of
718 pixels for 720, whose scale is not exact and is read as it was written, and one of 719, whose
scale is misread.  Its mutant, a driver that takes the browser's numbers without parsing them in the
renderer's way, shows that misread floats occur and move a rounded edge.

The installations to begin with are every kind the ownership checks tell apart: none, a
managed pair, the operator's own files without a receipt or with the receipt of another
prefix, that receipt alone, and a managed pair whose receipt is damaged.  Three
processes let two meet in a transaction or check while a third starts or waits to
be overtaken; each runs one command, so a second installer is a second
process.  Three of the five casts (two installers and a worker, an installer, an upgrade and a
worker, an installer and two workers) find a running executable by its file; the other two
have no worker and find it by its path, where the recheck under the lock is all that keeps a
manual upgrade from replacing what it has not checked.  Versions 1, 2 and 3 are the installed one, a compatible one and one that
opens a new line; bundles bring 2 and 3 in either order.  The clock stops at 2 with a
`Day` of 1 and a `Week` of 2: time enough for a check that is due too early, one that
is due after a day and one after a week.  `Jitter` is 0: it can only put a check off.
A process may find nothing left to do, and then nothing changes, so
deadlock is not checked here either.

Each property comes with a mutant of the code (in `PROJECT.json`; the mutated
operators stand next to the ones they mutate, marked `Mutant:`) under which TLC
finds it violated: a bug a developer could have made, such as a retried click, a
forgotten override, a barrier that lets a failed sign-in pass as a checkpoint.

## Fairness

`WF_vars(RunStep)`: the runner is one thread that always takes its next step,
because every driver command runs under a timeout (`wait_timeout` with the limit of
`command_timeout` in `driver.rs`) and every other operation is local.  The timeout
is why a command's end, in success or failure, may be assumed at all.
`DeadlinePasses` has no fairness: a run may end before its deadline.  Renders,
collections and edits have none: nobody must render.  `Maintenance` has none and states no
liveness: nobody waits for the lock (`try_lock`), so there is nothing to starve.

## Proofs

A theorem is about every value of the constants: every site and journey, every
number of processes, renderers, entries and commands, every choice of what fails.  The
instances of the runs are some of these.  Each module of proofs has one inductive
invariant or a few; a property is then a consequence of the invariant or, if it is about steps, of the
invariant and of one step.

| module | theorem | states |
|---|---|---|
| `CrawlRun_proofs` | `InductiveInvariant` | `Spec => []Inductive` |
| | `TypeCorrect` | `Spec => []TypeOK`: in particular every URL in a report is a member of `Reported`, so that no query, fragment or foreign URL is ever reported |
| | `ClicksAreNeverRetried` | `Spec => NeverRetried` |
| | `OutlineInvariant` | `Spec => []Outline` |
| | `VerdictIsExplained` | `Spec => []VerdictExplained` |
| | `CleanupIsCompulsory` | `Spec => []CleanupCompulsory` |
| | `CopyIsConfined` | `Spec => []CopyConfined` |
| | `QuietAfterTheVerdict` | `Spec => QuietAfterVerdict` |
| | `DeadlineIsDecisive` | `Spec => []DeadlineDecides` |
| `RunStory_proofs` | `StoryInvariant` | `Spec => []Story` |
| | `ClicksAreLicensed` | `Spec => []ClickLicensed` |
| | `ActionStatesAreHonest` | `Spec => []ActionStateHonest` |
| | `EvidenceIsAdjacent` | `Spec => []EvidenceAdjacent` |
| | `SignInComesFirst` | `Spec => []VerifiedFirst` |
| `RunPromise_proofs` | `EarnedInvariant` | `Spec => [](Story /\ EarnedInv)` |
| | `PassesAreEarned` | `Spec => []PassedIsEarned` |
| | `RunsKeepTheirPromise` | `Spec => Promise!PInit /\ [][Promise!PNext]_(Promise!pvars)`: `CrawlRun` implements `RunPromise` without its fairness |
| `RunReport_proofs` | `ReportInvariant` | `Spec => [](Story /\ EarnedInv /\ AcceptedInv)` |
| | `StepsCompleteInside` | `Spec => CompletedInside` |
| | `HonestReportsAreAccepted` | `Spec => []HonestReportAccepted` |
| `RunRender_proofs` | `RenderInvariant` | `RenderSpec => [](Story /\ EarnedInv /\ RenderInv)` |
| | `RenderTypeCorrect` | `RenderSpec => []RenderTypeOK` |
| | `RendersAreKept` | `RenderSpec => NeverOverwritten` |
| | `GuidesTellTheTruth` | `RenderSpec => GuideTellsTheTruth` |
| | `FindingsTellNoLie` | `RenderSpec => FindingsTellTheTruth` |
| `Collection_proofs` | `CollectionInductive` | `Spec => []CollectionInv` |
| | `CollectionTypeCorrect` | `Spec => []CollectionTypeOK`: a staging directory outlives only an invocation that died or reported an error |
| | `BoundsHold` | `Spec => []WithinBounds`: only a file that grew can be read past them, and that ends the invocation |
| | `OutputIsKept` | `Spec => OutputKept` |
| | `MemoryInvariant` | `Spec => []MemoryInv` |
| | `ReportsMatchTheDisk` | `Spec => ReportMatchesDisk` |
| | `TheWorstDecides` | `Spec => WorstDecides` |
| | `DamageIsNotStaleness` | `Spec => BrokenIsNotStale`: for an output whose report names the same inputs or none |
| | `EntriesInvariant` | `Spec => []EntriesInv` |
| | `CollectionsTellTheTruth` | `Spec => []InstalledTellsTheTruth` |
| `Maintenance_proofs` | `MaintenanceInvariant` | `Spec => []MaintenanceInv` |
| | `MaintenanceTypeCorrect` | `Spec => []MaintenanceTypeOK` |
| | `NoBinaryIsLost` | `Spec => []NothingLost` |
| | `InstallsAreAllOrNothing` | `Spec => AllOrNothing` |
| | `OperatorsFilesAreKept` | `Spec => OperatorFilesKept` |
| | `ChecksAreSpaced` | `Spec => ChecksSpaced` |
| | `UpdatesOwnTheirTarget` | `UpdatesAreRechecked /\ Spec => UpdateOwnsTarget` |
| | `UpdatesNeverDowngrade` | `UpdatesAreRechecked /\ Spec => NeverDowngraded` |
| `Focus_proofs` | `FocusInvariant` | `Spec => []FocusInv` |
| | `FocusIsTruthful` | `Spec => []FocusTellsTheTruth` |

### Assumptions

Each is an `ASSUME` that TLC evaluates on every run of the module.

* Of a run: `PagesAssumption` (exact URLs are in the origin, the blank page is not, and so
  on), `ReportedAssumption` (`Bare` strips a URL of the origin and leaves an exact one alone)
  and `InputsAssumption` (journeys and options have their types).
* Of a collection: `BoundsAreNatural`, `StartsHaveManifests`; `ManifestsAreFinite`, because a
  manifest is a file, and its orders are numbers; `RunsAreRecorded`: at first every path of a
  manifest has a run directory with one of the recorded runs, which an edit may replace later.
  Nothing is assumed of the sizes of files.
* Of an installation: `StandaloneAssumption` (versions are positive numbers, a day is
  not longer than a week, the names that stand for nobody are no processes and differ)
  and `NoFileAssumption` (an absent file is none).
* Of a focused image: `FocusAssumption` (coordinates are integers, an image has a natural
  number of pixels; the sizes of a box, a viewport and a scale may be anything, for the
  code must reject them itself).

`UpdatesAreRechecked` is a hypothesis of two theorems and no assumption of the module: where a
running executable is found by its path, no process is a worker.  It is
what the code needs and not what it has on every platform: the run `overtaken` refutes
`NeverDowngraded` where it does not hold.  The casts of `maintenance` satisfy it in both ways.

### A run

`NeverRetried` is about the moment of a click: no step has
clicked twice, and each that clicked earlier has *reported* a verified effect.
By itself that is not inductive: a click happens at `click`, its effect is verified at
`landed`, the step is recorded two commands later, after the trailing URL read,
and the next click is many commands away.  So `ClicksAccounted` carries it across: while
the run goes on, a step that has clicked has either been recorded with
`effect_verified`, or is the current one, past its click (`ClickPending`), and
if about to pass has seen its effect.  A step that clicked and did not verify
must stop the run, which is where `StepResult`'s rule on failed links is used.
`LinkPoints` says only a link step gets to a click, `StepsInOrder` that the
steps recorded are those before the current one (so the current step cannot have
clicked before), and `Admission` that a driven run has passed every gate, whence
a valid journey and an index between 1 and `MaxSteps`.  Each action is one
step of the proof; actions that share an ending share its lemma (`AdvanceClicks`,
`StepResultClicks` and their counterparts for types).

`DeadlineDecides` says what becomes of a run whose deadline passes while it is driven.  `Permitted`
only refuses a command and says nothing of the verdict, which follows from how a refusal is
handled at each of some twenty places: `ExpiredStep` is the lemma that past the deadline a step of the journey
can only end in an error.  After the last step the deadline stops nothing, since what is left is
cleanup, so in the model it does not pass there (`DeadlinePasses`).

`CompletedInside` is about the step that records a step's end, and about its last command and
not what was read at its beginning.  A passed step has looked at the page last.  So has a failed
one, unless it is a link that is not followed: `follow_link` returns at the inspection that rules
the link out or, for one that leads elsewhere, after its picture.  On the latter path the last look at
the page is the one before the bounding box (`runner.rs:1053-1068` returns before the URL read at
`runner.rs:1172-1180`), and the page may be anywhere when the step is reported as failed.

The other invariants of a run are in `CrawlRunInvariants`, each group upon the ones
before it.  `VerdictInv` ties the running outcome to the steps recorded
so far (`VerdictSoFar`), because the verdict is only computed at the end and must be that
of the steps *then*.  `SessionInv` says what has been opened, staged and traced at each point, which
makes the close the last command of every driven run.  `CurrentInv` is what the runner
knows of the step it executes between two of its commands: on which page it is, what it read
of the link, that a picture is the last command and its bounding box the one before.  Evidence is
adjacent and clicks are on a link that was seen *because* of these facts, and by the time a
step is recorded they are gone from the state; `RecordsTold` keeps what they
proved.  `ClicksLicensed` keeps with a click that every gate, the sign-in and every earlier step
were behind it.  `EarnedInv` is about runs that may still pass: no command has failed in
them, and what the closing owes is done at each of its points; with `Story` it gives
`PassedIsEarned` and each step of the refinement.  Every command of a step is one action, and most
of the proofs first reduce it to one of three shapes: the step goes on, ends with a
result, or ends in an error.

`HonestReportAccepted` sets two programs side by side that share no code: the renderer accepts a
report only if it has, for each capability, as many commands as its steps imply, the setup's
at the front and the closing's at the end, and each step's observation in one of
the forms its status allows.  A sum over steps is nothing a single step knows, so `AcceptedInv`
keeps the balance between any two commands: `CommandsCounted` says that the commands of a
kind are as many as the recorded steps that owe one (`Owes`), and one more if the current step has
issued it already (`IssuedNow`).  A command that succeeds adds one to both sides, and the end of
a step moves one from the current step to the recorded ones.  A step that returns early, before
its last inspection, keeps the balance because it has observed just what it
asked for: `ObservedSoFar` is what it has observed at each of its points, and `RecordReady` what
it has just before its trailing URL read.  A failed command never enters
the count, since it ends the run in an error, which the property excludes.  `SetupIssued` and
`ClosingIssued` place the commands at both ends by number; that the two ends do not overlap
follows from their different names.  `SignInTold` with the order of an authenticated
journey's steps gives what the renderer infers: that a run that failed at a checkpoint had
passed its sign-in.

### Renderers

To the run a renderer's step is a stutter (`RunUnderRender`), so `Story` and `EarnedInv` hold in
`RenderSpec`.  `RenderInv` adds that a renderer past its verification holds the decision
about the document the run executed, and that the run is over and does not move
again.  What a guide then says follows from what `Accepted` has checked and from what the run
has earned.

### Collections

`WithinBounds` is not
inductive: it bounds what was read, and what is read next is bounded only because it was
reserved before.  `CollectionInv` adds that what was read *is* what was reserved, except
between the reservation of a file and its copy, where the two differ by exactly that
file at the size that was reserved; the copy closes the gap if the file still has that size, and
if it has not the invocation ends in an error, with all it has read counted (`Failed`).
Likewise an invocation about to install holds a tree that was found to fit, and a
staging directory has an invocation about to install it, or one that died or failed.
The argument never needs that sizes are numbers, only that the check
was made on the very sum that is kept.  `OneStep` says that an invocation's step leaves the others
as they are; `EndKept`, `Went` and `Aborted` are its three ways to go on, and each
action reduces to one of them.

`EntriesInv` says of each entry an invocation has prepared that it is attested: the private copy
it was rendered from is a recorded run, all of one piece, of the edition that was
loaded.  It holds while a directory is replaced between the copy of its evidence and that
of its report because what is published was rendered from the copy, and rendering compares the
evidence in the copy with the report in the copy (`RenderOf`).  From attested entries to
a truthful tree is a lemma about `PublicFiles` and `ReviewFiles`: it needs that
no two files of a tree meet at one path, so that entries are ordered without
repetition (`OrderedEntries`).  That there is an order at all is an induction over a finite set;
the library's induction theorems cannot be used here, and the lemma `SmallestBad` takes
the place of one: subsets of a finite set are well-founded under inclusion, so of the sets
without an order one would be the smallest, and without its last entry it would have one.
`BrokenIsNotStale` is about a report that names the installed inputs or none, because the code
asks nothing else of an output than whom its report names (`IdentityChanged`); the run
`broken` has the other case.

### Installations

`MaintenanceInv` has four parts.  `LockInv`: each command keeps to its points, and whoever is past the
lock holds it.  `TransactionInv`, for an installer in its transaction: it began with the
receipt of this prefix or with nothing (`Opened`), the receipt on disk is the prior one or its own,
each target's file is in its place, in the backup or replaced (`TargetAccounted`), and the
rollback has just what is undone still to do (`LeftAccounted`).  `UpdaterInv`: what an updater
verified is still so when it replaces the binary, because it holds the lock since then and
`StillOwner` was established under it.  `CheckInv`, `SaveInv` and `ContactInv`: the next
attempt is put off *before* a check and further after it, so that a worker that dies
anywhere leaves the state such that the next comes late enough; `Settled` is the reason why
an installation that lost its place in the update state does not come back
to it.  A step of one process disturbs another only through the disk, and only under the lock
(`Undisturbed`, `Waiting`), so each kind of step is one lemma on its own process.

### The focused image

There is no induction: a pixel is red, dimmed or as it was by comparison with four edges, each
a quotient rounded down or up.  `Floor` and `Ceiling` turn each comparison into one of
products, which is what the definition by areas says.

### What is not proved

* `Terminates`, `LaunchedIsClosed` and the fairness in `KeepsPromise`: liveness is beyond the
  prover.
* `StaleIsNotBroken`: it needs that the size of an installed tree is a number
  within the bounds, and a size is a sum over a set of paths, a recursion over data.
* `VerifierAgrees`: that a float read twice is read the same the second time is a fact about each
  float of a given precision, which TLC finds by trying; the module states no theorem.

No module declares a RECURSIVE operator.

## What is not modelled

* **Of focus**: decoding and encoding of PNGs, colour types, the rounding of a dimmed
  colour and path containment.  The drawing is modelled in exact arithmetic, and floats
  (`Sidecar`) on one axis, with 13 bits and without infinities, NaN, subnormals and numbers
  written with an exponent.
* **Of collection**: wording and escaping of Markdown and how links are read out of it
  (files carry their links), identifiers, portable names, depth, several images to a
  guide, an output directory that overlaps an input, and a collection built by one
  release of crawlson and checked by another.
* **Of install and update**: how a bundle, a manifest, a signature or a download
  is verified (each succeeds or fails), symbolic links, package managers, several
  prefixes under one user, Windows (no self-replacement), the switches that turn
  updates off, the notice of a new version, and the fields of the update state
  that no decision reads, `failure_count` among them.
* **release, release tools, doctor's search, cli, demo, schemas**: validation of
  static data, build tools, tables and fixtures, without state or interaction
  worth a model.  Doctor's verdict is the action `DriverUnavailable`.
* **Inside a driver command**: spawning, pipes, output limits, the policy files
  and the JSON envelope come to success or one of the failures above.
* **Crashes of a run**: a killed run writes no report (it is written last, by
  rename) and no command reads an unfinished one; the session is then the
  daemon's to end.
* **Bytes**: guide text, findings text, image contents, size limits, path
  containment.

Assumptions on what is outside the code: a browser that demands a confirmation
has not performed the click (`ClickNeedsConfirmation`); a command the deadline
refuses reaches nothing; `agent-browser` responds for the session it is asked
about.

## Findings

**A blocked run is refused as invalid.**  `docs/architecture/render-v1.md:76` says of a run that was blocked: "Blocked runs
are explicit non-publishable results."  The run `blocked` shows a run that
is blocked and that the renderer rejects as an invalid report instead: a check
of the origin can block a step before the step has recorded the URL it
expected (`runner.rs:870-879`, where the entry URL read precedes the arm), and
`render.rs:1040-1053` demands that URL of every `navigate`, `check_url` and
`follow_link` step whatever its status.  The refusal is safe (nothing is
published) and its reason is wrong.

**An incomplete pair is taken for a managed one.**  `docs/architecture/release-v1.md:169-172`
says that an abrupt kill "can leave an incomplete pair; the receipt and exact-file
ownership checks then fail closed instead of guessing", and `README.md:148-149` that "any
inconsistent ownership state fails closed on the next operation".  The run `crashed`
shows an installer that replaces a managed pair and dies between its two
`rename`s into place (`install.rs:363-372`): the prior receipt stands, `crawlson` is the new
one, `clson` is absent.  `inspect_ownership` asks only that `crawlson` exists and
that the receipt names it (`install.rs:494`), so the next install proceeds, and what an
upgrade asks is no more.  The outcome is benign when the install succeeds, since it
completes the pair; the document promises a refusal.

**A worker can replace a newer binary by an older release.**  `README.md:422-423`
lists "downgrade" among the cases that fail closed, and a manual upgrade checks
under the lock that the installed binary is still of the version that is running
(`update.rs:539-561`).  The worker has no such check: it compares the release with the
version it was built as (`update.rs:761`, `update.rs:770-777`).  The run `overtaken` shows, for
a platform that finds a running executable by its path, a worker of version 1 started
before a bundle of version 3 is installed, which takes the lock after the installer
and puts release 2 in its place.  Where the executable is found by its file the
ownership of the overtaken worker is gone, and `maintenance` shows that the same
property holds.

**One entry that fails takes the others with it.**  `docs/architecture/guide-collection-v1.md:144-146`
says "A failed entry never prevents already verified sibling states from appearing in the
machine-readable error report", and lines 134-138 count provenance conflicts among the
failures that are collected, with one diagnostic per entry.  The run `siblings`
shows a build of two entries, the first verified and the second edited between the
two readings of its journey: `prepare` returns at the conflict (`collection.rs:387`,
`collection.rs:952-962`) and `error_report` has no entries (`collection.rs:298-318`).
The promise holds for entries whose *rendering* fails, which are kept as entries.

**An altered report makes broken output stale.**  `docs/architecture/guide-collection-v1.md:42-43` gives exit
code 3 for "stale or missing output" and 4 for "broken output integrity".  The run `broken` shows an
output of the very inputs at hand, in whose `collection-report.json` somebody has changed a digest of
the inputs: `collection_identity_changed` (`collection.rs:2375-2392`) believes it, every difference becomes
`stale_output`, and `check` answers with exit code 3 (`collection.rs:1952-1968`).  Nothing is
published; the operator is told to build again where the output was tampered with.

Three more were met while modelling and have no run of their own.

* `docs/architecture/journey-v1.md:46-49` says that Crawlson "checks the observed URL before and after each
  step".  A link that leads elsewhere than declared fails after its picture (`runner.rs:1053-1068`),
  whose answer names no page; `CompletedInside` says exactly where a step may end.
* `docs/architecture/guide-collection-v1.md:129-131` says that with a finding the build "writes
  `review/index.md`".  A manifest may name a topic `index.md`, and a guide may not, for the collision
  it would cause (`collection.rs:580-586`); with a finding, `reserve_output_path` then refuses the index
  and the build is an error without entries.  The manifest builds while every entry is ready.
* A screenshot may differ from its viewport by a hundredth of the device scale (`focus.rs:175-182`,
  `render.rs:1544-1547`), but the renderer also compares the scale it reads with the scale it computes,
  exactly (`render.rs:1542-1543`), and serde_json as it is configured (`Cargo.toml:38`) does not return every
  float it has written.  In floats of 53 bits too, a screenshot of 719 or 714 pixels for a viewport of
  720 is refused with "focus metadata no longer proves the declared focused image" although nobody has touched
  it.  `VerifierAgrees` shows that this is the only way: the box comes back unharmed.
