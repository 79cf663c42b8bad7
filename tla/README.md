# FabricCrypt in TLA+

Specifications, model-checking configurations and machine-checked proofs for the
Python and C code of this repository. File names below are relative to the
code directory `src/` of the repository (`protocol/`, `signature/`, `demo/`).

FabricCrypt ties an answer to one chip: a nonce selects *what is measured*, the
measurement is a vector of timings and counters, and a verifier decides whether
the vector is the chip's. The statistics of the measurements are no subject for
a model checker. Its protocols, files, threads and loops are.

## 1. The system

| Component | State | Operations | Modelled in |
|---|---|---|---|
| Multi-round verifier (`protocol/multiround_protocol.py`, `MultiRoundVerifier`) | `_open`: nonce -> commitment, then constraints | `round1_recv`, `round2_send`, `round3_verify` | `MultiRoundVerifier` |
| Multi-round prover (same file, `MultiRoundProver`) | `_state`: nonce -> series | `round1`, `round3` | `MultiRoundProver` |
| The two together, over a transport | messages in flight | a caller's retries, loss, duplication, reordering | `MultiRound` |
| Reverse fuzzy extractor (`protocol/reverse_fuzzy.py`) | the enrolment: reference, mask, key | `enroll`, `verify` | `ReverseFuzzy` |
| Calibration and K_chip (`nonce_signature.py`, `nonce_signature_v2.py`, `key_derivation.py`) | three files shared by all processes of a host; `mu`, `K_chip` of each process | `_maybe_calibrate` of both classes, `derive_kchip`, `save_kchip` | `KeyLifecycle` |
| Evaluation stages (`protocol/attacks_extended.py`) | library, model, training report and result files; what a process has loaded | `--mode collect`, `train`, `attack`, `all` | `Evaluation` (extends `KeyLifecycle`) |
| Keyed plan derivation (`nonce_signature_v2.py`) | loops over byte streams | `derive_plan_keyed` | `PlanDerivation` |
| Keyed answer and its gate (`nonce_signature_v2.py`, `verifier_v2.py`) | calibrated band | `read`, `plan_measurement_score`, `hard_veto_accept` | `Gate` (extends `PlanDerivation`) |
| Demo server and page (`demo/server.py`, `demo/static/index.html`) | the page's three variables; one `NonceSig` behind all threads; the affinity of the process | four buttons, `/challenge`, `/sign`, `/verify` | `Demo` |
| Cache-line ping-pong (`signature/cacheline_pingpong.c`) | one shared counter, two threads | spin, store, time stamp, join, write | `PingPong` |
| Capture programs and thermal guard (`signature/`) | rows in memory, worker processes, its files | `wait_cool`, `thermal_guard`, `_sample_phase`, `main`/`run` | `Capture` |
| Classifier threshold (`verifier_v2.py`) | none | `calibrate_threshold` and the veto it feeds | `Threshold` |
| Unkeyed signature and gate (`nonce_derivation.py`, `nonce_signature.py`, `verifier.py`) | none: functions of nonce and measurement | `derive_plan`, `read(raw=True)`, `plan_consistency_score` | `UnkeyedGate` |
| Unkeyed training and evaluation (`train.py`, `attacks.py`) | library and model files; results in memory | `train.main`, the seven attacks of `attacks.main` | `UnkeyedEvaluation` (extends `UnkeyedGate`) |
| Controlled PUF (`controlled_puf.py`) | none | `query` with its two hashes, `chip_id` | `ControlledPUF` (extends `HashInputs`) |
| Inference binding (`zk_inference_binding.py`) | none; bundles between prover and verifier | `zk_prove_stub`, `zk_verify_stub` | `ZkBinding` (extends `HashInputs`) |
| Classifier training, analysis, scripts | arrays, plots | | not modelled (§8) |

**How they interact.** `MultiRoundVerifier` and `MultiRoundProver` exchange
messages through whatever transport the caller has; there is none in the
repository, whose smoke test calls both sides in turn. Both plan classes share
one calibration path, `_cal/cal_<host>.json`, and processes of one host share
nothing else than files. `NonceSigV2.read` and `verifier_v2.py` derive the same
plan from the same key and nonce: one permutes, the other undoes it. The demo's
page runs asynchronous functions over three page variables; the server's handlers
run in threads over one `NonceSig`. A capture program calls the guard before
each sample, and the guard reads a sensor that nobody controls.

**What is hard here.** Messages out of order, twice, never; a dictionary entry
overwritten under a session; exceptions after an entry was taken out; a file
truncated and not yet written when the process dies; an `except` wide enough to
answer a failure it was not written for; page variables that change over an
`await`; process-wide state set and restored by several threads; a spin that
waits for exactly one value; an abort in the middle of nested loops with child
processes running; sampling without replacement and the inverse of a
permutation; byte strings joined before they are hashed, with separators that the
parts may hold, or with none; numbers rounded for the hash and not for the
computation. Section 7 lists them with the properties they led to.

## 2. Modules

Each model states its abstractions in its header. In all of them: floating-point
values are abstract or small integers, SHA and SHAKE are ideal (a commitment *is*
the pair it was computed from, a stream is any stream), and log output and
formatting are left out. Operators named `X_Something` after a definition `X` are
plausible bugs of `X`. Nothing uses them in the models; substituting one of
them for `X` makes the run named in `PROJECT.json` fail, which shows that
the run's property depends on that code.

**`CommitReveal`** is the abstract specification: what a commit-challenge-reveal
session promises, in four actions without any bookkeeping.
**`MultiRoundVerifier`** has one action per handler. `open[n]` is `_open.get(n)`;
`cons = <<>>` is an entry without the key `constraints`. `round3_verify` is five
disjoint actions, one per way out: no constraints (KeyError), commitment
mismatch, an index outside the series (IndexError), violation, acceptance; all go
through `Close`, which takes the entry out first, as `pop` does at line 176.
Whether `zip(cons, t_claimed)` covers all constraints is up to the claim list
(`Compared`). `Evaluate`, `FarApart` and `InRange` are CONSTANT operators: any
statistic, any tolerance. `session`, `issued` and `outcomes` are history
variables that no action's guard reads.
**`MultiRoundProver`** is the other class, with the same conventions.
**`MultiRound`** composes both with a network: a set of messages, of which
`Deliver` takes one out or, as a fault, leaves it in; `Lose` drops one; the
caller sends a nonce, any number of times up to a bound, and calls
`round2_send` some time after `round1_recv` (`due`). It instantiates the two modules
and adds no behaviour to them.

**`ReverseFuzzy`** takes bit strings as sets of positions, so xor is symmetric
difference and Hamming distance is cardinality. bchlib is external: `WithinT` is
bounded-distance decoding of radius t over the positions that the code uses. The
last byte of the ecc has bits beyond `ecc_bits` (`Pad`), zero in a codeword and
left by `correct()` as they came.

**`KeyLifecycle`** splits `_maybe_calibrate` wherever another process or a kill can
come between: look for the file, load, measure, `open(.., 'w')`, write and close,
and again for the key file. `Exit` is possible at every step and may leave the
calibration half flushed. `SaveFails` is `save_kchip` raising: during construction
after a calibration the exception leaves the constructor; after a load the
`except Exception` at line 308 of `nonce_signature_v2.py` catches it and calibrates
again. `Collect` is what the collect stage of `attacks_extended.py` leaves for later
processes. `Exclusive` says whether processes may overlap.
**`Evaluation`** extends it by what such a process does with its key:
`attacks_extended.main` with its modes. Stages meet only in files, each opened and
then written; `ExitMain` is the end of a process at any of these points, also by a
guard that aborts or a file that is missing or does not parse. A training is its number and
the best AUROC of its seeds. One none of whose seeds has an AUROC keeps no state, so it
writes no model (line 205) and leaves that of an earlier training in place, beside its own report.
`Calibrate` reads the report that is there (`tr`), which decides whether the classifier may
veto. `cut` is a history variable: the trainings whose process ended before they were reported.

**`PlanDerivation`** is `derive_plan_keyed` loop by loop: `Draw` is one iteration of
`_stream_choice`, `Swap` one of `_stream_permutation`, `Pair` one of the pairs of cores.
Arrays are functions from 0. **`Gate`** extends it by the answer and its
verification: a measurement is its distance from the chip's mean in sigmas, and the
two scores are turned into integer inequalities (a score is 1 up to `band_k`, 0
from twice that, linear between, and passes above one half).

**`Demo`** keeps every click so far as a record: which request it waits for and how
far the server is with it. Page functions are atomic up to their `await`;
responses are received in any order. `Pin` and `Restore` are the body and the
`finally` of `_c2c_pingpong`. That a restore fails, which lines 87-90 of `nonce_signature.py`
would swallow, is left out: the mask is that of all CPUs of the host.

**`PingPong`** has one step per load that ends a spin and one per store. The time
stamp counter advances with each answer of thread B, so a sample is the number of
answers it spans. `2*i` is an `int`: past `IntMax` the overflow is undefined, and
`Cast` allows the exact and the wrapped value.

**`Capture`** is the loop that all capture programs share, with what differs
between them in a record (`MCCapture`): `signature_v2.main` with its five blocks,
`jacobian_dynamics.run` with its phases and worker processes, `gpu_clock_jitter.run`,
`thermal_spread.run` with the probe before its loop (`rep` 0), the Phase 22 programs, and
both `collect_paired`. `Guard` and `Cool` are the four variants of `thermal_guard`, that of
`attacks_extended.py` with its timeout; `Abort` is its `SystemExit` together with
what the program does with it, `Raise` any other exception of a measurement. The rows are
written first (`Save`), then, in the programs with `meta`, the json with the durations
(`SaveMeta`); `Killed` ends a program between any two steps. Opening and writing one file is
a single step, and the directory holds no files of an earlier run.

**`Threshold`** is `calibrate_threshold` in whole numbers: `Quantile` interpolates as
`np.quantile` does, and `passed` is who passes the veto afterwards.

**`UnkeyedGate`** has no variables: a plan is a permutation and a sleep, `ReadRaw` puts a
measurement and the sleep in the order of the plan, `PlanPass` looks for the sleep where the
plan has put it. **`UnkeyedEvaluation`** is the two programs that use it. `plan` is
`derive_plan`, any function of the nonce, chosen once. `train.main` opens and writes the
library, then the model; `attacks.main` runs one evaluation per step and goes from one
attack to the next with `NextAttack`, which loads or measures what the next one replays.
Either may end anywhere and start again, also while the other runs. `given` says that `--t3_pt`
names a model from elsewhere, `named` what `--own_recorded_npz` names: nothing
(`default`, the library of training is taken), a library recorded on this host earlier, of the same
length, or no file at all. The two attacks whose results are copies of others
(`static_replay_with_correct_nonce`, `honest_own_wrong_nonce`) are left out.

**`HashInputs`** has the byte strings that are hashed: labels, separators and fixed lengths
as in `shake`, `derive_kchip`, `commit_chip_sig` and `inference_tag`. An ideal hash *is* its
input, so what two hashes have in common is decided by these strings alone.
**`ControlledPUF`** makes queries, each with the strings that its two layers hash.
**`ZkBinding`** has a prover whose bundles are handed on, whole or with a field of another
bundle in place, and a verifier with its four checks in order. `Cast` is
`asarray(.., float32)`: the prover runs the inference before it, the verifier after it.

The `MC...` modules only give constants their values. The `...Proofs` modules
hold invariants and theorems (§6).

## 3. What each run checks

Runs that pass:

| Run | Question | Properties |
|---|---|---|
| `verifier` | Does the verifier keep the discipline when its handlers are called in any order with any commitment, series and claim list? | `AcceptedSeriesWasBound`: what is accepted was the commitment on record, in the same session, when the constraints went out. `OneOutcomePerSession`: no second verdict, not after an exception either. `RefinesCommitReveal`: every step is one of the abstract session. |
| `exchange` | An honest prover over a transport that reorders, duplicates and loses. | `HonestRejections`: only a repeated round 1 or a duplicated message has an honest prover refused, and never for its aggregates. `RevealedAtMostOnce`. `NothingLeftBehind`: a finished faultless exchange leaves no entry in either dictionary, but for a series too short. `EveryExchangeAccepted`: without faults an exchange is accepted, whatever the others do. |
| `fuzzy` | Every reading against every codeword. | `AcceptedIsClose`, `CloseIsAccepted`: accepted exactly within t bits, on the positions the code protects. |
| `key` | Processes one after another, killed anywhere, key files that cannot be written; each runs stages of the evaluation. | `ReadyKeyIsOnDisk`, `LibraryUnderCurrentKey`, `CalibrationNeverReplaced`. The last two hold only as long as no save has failed: after one, line 308 replaces a good calibration. `VetoIsEarned`: a classifier that vetoes in a report has earned it by the AUROC of its own training or, if that was killed before its report was written, of an earlier one; never by a later training, though a report of one may lie beside its model. |
| `pingpong` | The hand-off, with an overflow half way. | `GenerationsAreConsecutive` (no store is lost), `DumpIsComplete`: what is written holds one sample per iteration, each of them one round trip. `Ends` (unless an overflowed expectation keeps a thread spinning). |
| `capture` | Every course of the temperature. | `SavedRowsWereMeasured`: no row of zeros in a file, all rows unless aborted, and if the report beside it was written one duration per row, wherever the program is killed. `LoadIsOn`: samples are taken under all of the phase's load, and no other worker runs but such as were told to stop. `Ends`: with the two exceptions that the code has. |
| `demo` | Clicks, responses and signing threads in any order. | `StaleIsUnderAnotherNonce`: a stale replay presents the signature of another nonce. `LastSigIsOfLastNonce`: the signature shown is the one of the nonce shown, unless requests failed or /sign overtook /sign. `AffinityRestored`. |
| `binding` | What is hashed, and what is accepted for it. | `QueriesToldApart`: queries that differ hash different strings, though nonces and digests may hold the separator, and no string of one layer is one of the other. `AcceptedAsMade`: no bundle passes with a field of another. `HonestAccepted`: a bundle as it was made passes in spite of the rounding on its way, unless its output holds a NaN. |
| `gate` | The gates of both schemes, and the evaluation of the unkeyed one. | `PlanIsWellFormed`. `VerdictIsOnTheReading`: the verifier puts every dimension back to its own band. `TargetReached`: the threshold loses the share of honest examples that it may. `HonestOwnPasses`: the honest gate is passed in every run of the battery. `ReplayNeedsChance`: a replay passes only if two plans or a reading happen to agree. `OwnModelHasLibrary`: that replay is skipped only if `--own_recorded_npz` names no file or, where it is not given, under a model from elsewhere. |

Each run also checks its module's type invariant; in `gate` it is that of the composition,
`GatesTypeOK`.

Runs that end in a violation, where the code does not do what the repository says:

| Run | What is said | What the run shows |
|---|---|---|
| `verifier_complete` | "5/5 must pass" (`multiround_protocol.py:38`) | An empty answer list is accepted: `zip` compares nothing. |
| `fuzzy_always` | "If Hamming(w_ref, w_noisy) <= t => K' == K (always correct)" (`reverse_fuzzy.py:48`) | A reading that differs in one unused bit of the ecc is rejected: the key hashes all 256 bits, the decoder corrects 252. |
| `key_same_chip` | "Deterministic for the same chip (within calibration jitter tolerance)", with helper data (`key_derivation.py:7-14`) | The quantizer keeps no helper data; two processes that calibrate a quarter of a stride apart serve under different keys. |

Other disagreements met while reading, of which no run is made: "Burst <= 60s"
(`jacobian_dynamics.py:20`), but a guard that aborts during a burst skips
`stop.value = True`, so the workers run on and the interpreter waits for them (one of the
two exceptions in `Ends`); `verifier_v2.py:110-111` speaks of rejecting vectors with a p0 of
about 0.4, where line 112 has a floor of 0.10; with `target_tpr` 1 the smallest honest example is
still lost, and of examples with one p0 all may be, though line 106 says the target is achieved
(`TargetReached` says where it is); the header of
`zk_inference_binding.py` (line 12) lists the parts of the tag in another order than
line 73; `NonceSigV2`
takes over a calibration that `NonceSig` wrote to the same path, with the requested
sleep in dimension 31, though `nonce_signature_v2.py:311` speaks of its own; a vector
passes up to one and a half times `band_k`, though `verifier_v2.py:58-59` says it is
rejected beyond `band_k`; `nonce_derivation.py:39` names a sleep that the derivation
never draws; the thresholds in the docstring of `_common19.py` (line 1) are not
the defaults of line 15, and the comment in `attacks_extended.py` speaks of waits of 30 s
and a floor of 78 degrees (lines 33-35) where line 36 has 20 s and 95; in the same file lines 224-226 turn the veto off
when the "mean AUROC ~ 0.5", but line 232 reads the best AUROC of the seeds, so a classifier
whose mean is at chance may veto; and after a kill between the model and its report (lines 206, 207) an
uninformative classifier vetoes by the report of an earlier training, which is the one case
that `VetoIsEarned` leaves. Not reported as an error: two `/sign` requests that overtake
each other leave the older nonce's signature on the page, so `Verify` then rejects
(`LastSigIsOfLastNonce` says precisely when).

## 4. Bounds, and why they are enough

- `verifier`: two nonces (symmetric), two series of which one is too short, three
  sessions (`MaxSessions`), six claim lists: none, one answer, all right, the last
  one wrong, NaN, one too many. Overwriting a session under way, another session
  under the same nonce and one under another are all there with three.
  Outcomes and handler calls are not bounded otherwise.
- `exchange`: two nonces, two series, `MaxSends` 3 nonces sent, `MaxFaults` 1 message lost
  or delivered twice, `MaxSessions` 3 (without duplicates no more can arise). So one nonce can be retried
  twice, or once while another exchange runs, with a fault anywhere. No
  symmetry, because liveness is checked.
- `fuzzy`: a [5,2,3] code in words of six positions, one of them unused, t = 1: every
  reference, codeword, reading and repetition of both. The theorems hold for any code.
- `key`: one `NonceSigV2` and one `NonceSig`, of which one runs at a time, any number of
  restarts and crashes, `MaxSaveFaults` 2 (a failure, and another one while recovering
  from it), `MaxTrainings` 2 (a model and the report of another), each of them without an AUROC, at
  chance or above it. Calibrations of one chip differ by a quarter of a stride over the edge
  of a bin, so they derive different keys, which is what makes losing
  one visible.
- `pingpong`: 40 iterations, `IntMax` 47: the overflow begins at iteration 24, so both
  sides of it are run through.
- `capture`: seven programs of two or three repetitions, two targets where
  the code has seven, three of the Jacobian capture's four amplitudes and two of its four
  workers; seventeen temperatures on and between all thresholds; `MaxPolls` 3 for
  the timeouts of `wait_cool` and of the guard that has one.
- `demo`: `MaxClicks` 5 and `MaxFailures` 1: a stale replay needs a challenge, a
  signature and the replay, which leaves two clicks to interfere with it.
- `gate`: hosts of one and three CPUs, none and one zone, two CPUs and one zone per
  plan, three dimensions: three are the fewest with a permutation that is not its
  own inverse. Distances inside the band, at its edge, at one and a half
  times it and beyond. `Threshold`: one to four examples with seven values of p0, shares of
  quarters, so that the quantile falls on examples and between them, with ties and at the
  floor. `UnkeyedEvaluation`: every plan of two nonces from two permutations, one of them
  not its own inverse, and two sleeps; a reading that is near one of them and one that is
  near neither; two evaluations per attack (`Evals`) and libraries of two (`LibLen`), so that the nonce asked for
  is in it, or not, or twice; any of these libraries may be the one that is named. The three share no state and move one at a time.
- `binding`: separators and one other byte, two hosts, two keys, nonces of up to two
  bytes; two queries or two bundles, which is what the properties relate; numbers with a
  rounding that loses something, a program that hardly depends on the signature and one that
  may give NaN.

`CHECK_DEADLOCK FALSE` is given where the system stops: clicks, messages or
iterations are used up, or a capture has ended or waits for ever for a worker. In
`fuzzy` and `key` deadlock is checked.

## 5. Fairness

- `exchange`: weak fairness of each nonce's handlers together (`Handle(n)`), which
  says that a message in flight is delivered and a handler that was called runs. It
  is the assumption any exchange needs; sending, retrying and losing are not
  fair, and a lost message is gone.
- `pingpong`: weak fairness of each thread and of main. The threads are pinned to
  different cores, spin on their own and are never blocked.
- `capture`: weak fairness of the program and of each worker process, which the
  operating system's scheduler gives. None for the sensor: `Cool`, the guard's wait for the
  temperature to drop, is not part of `Main` unless it has a timeout, so a chip that stays
  warm keeps it waiting, and `Ends` has that as one of its cases.
- No liveness property is stated for the others: their next calls are up to a user
  or a network.

## 6. What is proved

TLAPS proves these for every value of the constants.

| Module | Theorem | From |
|---|---|---|
| `MultiRoundVerifierProofs` | `TypeCorrect`, `AcceptanceBinds` (`AcceptedSeriesWasBound`), `SessionEndsOnce` (`OneOutcomePerSession`), `Refinement` (`RefinesCommitReveal`) | claim lists are sequences; `Absent` is no entry |
| `MultiRoundProofs` | `TypeCorrect`, `OnlyRepetitionRejects` (`HonestRejections`), `EachReadingIsRevealedOnce` (`RevealedAtMostOnce`), `FinishedIsTidy` (`NothingLeftBehind`), `VerifierInContext` | the marks for a missing key are no entry and no series; an aggregate is not out of tolerance of itself |
| `PrimitivesProofs` | fuzzy extractor: `TypeCorrect`, `Soundness` (`AcceptedIsClose`), `Completeness` (`CloseIsAccepted`) | finitely many positions; codewords zero in the unused positions and more than 2t apart |
| | hashed strings: `ToldApart` (`QueriesToldApart`), `OnlyAsMade` (`AcceptedAsMade`), `HonestPasses` (`HonestAccepted`), `BindingTypeCorrect` (`ZkTypeOK`) | hosts without the separator; digests of a fixed length; inputs of one length for all bundles (`XLen`), as of one program; rounding leaves rounded numbers alone, a number is near its rounding |
| `EvaluationProofs` | `KeyOnDisk` (`ReadyKeyIsOnDisk`), `LibraryKept` (`LibraryUnderCurrentKey`), `CalibrationKept` (`CalibrationNeverReplaced`), `EvaluationRefinesKeyLifecycle`, `VetoWasEarned` (`VetoIsEarned`), `EvaluationTypeCorrect` (`EvalTypeOK`) | `Exclusive`, processes one after another, for all but the refinement; the marks for unreadable files are no calibrations, and like that for no training no trainings |
| `PingPongProofs` | `TypeCorrect`, `SamplesAreRoundTrips`, `OutputIsComplete` (`DumpIsComplete`), `NoStoreIsLost` (`GenerationsAreConsecutive`) | the wrapped value is off by more than the counter ever reaches |
| `GateProofs` | keyed: `PlansAreWellFormed` (`PlanIsWellFormed`), `VerdictOnReading` (`VerdictIsOnTheReading`), `ShareIsLost` (`TargetReached`) | at least one CPU and one dimension; a positive band; positive share, floor and number of examples |
| | unkeyed: `OwnPlanPasses`, `HonestAttackPasses` (`HonestOwnPasses`), `ReplaysPassByChance` (`ReplayNeedsChance`), `KnownNonceIsReplayed`, `LibraryIsThere` (`OwnModelHasLibrary`), `UnkeyedTypeCorrect`; of both, `GatesTypeCorrect` | permutations of the dimensions; finitely many bits in a nonce |
| `DemoProofs` | `TypeCorrect`, `AffinityIsRestored` (`AffinityRestored`), `StaleReplaysAreStale` (`StaleIsUnderAnotherNonce`), `ShownTogether` (`LastSigIsOfLastNonce`) | none but that the bounds are naturals |
| `CaptureProofs` | `TypeCorrect`, `SavedIsMeasured` (`SavedRowsWereMeasured`), `MeasuredUnderLoad` (`LoadIsOn`) | a program has a repetition, a phase and a guard in it |

The bounds of the runs (`MaxSends`, `MaxFaults`, `MaxSessions`, `MaxClicks`, `MaxTrainings`,
`MaxProofs` and so on) are arbitrary naturals here: the theorems hold for every one of them.

*The verifier.* `AcceptedSeriesWasBound` is not inductive: nothing in it connects an open
session to what was issued. `ChallengeIssued` does (a session with constraints
is issued under the commitment on record), and it survives `round1_recv`
because that replaces the entry whole. `OneOutcomePerSession` needs `SessionsInOrder`:
session numbers are used up in order, belong to one nonce, and an open session has
no outcome yet; `Close` keeps it because it takes the entry out. The refinement maps
the entry to the abstract stage and commitment and the accepted outcomes to
`accepted`; its step theorem goes action by action, with one lemma (`BarUpdate`) for
the change of one entry.

*The exchange.* An honest rejection is about an earlier overwrite, which the property does not
mention, so the invariant follows each nonce by itself (`Local`). `Fresh`: before `round1` there is
nothing under it but the nonce message. `OneSeries`: after one `round1` only one series takes part,
wherever it is (held, in a message, committed to), so a mismatch needs a second. `InOrder`: without
duplicates the commitment arrives before constraints are sent and these stay on record until the
reveal, so a KeyError needs a duplicate or a second `round1`. `Tidy` lists, for a nonce sent once
over a transport that lost and repeated nothing, the seven states of its exchange (`UnderWay`), the
last of which leaves nothing. Each handler touches one nonce, and `SameKept` keeps
the others; the transport's faults falsify the premises of `Tidy` and `InOrder` once and for all,
because `losses` and `dups` only grow. `VerifierInContext` takes the verifier's part of every step to
a step of `MultiRoundVerifier` or a stutter, so the four theorems about it hold inside the exchange.

*The fuzzy extractor.* `Masked` says that the mask is reference xor codeword, so
that unmasking a reading gives the codeword xor the difference; the rest is that the
distance is a metric (`Triangle`) and that a decoder of radius t is right within t
errors (`DecodeCorrects`, from the minimum distance) and hands back nothing
farther than t (`DecodeBounded`).

*The key.* `OneAtATime` and `FilesFit`: what the files hold when a process is at each
step. The key is in memory only after the calibration it comes from is on disk, and it
is served only after it is saved. `LibraryFits` adds that a process calibrates only
when there is no complete file, which is true until a save fails. Overlapping processes
do not have this (`key_same_chip` is the run with overlap).

*The evaluation.* Every step of it is a step of the life cycle of the key or leaves that
alone, so the theorems about the key hold while stages run. `Numbered`: trainings are
numbered in order, and one under way is the last. `FilesOfTraining`: an AUROC above chance in the
one file is that of the model in the other, or of an earlier training, and then the model's is being
reported or was cut. One process at a time matters again (`Alone`): the model a process
holds is then still the one in the file when it reads the report of a training, and
`MemoryFits` carries that from there to the report of the attacks. `EvalTypeOK` rests on two facts that are not types: a process in a stage has that
stage still to finish (so that `Tail` is of a list with something in it, `TailOfRest`), and from
training or loading on it holds a training (`MemoryTyped`).

*Ping-pong.* `Awaits`, `AHolds` and `BHolds` say who holds the turn, what the counter
reads then, and that an expectation is the exact value or too large by `Shift`: a
thread with an overflowed expectation stays where it is and does no harm.

*The plan.* `ChoiceInv`: the items drawn and those left in the pool are distinct and
apart, which swapping the last item left into the gap preserves; `PairsInv`: the
shift past the first core never leaves the host; the permutation stays injective
under a swap.

*The keyed gate.* `EachIsUsed`: an injective map of the dimensions into themselves reaches each of
them, so undoing the permutation gives back the reading (`Undone`), and the verdict is on that.
`SquaresAtMost` and `SquaresAtLeast` put the sum of squares between any one square and `Dim` times
the largest. The sum is a recursive function; that its definition has a solution, and these two
bounds, go by the least number at which they fail (`LeastNat`, `Climb`), since an induction theorem
cannot be instantiated here.

*The threshold.* Sorting distinct values puts exactly k - 1 examples below the k-th
(`SortedExactly`), so the number of examples up to the interpolated quantile is its place
(`UpToQuantile`), and `TargetReached` is arithmetic on the quotient and remainder of that place.

*The page.* `Counted`: a nonce is drawn by a click and a click draws one, so the numbers drawn fit
their type. `ComingIsNew` is what makes a stale replay stale: the nonce in a `/challenge` response
that the page has not received is not shown, not stashed, in no other request and in no other
response; so when the replay goes on after its `await`, what is shown is not what was stashed
(`StaleHasMovedOn`). `SignsInTurn` and `LastIsShown` say of the `/sign` requests that without an
overlap or a failure each is over before the next, and the last one over is on the page.
`AffinityRestored` is inductive with the fact that a pinned thread has a pair left.

*The capture.* `RowsInv`: the rows before the current repetition are measured, one duration each,
what is saved is just those, and the report counts them. `LoadInv` follows worker processes over phases: a
worker that was not told to stop is of the phase the program is in, a stop flag belongs to a phase
that is over or being joined, and while samples are taken every worker of the phase lives.

*Hashed strings.* A string of several parts can be taken apart again from both ends: labels and
digests have fixed lengths, and the host, in the middle, holds no separator. The lemmas
`SplitPrefix` to `SplitEnds` do this for each shape, `ChipIdTells`, `StreamTells`,
`TagTells` and the like for each hash; the invariants (`IdsInv`, `QueriesInv`, `MadeInv`,
`VerdictInv`) say that what is stored was made of such strings.

*The unkeyed gate.* `PosOfPlan`: a plan puts the sleep in exactly one place. So a
signature passes under its own plan (`OwnPlanPasses`), and under another only by what that
puts there (`OtherPlanPasses`). `HonestInv` counts: in the honest attack everything evaluated
was accepted, which `HonestOwnPasses` needs and does not say. `LibraryInv`: a model on disk is
younger than a library, no file is removed, and a battery with that model started after both;
so where the library is named, or is that of this host's model (`Covered`), there is one to replay.
`NearestIsKnown` rests on the least index at distance none.

Only model-checked: liveness, `EveryExchangeAccepted` and the two `Ends`, which is beyond TLAPS
here. Every invariant and every action property of a passing run is stated by a theorem. The three
properties of §3 that are violated are false, and nothing is proved of them. What a theorem leaves
open is what its constants leave open: that bchlib decodes, that `Evaluate` is numpy's, that a
hash tells its inputs apart.

## 7. Hazards and the properties that watch them

`PROJECT.json` has the list with source lines. In short:

- *Sessions*: stale constraints after an overwrite, handlers out of order, an exception
  after the pop (`AcceptedSeriesWasBound`, `OneOutcomePerSession`,
  `RefinesCommitReveal`); retries and duplicates against the honest side
  (`HonestRejections`, `RevealedAtMostOnce`, `EveryExchangeAccepted`); entries that
  nobody evicts (`NothingLeftBehind`); fewer answers than questions (`AcceptedAnsweredAll`).
- *Files*: half-written calibration, key saved late or not at all, library under an old
  key, a good calibration replaced (`ReadyKeyIsOnDisk`, `LibraryUnderCurrentKey`,
  `CalibrationNeverReplaced`, `SameChipSameKey`); a model beside the report of another
  training (`VetoIsEarned`).
- *Arithmetic at edges*: the pool's last item, the shift past the first core, a host with
  one CPU, the band's edge, int overflow, ecc bits (`PlanIsWellFormed`, `VerdictIsOnTheReading`,
  `DumpIsComplete`, `CloseIsAccepted`).
- *Interleaving*: the page over its awaits, threads over one object and one affinity, two
  spinning threads (`StaleIsUnderAnotherNonce`, `LastSigIsOfLastNonce`,
  `AffinityRestored`, `GenerationsAreConsecutive`).
- *Aborts*: half-measured rows, load left running, waits without a timeout
  (`SavedRowsWereMeasured`, `LoadIsOn`, `Ends`).
- *Strings that are hashed*: separators inside the parts, one string for
  two purposes, fields of several bundles put together, rounding between hashing and computing (`QueriesToldApart`,
  `AcceptedAsMade`, `HonestAccepted`).
- *Evaluation*: the sleep looked for in the wrong place, plans that agree by chance, a library
  torn, missing or replaced while it is needed, a threshold off by one example
  (`HonestOwnPasses`, `ReplayNeedsChance`, `OwnModelHasLibrary`, `TargetReached`).

Without a property: NaN in a series (the aggregates are an arbitrary predicate; that
NaN passes a comparison is in the claim lists of `verifier`); the inputs of `inference_tag`
joined without separators (`zk_inference_binding.py:71`), which could be split in another way
only if their lengths differed, and one program's do not (`XLen`). How the code works rather than
what might go wrong in it, and so not in that list: the power readings computed from counters
shared by threads (no verdict of the demo depends on them); `derive_plan` on a host with one
CPU, which raises before there is anything to check; `np.bincount` over frequencies in Hz
(`gpu_clock_jitter.py:55`) and a sensor that comes or goes (`thermal_spread.py:78`), which end a
capture without a file (`Raise`); a sensor that cannot be read, which counts as 0 degrees
(`thermal.py:28`).

## 8. Not modelled, and why

- The draws of `derive_plan`: it takes everything but three byte ranges from
  `numpy.random.Generator`, library code, so a plan is any function of the nonce.
- The statistics: bands, classifier training, bootstrap intervals and the analysis
  scripts compute over arrays of floats. `gated_accept` and `calibrate_dim31_band` have no caller.
- The values measured by the signature blocks; their guards, failures and files are in `Capture`.
- `load_kchip`, `enrollment_publish`, `load_enrolled`: nothing in the repository calls them.
- `save` and `load` of the fuzzy extractor, compilation of the C helpers,
  `confirm_idle`, `burst_budget`.
- The files of `train.py` and `attacks.py` together with those of `attacks_extended.py`: the names
  are the same, but the default directories are not.
- Shell scripts, examples, paper, results.

## 9. Order of the work

1. *Sessions*: abstract specification, verifier, its proofs; prover and exchange. Done.
2. *Extractor and key life cycle*, with proofs; the evaluation stages on top of it. Done.
3. *Concurrency and loops*: ping-pong, plan derivation, capture, demo and gate, with proofs. Done.
4. *Strings and rounding*: controlled PUF and inference binding, with proofs. Done.
5. *The unkeyed scheme*: its gate, training and evaluation; the threshold of the
   keyed one; with proofs. Done.
6. *Left to prove*: of what a run checks, only liveness, which stays with TLC. Worth adding are
   the verifier's invariants restated over the variables of `MultiRound`, and a property that covers a
   NaN in a series.

## 10. Running it

    tlc -workers 2 -config MCMultiRound.cfg MCMultiRound      # likewise for each run of PROJECT.json
    tlapm MultiRoundVerifierProofs.tla                        # likewise for each ...Proofs module
