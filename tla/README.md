# Verification of the Clared Guard

TLA+ models, model-checking runs and machine-checked proofs for this
repository: the guard that admits *execution envelopes* (a set of tools,
resources and budgets with a deadline), stages tool calls inside them, and
settles or rolls back what was staged.

## Inventory

| Part | Code | State it keeps | Operations | Correct when |
| --- | --- | --- | --- | --- |
| Session manager | `clared-core/src/session.rs` | table of sessions (RwLock), consumed delegations (Mutex) | `propose`, `amend`, `execute_tool`, `seal`, `abort` | a retry does nothing twice; budget is conserved; one outcome with one receipt; only the active token acts; nothing happens past the deadline; a delegation token backs one generation |
| Typed budgets | `protocol.rs` | none (a value in the session) | `value`, `add_assign`, `deduct` | no overflow, no underflow, missing is not zero |
| Settlement adapters | `adapter.rs`, `adapters/*.yaml`, scoping, charging and ordering in `session.rs` | registry, fixed at start | `from_yaml_documents`, `get` | charges add up; plans keep every action in order; the registry holds what the documents declare |
| Cedar policy | `policy.rs` | compiled policy set, fixed | `evaluate` | deterministic, so seal agrees with the call |
| Delegation proofs | `delegation.rs` | none | `verify_delegation_token` | bound to the identity, until it expires; one proof under several spellings |
| Capability tokens | `crypto.rs` | signing key | `issue`, `verify`, `sign_evidence` | only issued tokens verify |
| JSON-RPC server | `server.rs` | none | dispatch of five methods | every request is answered |
| Bootstrap | `main.rs` | none | `main` | serves only when everything is sound; a restart starts from nothing |
| Python harness | `clared-python/clared/harness.py` | token, generation, receipts, two idempotency keys | `call_tool`, `amend`, `seal`, `abort`, the `session` context manager | knows the outcome; ends every session it began |
| v0alpha2 drafts, demos | `specs/*-draft.md`, `examples/`, `scripts/` | | | no code, or no logic of its own |

The harness sends JSON-RPC requests; tokio runs a handler per request on any
worker; the handlers meet in the two locks of the session manager. The policy,
the signer and the registry are read-only after start.

What is hard here: the clock is read *before* the write lock is taken, and may
be set back; `propose` takes two locks one after the other and `amend` one
inside the other; a key may be retried while its first use is in progress;
tokens are replaced while calls under the old one wait; charges are deducted one
by one; everything is in memory and lost on a restart; the client may lose any
answer, and a request it gave up on may still arrive. `PROJECT.json` lists these
hazards at their lines, with the properties that cover them, or the reason why
none does.

## Modules

| Module | Models |
| --- | --- |
| `TypedBudgets` | a budget is a total function from dimensions to `u64` or `None` (missing) |
| `CedarPolicy` | the default policy set, decided as Cedar does: a condition that cannot be evaluated does not apply |
| `SettlementAdapters` | declarations, scopes, charges, and the stable sorts of `seal` and `abort` |
| `SessionManager` | the five handlers, served by concurrent workers |
| `SessionProperties` | type invariant, safety invariants, action properties, liveness |
| `Envelope` | abstract: what the guard promises about one envelope and its delegations, without workers, locks, tokens, statuses or clocks |
| `SessionRefinement` | the refinement mapping: `SessionManager` implements `Envelope` |
| `GuardLocks` | the handlers cut at every lock and every change in place; implements `SessionManager` |
| `GuardFaults` | `SessionManager` with restarts of the process and a clock that is set back |
| `Harness` | the Python harness as a client of `GuardFaults`, over a network that delays and loses |
| `HarnessProperties` | what a block of the harness may believe, against what the guard did |
| `Startup` | `main` up to the listener, and `AdapterRegistry::from_yaml_documents` |
| `MC_Session`, `MC_Locks`, `MC_Faults`, `MC_Harness`, `MC_Startup` | small instances for the runs |
| `SettlementProofs`, `SessionManagerProofs`, `SessionWorkProofs`, `BudgetProofs`, `RefinementProofs`, `HarnessProofs`, `StartupProofs`, `GuardLocksProofs` | theorems |

How they build on each other:

```
TypedBudgets -- SettlementAdapters -- SessionManager -- SessionProperties -- GuardFaults -- Harness
CedarPolicy ----------^-------------------^                 |       |
                                                            |       '-- SessionRefinement --> Envelope
Startup                                                     '---------- GuardLocks ---------> SessionManager
```

### SessionManager and the code

`sessions` and `used_delegations` are the two locked structures; a session is a
record with the fields of `ActiveSession`, indexed by its id. `pending[w]` is the
request that worker `w` is serving together with the `now_ms` it read. `reply` is
the answer sent by the last step. `uuids` numbers the staged ids drawn. `backing`
is a history variable: what each delegation was spent on.

Every handler is cut where other workers can get in between:

1. `Receive(w)`: the checks before the lock succeed and the clock is read
   (`Refuse(w)` answers when they fail). The clock read and the entry into the
   handler are one step, the wait for the lock is the time until the next.
2. The locked part is one step: nothing else can see or change the session
   table meanwhile. Each way out of the handler is an action
   (`CallRejected`, `CallExpires`, `CallReplayed`, `CallHalfCharged`,
   `CallStaged`, and so on), and its guard is the chain of checks in the order
   of the code (`CallOutcome`, `SealOutcome`, ...), which also fixes the error code.
3. `propose` has two such steps, `ConsumeDelegation` and `InsertSession`,
   because it drops the mutex before it takes the write lock.

4. `Undispatched(w)` is what the dispatcher answers by itself: params that do not
   deserialize, methods that do not exist. It reaches no state.

`SUSPENDED` and `SEALING` are set and left under one lock and so are never seen here;
`GuardLocksProofs` proves that. Abstractions: a token is its claims, and only tokens that
were issued verify (no two are issued with the same session and generation, so the
random `jti` is left out); a fingerprint is the call itself, which is what
serialising it identifies; session ids are fresh because `InsertSession` picks one
not in use; a staged action and a receipt keep what is needed to tell whether the
right work is in it, in the right order; JSON values are string, integer, float,
bool or null.

A delegation is the *token as it was presented*, a string in the code. It consists of the
proof it carries (`DelegationProof`: identity, expiry and nonce, which the MAC covers) and
of the `spelling` of its expiry: `verify_delegation_token` parses the expiry and computes
the MAC over the number written canonically, so `9000` and `09000` verify alike
(`DelegationValid`), while `consume_delegation` keeps strings and does not find one when
it looks for the other (`ConsumeDelegation`, `AmendOutcome`). `DelegationAccounting` is
therefore about tokens; of proofs it would be false (run `respelled`).

### GuardLocks and the code

The variables of `SessionManager` are the memory; `sessions_lock` and
`delegations_lock` say who holds the RwLock (its write side, the only one used) and
the Mutex, and `step` where each worker stands. `amend` holds the first while it takes
the second; `propose` drops the Mutex, a temporary of one statement, before it
takes the RwLock. What changes a session in several assignments is cut: `Suspend`
and `Resume`, `DeductOne` per dimension in any order, `SealBegins` and `SealEnds`.
The history variable `held` is the table when the RwLock was taken. Under the
refinement mapping the table is `held` until the handler returns; an amendment
takes effect when its delegation is consumed, after which it cannot fail.

### Harness and the code

`client[c]` is one `async with harness.session(...)` block: its phase, the token it
has, the receipts it was given, the results it was told of. `Enter`, `Finish`,
`Fail` and `Cancel` are the ways through `session()`; `CallTool`, `AmendBudget` and
`CloseEarly` are what a workflow may do, in any order, also after one of them
failed. `wire` holds requests that were sent and that no worker took: they arrive in any
order, at any time, or never; httpx sends none twice. An awaited request `Returns`, is
`Rejected` or `TimesOut`, and what follows (`Raises`) depends on the phase: a seal
that raises makes the block abort. A restart of the guard (`GuardRestarts`) drops what is
being served. The model of the guard is used whole: `Take` and `Process` are
`Accept`, `Decline` and `Serve` of `SessionManager`, with the answer sent back.
A block awaits one answer at a time; a workflow that gathers several calls is not modelled.

### GuardFaults and the code

`Restart` is `main` once more: an empty table, no consumed delegations, and a new
signing key, so no earlier token verifies, while the secret of the delegations is
the same (it comes from the environment). `lost` and `spentBefore` are history.
`StepBack` sets the clock back.

### Startup and the code

`CheckSecret`, `OpenDocument`, `RegisterTarget`, `NextDocument`, `RegistryBuilt`,
`ParsePort` and `Bind` are the steps of `main` and of the loops in
`from_yaml_documents`, each with its errors; the first one ends the process. A
document is reduced to what is checked. The compiled-in policies always parse, so
that error is left out.

### Assumptions of the model

- Outside the run `faults`, the clock does not step back.
- Session ids, nonces and drawn idempotency keys never repeat.
- A request runs on one worker from its clock reading on; workers are added to the
  model only as far as races need them.
- `MaxU64` is scaled to 200000 in the runs. `MaxI64`, half of it, stays above
  every amount used, and the high-value limit of 50000 keeps its value.

## Runs

| Run | Question | Distinct states |
| --- | --- | --- |
| `retry` | Do retries, conflicting keys, late requests and racing seal/abort/call leave one outcome, every unit of budget accounted for, and faithful receipts? | 50 thousand |
| `amend` | Does a request under a replaced token ever have an effect? Do additions, overflowing ones included, conserve the budget? Is a refusal without effect? | 62 thousand |
| `admit` | Does a consumed delegation token back exactly one generation? | 83 thousand |
| `live` | Is every request answered, through both locks? | 143 thousand |
| `locks` | Is a handler atomic although it takes two locks and changes a session in steps? Who holds what? Is the budget overspent at any moment, whatever adapters declare? | 114 thousand |
| `faults` | What holds when the clock steps back and the process is restarted? | 160 thousand |
| `harness` | What may a client believe when messages are late or lost, it is cancelled, or the guard restarts? Does anybody else's request change its session? | 350 thousand |
| `startup` | Does a guard that serves have exactly the declared tools? | 42 thousand |
| `half_charge` | Does a refused call always cost nothing? (no, see below) | stops at the violation |
| `terminal` | Does a terminal status stay? (no, see below) | stops at the violation |
| `reuse` | Is a delegation used once, over restarts? (no, see below) | stops at the violation |
| `respelled` | Is a delegation proof used once, however it is spelled? (no, see below) | stops at the violation |

`retry` and `amend` also check `ImplementsEnvelope`: every step of the session manager
is a step of `Envelope` or none. In `Envelope` a delegation token is spent once, a task is
done once under its key and paid for, budget may be forfeited but never appears, and an envelope
ends once, with all that was done in its result or, when it lapses, nothing.

What `harness` shows: a block that returns has settled, and every result that was
acknowledged is in its receipt; a receipt in hand is never contradicted by what
arrives late; a block that raised or was cancelled although its session settled
has the receipt or gave up on an answer to seal; and a client is fenced out of its own session
only when it did not get the answer to `amend`, after which nothing it does has an
effect and its session can only expire. So after a lost answer to `amend` the harness
can neither seal nor abort, and after a lost answer to `seal` it reports an error
for work that may be settled: the code has no request that asks for the outcome.
After a lost answer to `propose` nobody has the token of the session that was admitted;
it then stays as it is (`OwnRequestsOnly`), and keeps its delegation spent.

Two workers are enough for every race on one session: the locked parts are atomic, so a
third can only add a further request that waited. Two keys give a retry, a conflict and a
fresh call. Two clock readings, before and at the deadline, give every comparison the code
makes with it. The budget of `retry` pays for some of the four calls and not for others,
one payment is above the policy limit and one is not. Calls out of scope are refused in
`admit`. `amend` goes to generation 3: three delegation tokens of the right identity, one
of which the proposal spends, and one of the wrong identity. `amend` and `admit` have two
tokens that carry one proof in different spellings. `admit` has two sessions, and an adapter of a deployment's own whose calls are refused half charged. `live` has two session
ids and one delegation, so that two proposals can be in service and one of them must lose;
an amendment there takes both locks and is refused, so one of its two proposals brings
the dimension that the other lacks, without which no call would be staged. `locks` has two
delegations, so that a proposal and an amendment compete for the second, and an adapter
that charges one dimension twice and another that the budget lacks until it is amended;
its clock stands still. Both take every request that passes the checks before the locks,
also for sessions that do not exist or under the token of another session: these are refused
under the RwLock. What fails the checks before meets neither lock and is left to
`SessionManager`. `harness` has one block with one session, one worker and one
restart, and its workflow makes requests until it has sent three, proposal included; that
several blocks share nothing but the guard is proved (`OwnRequestsAct`). One worker is
enough: the order in which requests are served is already arbitrary, and the races of
two are in the other runs. `faults` has one restart
and one step back between two clock readings. `startup` has all lists of up to three
documents out of ten, sound and faulty. Sets of interchangeable values are
symmetric in safety runs only. Deadlock is checked in `live`
and `locks`. Elsewhere it is not: a system that nobody sends a request to, and whose clock
reached its bound, stops; so do a guard that failed to start and a block that ended.

**Fairness.** `LockFairSpec` asks strong fairness of each worker's acquisitions and weak
fairness of what it does with the locks it has: parking_lot's locks are eventually
fair, every critical section is finite, and tokio runs a handler that became ready. That
the sections do not wait for each other is not assumed, it is what the run shows. No
fairness is asked of arrivals or of the clock. `HarnessFairSpec` asks weak fairness of the
end of an awaited request, which httpx's timeouts of 5 and 10 seconds bring about;
the network, the guard and the workflow owe nothing.

**Where the code departs from its documents.**

- `terminal`: `execute_tool` marks a session EXPIRED when it finds it past the
  deadline, also when it was SETTLED or ABORTED (`session.rs:326`);
  `specs/execution-envelope.md:50` has only non-terminal states expire. The
  receipt survives, and so `OneOutcome` and `ClosedForGood` are stated on the receipts.
- `half_charge`: a charge of 0 on a custom dimension that the budget lacks
  passes the check of all charges (`unwrap_or(0)`) and fails when it is deducted,
  after others were (`session.rs:411`); `specs/execution-envelope.md:115` asks for an
  atomic reservation. Only adapters other than the built-in ones can declare it.
  No call gains from it (`NeverOverspent` holds), so budget is lost, not overspent.
- `reuse`: consumed delegations are kept in memory only (`session.rs:115`), so after a
  restart an unexpired one admits another session, while
  `specs/execution-envelope.md:28` says that a consumed token cannot.
  `docs/threat-model.md:39` admits that the state of replays is lost on restart.

- `respelled`: what is consumed is the token string (`session.rs:676`), while verification
  parses the expiry and accepts every spelling of it under one MAC (`delegation.rs:77` and
  `91`). A proof whose expiry is written in another way backs another session, while
  `specs/execution-envelope.md:28` says that a consumed token cannot, and
  `docs/threat-model.md:32` calls the delegation single-use. The harness spells every
  expiry in one way, so among the tokens it mints each proof is used once
  (`MintedProofsServeOnce`).

## Proofs

For every set of workers, session ids, keys, delegations, proposals, calls,
additions and adapters, checked by TLAPS. Each theorem about a property of a run
names that property, so the run shows on a small instance what the theorem says of all.

| Theorem | What it says |
| --- | --- |
| `SettlementProofs!PlansSort` | settlement and rollback plans are stable, sorted permutations of what was staged |
| `SessionManagerProofs!TypeCorrect` | `TypeOK`, budgets inside `u64` included |
| `...!OneOutcomeAlways`, `SealNeverDeniesStaged`, `ExpiryIsDue`, `NeverReopens`, `ActiveTokenGoverns`, `DeadlineFreezes` | the life of a session |
| `SessionWorkProofs!StagedExactlyOnce`, `ReceiptsAreFaithful`, `AnswersAreOnRecord`, `RefusalsLeaveNoTrace` | what is staged, and what callers are told of it |
| `BudgetProofs!DelegationsAccounted`, `BudgetNeverOverspent`, `BudgetIsConserved` | where every delegation token and every unit of budget went |
| `RefinementProofs!SessionsAreEnvelopes` | `SessionManager` implements `Envelope` |
| `GuardLocksProofs!LocksAreOrdered`, `HandlersRunAtomically`, `NothingIsHalfDone` | the locks; `GuardLocks` implements `SessionManager` |
| `HarnessProofs!OneOutcomeUnderFaults`, `ExactlyOnceUnderFaults`, `NeverOverspentUnderFaults`, `ClosedWhileItLives` | what restarts and a clock set back leave true |
| `...!SuccessSettles`, `ReceiptsStand`, `NotSettledUnawares`, `FencedByLostAmend`, `FencedStrands`, `OwnRequestsAct`, `HarnessTypeCorrect`, `MintedProofsServeOnce` | what the blocks of the harness may believe, for any number of them |
| `StartupProofs!ServesDeclared`, `FirstFaultStops` | what the guard starts with |

**Sorting.** The place of an action is the size of the set of those that go before it;
places are nested sets, distinct and at most the length, so they fill `1..Len`.

**Types.** One lemma per function of the code says what it makes of a session
(`AddAssignType`, `DeductType`, `StagedType`, ...), then one per group of actions. That
budgets stay inside `u64` rests on the checks that precede the arithmetic.

**The life of a session.** `TypeOK` alone is not inductive for what follows.
`SessionsSound` adds that a session's receipts agree with its status and that all
it staged passes the policy, which is why seal cannot be denied; it refers to no clock.
`LifecycleInv` adds that an EXPIRED session is past its deadline, and that no request read a
clock ahead of the present one. `Changes(w, sid)` lists all a worker can do to a
session; `SessionStep` proves that every step leaves a session alone or is one of
these, and the theorems are cases over that list.

**Work.** `WorkInv` adds to `SessionsSound` that every session is `Accounted` for: what it
staged lies in the order of its staged ids, all drawn so far; keys with a result
and staged actions correspond one to one; a receipt is the plan of that work. An injection
from keys to actions is what makes staging twice impossible, and the work survives
the abort that clears it because the receipt is made first.

**Budgets and delegations.** `DelegationInv` says of each delegation token, as presented, that it is unused, in
the hands of exactly one proposal in service, or backs one generation of one session; and
of each generation that one delegation backs it. `BudgetInv` adds that the books of every
session can be made up: finitely many calls and delegations, each call one its adapter can charge.
`Gap` is what was granted less what is left and what was spent; `BooksStep` says which actions keep
it and which can only widen it. `Solvent` (it is never negative) therefore survives a refused call
that loses budget, `Balanced` (it is zero) does not. The sums are over sets
(`SumFunctionOnSet`), where the library's induction cannot be used; the lemmas on
them (a new element, a changed one, monotonicity) are proved by taking the least
counterexample of an enumeration.

`BudgetIsConserved` and `RefusalsLeaveNoTrace` have a hypothesis, `AdaptersCovered`: no adapter
declares a charge of 0 on a dimension that is not built in, which is what loses budget in
`half_charge`. Without it both are false. `BuiltInBudgetIsConserved` and
`BuiltInRefusalsLeaveNoTrace` discharge it for the adapters in `adapters/*.yaml`, and
`BudgetNeverOverspent` needs no such hypothesis.

**`Envelope`.** A step simulation: each handler maps to `Admit`, `Widen`, `Perform`,
`Forfeit` or `Close`, or to a stutter. `Close` rests on `PlansSort` and `WorkInv`, `Admit`
and `Widen` on `DelegationInv`. What `Envelope` spends is a token too, not a proof.

**Locks.** `LockOrder` is inductive up to its last conjunct, which follows from the others: what
a worker holds is a function of where it stands, each step moves one worker, and a lock is
given only when it is free. `LockInv` adds what the holder of the RwLock has made of the
table since it took it (`Begun`): nothing, or one change of the one session its request names,
with every check behind it. While it is at work the mapping shows the table it took
(or, once an amendment cannot fail, the amended one), which is well typed although the real one is not;
when it returns, the real table is what the handler of `SessionManager` makes of the
shown one. Charging dimension by dimension comes to charging all at once (`DeductsOneMore`), and
whoever comes in presents a token that exists in both (`RequestsAtomic`).

**Faults.** None of `WorkInv`, `DelegationInv` and `Solvent` reads the clock, and a
restart empties sessions, delegations and their history together, so both are one more case.

**Harness.** Every step of `HarnessNext` is a step of `FaultNext` or leaves the guard alone
(`GuardStep`), so `FaultInv` holds of the guard that the blocks talk to. What a block believes
is another matter: none of the properties is inductive, since a request may be
served long after its block gave up on it. `ClientsInv` adds, as separate conjuncts:

- `WellPlaced`: the phase of a block decides what it has and what it waits for.
- `Agrees`: the token given last, read or not, is that of the session on record at an
  earlier generation or the present one; if an earlier one, the block gave up on an answer to
  `amend`. What is settled was told to the block, waits for it to be read, or was given up on.
  Receipts and results in hand are those on record. The record is what is in the table, or
  what a restart wiped out, so this survives restarts.
- `Posted`: a message in transit names the session of its block, under a token the block had
  when it sent it, and is either what the block waits for or of a method in `unanswered`.
- `OnePlace`: a message is on the wire once or with one worker; so it is answered at most once.
- `Linked`: a worker serves what it took.
- `Apart`: two blocks never have a session in common, which is why none
  can change what another holds.

The lemmas follow the way of a request: what a block sends (`SendStep`), how it ends
(`ReturnsStep`, `RaisesStep`, `CancelStep`), what a worker makes of it (`RefusesStep`, `FulfilsStep`),
and what its block learns of that (`HearsRefusal`, `HearsSuccess`) or does not (`ToldNothing`,
`ToldInVain`); then one lemma per group of actions, and `HarnessStep`. The action
properties need that what is on record changes only when a request that names
the session is answered (`RecordChanges`): the sender of such a request owns the session
(`OwnRequestsAct`), and if it is fenced, its token is not the active one (`ActsForOwner`).

`MintedProofsServeOnce` has an invariant of its own, `CanonicalInv`: every token on the
wire, with a worker or behind a session is spelled canonically. Tokens of one spelling with
the same proof are the same token, and of tokens the accounts are right (`TokensAccounted`).
A restart empties sessions and what is consumed alike, so the theorem is about the
life of one process; `reuse` shows that it has to be.

**Startup.** `StartupInv` says which targets were read so far, that these and the documents they are
in were sound, that the tools registered are exactly these, and, where the process failed, which
fault it stands at. Lists of documents and targets have any length.

Assumptions used, all named in the modules that declare the constants:
`InputAssumption` (proposals and additions carry `u64` budgets, times and settlement orders
are naturals, an adapter is `WellDeclared`, as `from_yaml_documents` makes them),
`MaxU64` a positive natural, and that `None` is none of the values it stands in for
(`NoneIsNoValue`, `NoSpendingIsNone`, `NoneIsNoEnvelope`, `NoneIsNotHalfDone`,
`NoOwnerIsNoWorker`, `RegistriesAssumption`, `NoneIsNotSent`), and `HarnessAssumption`: what
blocks ask for and the delegations they mint are among the inputs of the guard. TLC
evaluates all of them in the runs.

Every invariant and every action property that a passing run checks is the subject of a
theorem. Only model-checked: liveness (`EveryRequestAnswered`, `BlockEnds`), which the prover does not
do; that `NeverOverspent` holds also inside a handler, between two of its assignments (run `locks`: the
theorem is of handlers that run in one step, as `HandlersRunAtomically` shows they do);
and the violations of the four properties the code departs from. The theorems speak of steps, not of
fairness, so those of the harness are of `HarnessSpec`, which `HarnessFairSpec` strengthens.

## Plan

The plan is carried out: the components it named are modelled, and the proofs it set out are done.
Whoever goes on has these to choose from: several requests of one block in flight, other
policy sets than the default one, and, if the guard gets a store that survives restarts, its recovery.

## Not modelled

- The v0alpha2 drafts: there is no code.
- Cryptography and encodings: HMAC, Ed25519, base64 and hashes are abstracted to what
  they promise (`DelegationValid`, `PresentedTokens`); TLC cannot say anything about them. Of
  the encoding of a delegation only the spelling of its expiry is modelled.
- Cedar beyond the default policy set: `CedarEngine::from_policy_str` takes any policy text,
  and its meaning is Cedar's.
- HTTP, JSON and logging; the demo scripts, which hold no logic of their own.
- Growth without limit: sessions and consumed delegations are never removed, which
  `docs/threat-model.md:47` accepts. The runs bound both.
- Several requests of one block in flight at the same time, and workflows that use a session after its block ended.

## Running

```
tlc -workers 2 -config MC_Retry.cfg MC_Session
tlapm SessionManagerProofs.tla
```

Operators whose comment calls them a mutant are deliberate mistakes: each, put
in the place of the definition it names, makes the property it is paired
with in `PROJECT.json` fail.
