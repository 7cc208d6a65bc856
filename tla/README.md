# A TLA+ model of mpc-demo

mpc-demo runs several multi-party protocols in one process: a Shamir-based sum,
a distributed key generation (DKG) and a threshold ECDSA signature. The nodes
are objects; a simulated network hands their shares around through goroutines
and a channel. This directory specifies the protocols as the code runs them,
checks them with TLC, computes their numbers over a small curve and a small
field, and proves with TLAPS that the protocols are correct for any number of
parties and that the numbers are for any curve and any primes.

## The system

| Component | Source | State | Operations |
|---|---|---|---|
| Simulator (transport) | `cmd/mpc-demo/network/simulator.go` | `nodes`, `messageQueue` (capacity 1000), `numParties`, `threshold` | `AddNode`, `SendMessage` (a goroutine that sleeps 10 ms and writes to the channel), `BroadcastShare`, `StartMessageHandler` (one goroutine that delivers), `Stop` (closes the channel) |
| Sum protocol | `simulator.go` `SecretSharingPhase`/`ComputationPhase`, `node.go`, `main.go` `demoSumComputation` | `share`, `receivedShares`, `ready`, `readyOnce`, `result` per node | `ShareSecret`, `ReceiveShare`, `Compute`, interpolation of the results |
| DKG | `simulator.go` `DKGPhase`, `node.go`, `internal/dkg` | `SecretShare`, `ReceivedShares`, `Commitments`, `privateKeyShare`, `hasPrivateKey`, `sharedPublicKey` | `GenerateSecretShare`, `ReceiveShare`, `ReceiveCommitments`, `ComputeSharedPrivateKey`, `ComputePublicKeyShare`, `CombinePublicKeyShares` |
| Signing | `simulator.go` `SignPhase`, `node.go`, `internal/signing` | `signer` (lazily created), `NonceShare`, `ReceivedNonces` | `InitSigning`, `GenerateNonceShare`, `ReceiveNonceShare`, `ComputeSharedNonce`, reconstruction of k, signature shares |
| Secret sharing | `internal/secretsharing` | none | `Share`, `Reconstruct` over a prime field and over the curve order |
| ZK proofs | `internal/zkproof` | none | Pedersen `CommitPolynomial`/`VerifyShare`, Schnorr proofs; the demo calls only `CommitPolynomial` |
| ECDSA | `internal/ecdsa` | none | wrappers of `crypto/elliptic`, `VerifyWithCurve` |

Three kinds of goroutine act concurrently: main, which runs the phases one
after the other; one handler per simulator; one sender per message. Main and
the handler share the nodes' maps, in the sum protocol under `n.mu` and with a
barrier (the `ready` channel), in DKG and signing without either. Between
sending and using shares, main only sleeps 200 ms.

What is hard in this code, and what therefore the properties are about:

- a `Sleep` stands for "everything was delivered" (DKG, signing);
- `ReceivedShares` and `ReceivedNonces` are counted, looked up, ranged over and
  looked up again while the handler may write to them;
- `n.signer` is created lazily by whichever of main and the handler comes
  first, with no lock between test and assignment;
- shares of an earlier dealing or session stay in the maps;
- map iteration order decides which node's result gets which role;
- `Stop` closes a channel that senders may still write to;
- the phases assume a network that is exactly the parties `0..numParties-1`,
  a threshold in range and a fixed order of calls, and check little of it;
- `n.signer` keeps the key share of the moment it was made, whatever key is
  dealt later;
- the arithmetic has edge values (a hash of 0, s = 0, points at infinity, a sum
  beyond the prime) that a test with random 256-bit numbers never meets.

`PROJECT.json` lists each hazard at its line with the properties that cover it.

## Modules

```
Simulator ──── SumProtocol ──── MCSumProtocol      SecureSum (abstract)
    │                                                  ▲ Ideal == INSTANCE
    └── ShareCollection ── DKG ── MCDKG                └── SumProtocol
                            └── Signing                SigningService (abstract)
                                  └── Timely           ▲ Service == INSTANCE
                                        └── MCSigning  └── Signing

SimulatorProofs ─┬─ SumProtocolProofs
                 └─ DKGProofs ── SigningProofs ── VerifyProofs ── TimelyProofs

SecretSharing ── ECDSA ─┬─ PedersenVSS ─┐
                        └─ Schnorr ─────┴─ ThresholdECDSA ── DemoArithmetic
                                                                 └── MCDemoArithmetic

SecretSharingProofs ── DemoArithmeticProofs
```

The upper half keeps track of which share goes where under which
interleaving, and knows no numbers. The lower half computes with numbers, on a
network that loses and delays nothing.

- **Simulator** - the transport. `inflight` holds the messages of sender
  goroutines that sleep or block, `messageQueue` the channel's buffer,
  `handling` the message being delivered. A protocol module supplies the
  delivery. `panic` records what killed the process.
- **SumProtocol** - `demoSumComputation`. One action per turn of a loop of the
  phases; `EnterCompute`/`Compute` are the two ends of a blocking `Compute`.
  `ReceiveShare` is one action although it releases the lock in the middle:
  it is run by the only handler, and what it does after the release touches
  only the ready channel, which main reads before it takes the lock. A result
  counts how often it contains each dealer's share: the own share comes back
  through the network, and `Compute` adds it only when it has not.
- **SecureSum** - what that demo promises: parties contribute once, and the
  only output is the sum of all of them. `SumProtocol!ImplementsSecureSum`
  states the refinement.
- **ShareCollection** - `ComputeSharedPrivateKey` and `ComputeSharedNonce`
  are the same procedure on different maps: count, look the own share up,
  range, look the own share up again. It is three actions here (`CountReceived`,
  `CountOwn`, `AddShares`), and `Ranged` is what a Go range yields over a map
  that gets entries meanwhile: old or new value for a key, new keys or not.
- **DKG** - `DKGPhase`. A turn of its first loop is three actions, in the order
  of the code: `GenerateSecretShare`, then `BroadcastCommitments`, which calls
  the other nodes directly, then `BroadcastShares`, which starts the senders; the
  handler runs between them. `DKGMapRace` is the runtime's fatal "concurrent map
  access", which it may or may not notice.
- **Signing** - the whole ECDSA demo: DKG, then `SignPhase`, then `Stop` and
  exit. A node's `signers` is the sequence of `NodeSigning` objects it ever
  had, the last one being `n.signer`; main may still work on an earlier one.
  The test and the assignment of `n.signer` are two actions, in main
  (`FindNoSigner`, `MainInitSigning`) and in the handler
  (`HandlerFindsNoSigner`, `HandlerInitSigning`).
- **Timely** - adds no behaviour to `Signing`: the invariants that hold over
  several dealings and sessions when the Sleeps cover the deliveries, and
  what main relies on (`AsInMain`).
- **SigningService** - what key generation and signing promise together: one
  key in force, replaced only by that of a later dealing, and signatures made
  with the key in force and a nonce of their own. `Signing` maps to it by
  reading off which dealing the public key, and which session the nonce,
  consists of (`KeyInForce`, `Answer`; `Nil`, which the service never
  allows, when it is a mixture); `ImplementsSigningService` states the
  refinement.
- **SecretSharing** - `Share`, `evaluatePolynomial` and `Reconstruct`, for a
  modulus that is a parameter: `sharing.go` and `ec_sharing.go` are the same
  code.
- **ECDSA** - a small curve of P-256's form in place of `crypto/elliptic`
  (external), and `VerifyWithCurve`.
- **PedersenVSS**, **Schnorr** - `internal/zkproof`. `Exp` is what
  `big.Int.Exp` yields, reduced at every multiplication. A proof's context enters
  its challenge by the sum of its bytes only, and is that sum here.
- **ThresholdECDSA** - the numbers of `DKGPhase`, `SignPhase` and the
  verification in main, and what a caller could do besides: verify a dealer's
  share, prove a signature share, sign with the methods of `NodeSigning`
  (`ComputeR` to `CombineSignatureShares`).
- **DemoArithmetic** - adds the numbers of `demoSumComputation` and
  `demoSecretSharing`, that is, the rest of main.

**Abstraction of the data.** In the upper half a share is not a number: it is identified by its
dealer, its recipient and the dealing (or session) it belongs to, and a sum of
shares by which dealing of each dealer it contains. That is sound for the
questions asked here, since shares of independent random polynomials only add
up to something meaningful when the right ones are added. A point `d*G` is
represented by `d`. Interpolating points of one polynomial yields its value at
0; of different polynomials, nothing (`Interpolated`), and the nonce k is kept as the points
it was interpolated from. Whether k is invertible is a free choice
(`NonceHasNoInverse`).
Hashing, logging, error wording and the error returns of the random source are
left out.

**Mutants.** Operators commented "Mutant of ..." are variants of the operator
that follows, each with a plausible bug. They are used by no specification;
replacing the operator by its mutant makes TLC refute the property
`PROJECT.json` names, which shows that the property depends on that code.

## What the caller does

`main` adds the nodes 0..n-1, then calls each phase once. The models allow
more, and a run says how much: `Networks` (which sets of nodes a phase may
be called with), `Thresholds`, `MaxDealings` and `MaxSessions` (how often
`DKGPhase` and `SignPhase` are called, also after an error) and `KeyFirst`
(whether `SignPhase` may come before `DKGPhase`). An identifier joins once.

## Timing

`SleepCovers` assumes that a 200 ms Sleep outlasts every delivery.
`SendersWait` assumes in addition that no sender's 10 ms delay ends before
main's loop of sends does. Neither is guaranteed by the code; runs without
them say what holds anyway, runs with them what the authors rely on.
The sum demo needs neither. With them the fatal map race and the spurious
error of an own share that arrives between two look-ups are assumed away; without
them both are outcomes of the model (`sign_any`), as they are of the code.

## Runs

All runs use a queue of one message, so that senders block on a full channel;
1000 is never reached with the message counts of the code. Two nodes suffice
for every race between main and the handler at one node; three distinguish the
node itself, another dealer that is early and one that is late, and let the
threshold be smaller than the network. Deadlock is not checked: each program
ends, and the sum demo really blocks in networks that are not the full one.

| Run | Bounds | Result |
|---|---|---|
| `sum_demo` | n=3, any network of at most three of the ids 0..3, t in {1,2,4} | `ResultsComplete`, `SumComplete`, `ResultNeverStale`, `NoSendOnClosed`, `OnlyFullNetworkFinishes`, `Terminates`, `ImplementsSecureSum` and the inductive `IInv` hold with no timing assumption |
| `sign_any` | n=2, any network of the ids 0..2, t in 0..3, phases in any order, no timing | `OnlyFullNetworkKeyed`, `OnlyOwnShareMissing`, `CommittedBeforeShared`, `SignatureVerifies`, `OnlyOwnNonceMissing`, `NoNilSigner`, `UsableThreshold` and the inductive `SigningInv` (which contains the types) hold; the run reaches the nil-signer, nil-node and index panics, both map races and every error return |
| `sign_timely` | n=3, t=2, two dealings, two sessions, both timings | `TimelyDemoSucceeds`, `KeyOfOneDealing`, `NonceOfOneSession`, `ImplementsSigningService` and the inductive `DemoInv` (which contains `SignatureVerifies`) hold |
| `sign_retry` | n=2, two dealings, three sessions, `SleepCovers` only | `OnlyFirstSessionFails`, `NonceOfOneSession`, `RetrySigns`, `ImplementsSigningService` and the inductive `RetryInv` (which contains `SignatureVerifies`) hold |
| `demo_numbers` | curve of order 5 modulo 7, field of 5; n=3, t=2 (sharing one secret: n=4, k=3); every polynomial, nonce, hash 0..5 or 258 (two bytes), secret 0..6 and order of shares | see below |

What `demo_numbers` shows:

- `KeySharesRecoverSecrets`: any two or three key shares interpolate to the sum
  of the nodes' secrets.
- `VerificationSucceeds`: the signature main verifies is accepted for every
  key, nonce, order of nonce shares and message, unless the hash is 0 modulo
  the order; there `VerifyWithCurve` takes 1 and `SignPhase` 0. Keys 0 and
  r = 0 are reached and do no harm; for s = 0 the verification panics
  (`VerifyPanics`), for k = 0 `SignPhase` returns an error (`SignFails`).
- `OneShareAccepted`: `VerifyShare` accepts one value per dealer, which is not
  a share anybody gets.
- `OnlyTrueResponse`: with an honest prover's R and challenge, `VerifyProof`
  accepts the responses congruent to the honest one modulo the order, and no
  others. It has no range check, so these include ones beyond the order; the run
  tries responses up to three times the order.
- `HonestProofRejectedAtEdges`: `VerifySignatureShareProof` rejects honest proofs
  with response 0 or a point at infinity, and only those.
- `AnySharesReconstruct`, `FewerSharesTellNothing`: k shares determine the
  secret, also one not below the prime, and k-1 leave every secret equally
  possible.
- `SumMatchesBelowPrime`: the sum main prints is the expected one unless that
  reaches the prime.

The numbers are small so that all of them can be tried; that nothing depends on
their size is proved (below). The edge values (0, infinity, a coordinate above the order) occur in every
other behaviour instead of once in 2^256. The curve has five points, two of them
with abscissa 0, and its field is larger than its order, as it is for P-256.

Seven runs show where the code does something else than a comment or the
documentation says:

| Run | What happens |
|---|---|
| `dkg_own_share` | the own share arrives between the look-ups and the range and is left out of the key share (dkg.go:165) |
| `sign_joint` | nonce shares are interpolated at x coordinates that are not their nodes' (simulator.go:298) |
| `sign_delivered` | a delivered nonce share is lost when main and the handler both create `n.signer` (simulator.go:285) |
| `key_secrets` | the public key belongs to the sum of the key shares, not to the sum of the secrets (README.md:362) |
| `honest_share` | `VerifyShare` rejects an honest dealer's share (dkg.go:126); nothing calls it |
| `method_signature` | the signature shares of `ComputeSignatureShare` each contain the hash, so their sum signs n times the hash (threshold.go:156 and 197, README.md:370); nothing calls the methods |
| `threshold_shares` | `threshold` shares determine a dealer's secret, which draws `threshold` coefficients; README.md:134 says it takes one more |

`dkg_own_share` and `sign_joint` do not make a signature invalid: the public key
and `s` are both computed from the key shares as they are, and `r` and `s`
from the same k, whatever it is. `SignatureVerifies` shows that. What is lost is that
d and k are the values the dealings define.

## Fairness

Weak fairness of main inside a phase, of the handler and of the senders: the
Go scheduler runs every goroutine that can run, and each is enabled until it
acts (a sender blocked on a full channel is enabled again when the handler
takes a message, and only the single handler takes them, so weak fairness of
the senders as a whole suffices). Nobody is obliged to start a phase; in the sum demo, main is one program and is fair throughout.

## Proofs

The theorems hold for every number of parties, set of networks, thresholds,
queue capacity, and number of dealings and sessions, and those of the numbers
for every curve, prime, polynomial, nonce, hash and order of shares. Every
safety and action property of a passing run is a theorem; so is each of the two
refinements. The assumptions on the
constants are the `ASSUME`s of the modules, which TLC evaluates in every run:
identifiers are a finite set of naturals, `NumParties` and the queue capacity
are positive, thresholds are naturals, `Nil` is none of the values a variable
may have instead, the moduli are primes, and the points are a group (see "The
numbers"). What a theorem assumes beyond that, of the timing or of the
caller, is a hypothesis of its own.

| Theorem | Hypothesis | What is proved |
|---|---|---|
| `DemoImplementsSecureSum`, `StopIsSafe`, `OnlyFullNetwork`, `ResultsAreComplete`, `SumIsComplete`, `ResultsAreNeverStale`, `TypeCorrect` | none | the sum demo, under any scheduling |
| `OnlyFullNetworkGetsKey`, `KeySharesLackOnlyOwn`, `SharesAreVerifiable`, `DKGTypeCorrect` | none | key generation, with races at the maps |
| `NonceSharesLackOnlyOwn`, `KeyedNeverNilSigner`, `ThresholdIsUsable`, `SigningTypeCorrect` | none | both phases in any order, with the race on `n.signer` |
| `SignatureIsAccepted` | `OneKeyOrTimely`: `DKGPhase` is called once, or `SleepCovers` | the signature verifies |
| `KeysOfOneDealing` | `SleepCovers` | no share of an earlier dealing in a key |
| `NoncesAreFresh` | `SleepCovers` | no share of an earlier session in a signature |
| `RetriesHaveAllShares` | `SleepCovers`, `KeyFirst` | the race on `n.signer` fails the first session only |
| `DemoImplementsSigningService` | `SleepCovers`, `KeyFirst`, the identifier 0 exists | any sequence of dealings and sessions implements `SigningService` |
| `DemoNeverFails`, `DemoInvariant` | `AsInMain`: both timings, main's network, order and thresholds | no error but a zero nonce, no panic |
| `NumbersType` | none | the types of the numbers of all of main |
| `KeySharesSafe`, `SumSafe`, `SharesSafe`, `FewerSharesSafe` | none | what any shares reconstruct, or do not tell: the key, the sum, one secret |
| `SignatureSafe`, `MethodsSafe` | none | which message a signature is accepted for: the one main signs, and n times the hash with the methods of `NodeSigning` (`MethodsSignScaledHash`, the other side of `method_signature`) |
| `ResponseSafe`, `EdgesSafe`, `OneShareSafe` | none | which proofs and which shares are accepted |

The hypotheses are those of the runs that check the same properties
(`sign_any` has `MaxDealings = 1`, `sign_retry` and `sign_timely` the others),
and the code gives a reason to state each: `KeyFirst` and the rest of
`AsInMain` are what main does, the timings are what its comments rely on.

**The sum demo.** The argument is `IInv` (checked by `sum_demo`). `NoSendOnClosed` is not
inductive: why should no message be in flight when main stops the network? Because
every node has a result, who has a result has received `NumParties` shares
(`BarrierInv`), those come from different nodes and only parties receive any,
so the network is exactly the parties and every node has received from every node
(`AllOfThem`); and a share that is still in flight has not been received
(`OnceInv`, which needs `MessageInv`: before its turn a node has sent
nothing). The refinement uses the same invariant: joining is `Enter`, a turn
of the sharing loop `Contribute`, the reconstruction `Publish`.

**The collection of shares.** `DKGProofs` begins with what the two phases
share (its lemmas about `ShareCollection`): a count that is enough means that the map and the own share cover
`NumParties` dealers (`EnoughIsComplete`, although the two were read at different
moments), that this stays so while entries are added (`CompleteGrows`), and
that in a network of parties every dealer but the node itself is then in the
sum, whatever the range yields (`CompleteHasAll`). The own share is the one that may
be missed, which `dkg_own_share` shows.

**Key generation.** `KeyInv` (checked by `sign_any` as part of `SigningInv`) is
stated so that it also holds while `DKGPhase` runs among sessions: shares on
their way come from nodes, go to parties and have their commitments ahead of
them (`ShareInv`, which needs `BodyInv`: when the loop body comes to sending the
shares, the other nodes hold the commitments); what main has established at the node it is working on
remains true while the handler writes (`DeriveInv`); a node with a key share
was complete (`KeyedInv`). A key then means that every node was complete, hence
that there are `NumParties` nodes and only parties among them (`KeyMeansFull`).

**Signing, any timing.** `SigningInv` (checked by `sign_any`) adds who may be
about to assign `n.signer`: main and the handler can both have found it nil,
each assigns at most once, so that there are at most two objects
(`SignerInv`), and after either assignment the node has one unless it has no
key share (`GenerateInv`). Since `SignPhase` gets past its first loop only when
every node has an object, and a `sign_nonce` message is on its way only in
that loop or afterwards (`NonceMessageInv`), a nil `n.signer` needs a node
without a key share, which a key excludes. The objects are only ever extended
or appended to (`Grown`), so that what main counted in an object that has been
replaced meanwhile is still there. That the threshold is usable when `SignPhase`
reads the nonce shares (`ThresholdInv`) has to do with both phases: DKG accepts
any but 0, `Share` rejects the rest at the first node, and only a network without
nodes has nobody to ask.

**The signature.** It verifies if the key shares that went into `s` are those
the public key was added up from (`PublicKeyInv`, part of `VerifyInv`). That
could fail when a second `DKGPhase` replaces some key shares and then returns
an error: with `SleepCovers` no node that had a key share is short of shares
again, and with one dealing no node derives twice (`TooFewUnkeyed`). Without
either the hazard is real and the theorem does not claim it.

**Repetition.** `RetryInv` (checked by `sign_retry`) is stated in `Timely`: what
is on its way is of the phase that runs and of its round (`QuietInv`,
`LatestInv`, `DeliveredInv`), so a share of the round is received or still on
its way and at the end of the Sleep it is received; nothing is written while
main reads (`DeriveExactInv`, `CollectExactInv`); and from the second session
on every node has its object, so that nothing received is dropped again
(`SessionInv`, `NoRaceInv`). For the refinement, `KeyRoundInv` says of which
dealing the public key is, and that it is over.

**The demo.** `DemoInv` (checked by `sign_timely`) adds the full network, and
`ThresholdInv`. `PanicSteps` and `ErrorSteps` list what a process
can die of and which errors a phase can return; the lemmas `NextAlive` and
`NextUnfailed` exclude them one by one.

**The numbers.** The proofs assume what the code relies on and does not itself
establish. `CurveAssumption` and `SharingAssumption` say that the moduli are prime
and larger than the numbers of parties. `GroupAssumption` is the contract of
`crypto/elliptic`: `Add` stays on the curve and is associative, and `Base` has
order `Order`. TLC evaluates it on the small curve. The equation of the curve is not
used: that the infinite point is neutral follows from the definition of `Add`,
and commutativity is only needed among multiples of `Base`, where it follows.
The argument has three layers.

- *Sums and remainders* (`SecretSharingProofs`). A sum over a set is a fold, and
  the library's induction theorems are out of reach, so induction is done by
  hand: the numbers, or the finite sets, for which a statement holds form a
  set, which is shown to be everything (`SumRecursion`, `SumUnique`, `SumLinear`).
  `Congruent` is equality of remainders, with inverses from primality.
- *Polynomials.* `evaluatePolynomial` is Horner's rule (`Horner`). `Reconstruct` is
  linear in the shares (`ReconstructAdded`); removing a point changes the
  weights in a known way (`WeightRemove`, `InterpolationShift`), so the weights add
  up to 1 and interpolate a power to its value at 0 (`SumOfWeights`,
  `InterpolationAtZero`). That k - 1 shares tell nothing needs more: through k
  points there is a polynomial with k coefficients, since for one more point it is
  z + (x - a) p(x) with a suitable p (`InterpolatingPolynomial`), and only one,
  since the constant coefficients agree, hence what is left without them agrees
  at the known points, hence the next coefficients do (`OnePolynomial`).
- *Multiples of the generator* (`DemoArithmeticProofs`). Scalars add and multiply
  as their multiples of `Base` do and differ modulo the order only
  (`SumOfMultiples`, `MultipleOfMultiple`, `MultiplesDiffer`), so an equation between
  points is one between scalars. A signature is accepted because
  k s = h + r d modulo the order (`FittingSignature`), and `VerifyShare`'s sum of
  powers of the index is Horner's value of the same polynomial (`TermsAreHorner`).

The inductive invariant is `Numbers`. What each property says of the end of a
computation has a counterpart for its course: the key shares dealt so far
interpolate to the secrets added up so far (`KeyRecovered`, and `SumRecovered` for
the sum demo), the public key is the multiple of the sum of the key shares
(`KeyFits`), and there is some k with which `signature` satisfies the equation
(`SignatureFits`; k itself is no longer in the state). `CombinedShares` says the
same of the shares that the methods of `NodeSigning` have added up; `SharedOne`,
`Dealt` and `ProofOfShare` say that there are polynomials and random numbers from
which the shares and proofs in the state were made; `Counted` and `Pending` bound
the expected sum and say which results are still missing.

Only model-checked: the liveness properties `Terminates` and `RetrySigns`, which
need fairness and `ENABLED`, out of the prover's reach. The seven runs that find
a violation show a counterexample, and there is nothing to prove.

## Not modelled

Left out, with the reason:

- a second `Compute` on the same node, which blocks for ever (node.go:93): the
  sum demo is one program that computes once;
- a second session with the methods of `NodeSigning`, which would combine
  shares that `SignatureShares` still holds (threshold.go:200): the methods have
  no caller;
- a second `DKGPhase` that fails half-way, after which node 0 has the old
  public key and some nodes new key shares: main exits on the first error, and
  two dealings and a session without any timing assumption are too much for
  TLC (the first `DKGPhase` failing half-way, and a `SignPhase` after it, is part
  of `sign_any`);
- `SendECPoints` and the `sign_share` message, which nothing sends; getters,
  formatting, `Copy` and `Equal` of points, `GenerateKeyPair`,
  `Signature.Verify`;
- errors of the random source, SHA-256 (any hash may come up), logging, and the
  build files. The group law of `crypto/elliptic` is written out for the
  small curve and marked external.
