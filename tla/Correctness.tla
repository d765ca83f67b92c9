----------------------------- MODULE Correctness -----------------------------
(***************************************************************************)
(* Training correctness (correctness.py).  The validator draws a challenge *)
(* (generate_correctness_challenge), the trusted reference and the miner   *)
(* commit to their checkpoints (checkpoint_merkle_root) and answer the     *)
(* probes, and TrainingCorrectnessVerifier.verify compares the two.        *)
(*                                                                         *)
(* The loops of the code are steps here: a draw, a level of the tree, a    *)
(* pair of values.  HMAC draws are arbitrary numbers below Modulus, SHA-256 *)
(* is a constructor of terms, and a Decimal is an integer number of units  *)
(* whose arithmetic is rounded to the digits the context keeps.            *)
(***************************************************************************)
EXTENDS Integers, FiniteSets, FiniteSetsExt, SequencesExt, Gates, Sorting

CONSTANTS
    Kinds,              \* ProofKind, compared as numbers
    Digests,            \* digests of checkpoint components
    Inputs,             \* what the functions are called with, see IsInput
    Modulus,            \* 1 << 256
    MaxValuesPerProbe,  \* _MAX_VALUES_PER_PROBE
    MaxProbes,          \* _MAX_PROBES
    MaxLeaves,          \* _MAX_CHECKPOINT_LEAVES
    LeastFull,          \* the least number with all the digits the decimal context keeps
    Weights,            \* the powers of ten, up to what the longest number needs
    Tolerances          \* policy.tolerances: absolute in units, relative in tenths

VARIABLES
    stage,      \* "generating", "sampling", "committing", "verifying", "comparing", "done"
    input,      \* the arguments
    todo,       \* the slices to sample, then the requests to compare, in order
    selected,   \* _sample_indices: selected
    requests,   \* the requests made so far
    level,      \* checkpoint_merkle_root: level
    roots,      \* the root of the reference, then of the miner
    compared,   \* history: kind and values of every pair that was accepted
    checked,    \* verify: checked_values
    verdict     \* the error code or "accepted"

vars == <<stage, input, todo, selected, requests, level, roots, compared, checked, verdict>>

\* ProbeTarget and CheckpointLeaf hold what their constructors admit.  pairs:
\* the values the reference and the miner may have for one index.
IsInput(i) ==
    /\ i.checkpoint \in Nat \ {0}
    /\ i.candidates \in Seq(Int)
    /\ i.targets \in Seq([kind : Kinds, tensor : Nat, size : 1..Modulus])
    /\ {i.steps, i.values} \subseteq Int
    /\ {i.expected, i.observed} \subseteq Seq([name : Nat, digest : Digests])
    /\ i.pairs \subseteq Int \X Int

\* CorrectnessPolicy.__post_init__ and NumericTolerance.__post_init__
PolicyIsValid == Tolerances \in [Kinds -> [absolute : Nat, relative : Nat]]

ASSUME InputsAssumption == \A i \in Inputs : IsInput(i)
ASSUME PolicyAssumption == PolicyIsValid
ASSUME LimitsAssumption ==
    /\ Kinds \subseteq Nat
    /\ {Modulus, MaxValuesPerProbe, MaxProbes, MaxLeaves} \subseteq Nat
    /\ LeastFull \in Nat \ {0}
    /\ Weights \subseteq Nat \ {0} /\ IsFiniteSet(Weights) /\ 1 \in Weights

Fail(code) == stage' = "done" /\ verdict' = code

-----------------------------------------------------------------------------
(* generate_correctness_challenge                                           *)

\* Variant of StepsAreValid: a candidate step may lie after the checkpoint.
StepsAreValidAnyStep(i) == i.candidates # <<>> /\ IsInjective(i.candidates)

StepsAreValid(i) ==
    /\ i.candidates # <<>>
    /\ ToSet(i.candidates) \subseteq 1..i.checkpoint
    /\ IsInjective(i.candidates)

TargetKey(t) == <<t.kind, t.tensor>>

TargetsAreValid(i) ==
    /\ IsInjective([n \in DOMAIN i.targets |-> TargetKey(i.targets[n])])
    /\ {t.kind : t \in ToSet(i.targets)} = Kinds

CountsAreValid(i) ==
    /\ i.steps \in 1..Len(i.candidates)
    /\ i.values \in 1..MaxValuesPerProbe
    /\ i.steps * Len(i.targets) <= MaxProbes

IsGeneratable(i) == StepsAreValid(i) /\ TargetsAreValid(i) /\ CountsAreValid(i)

\* The steps in their order, and at each step the targets in theirs.
SliceBefore(a, b) ==
    \/ a.step < b.step
    \/ a.step = b.step /\ a.target.kind < b.target.kind
    \/ a.step = b.step /\ a.target.kind = b.target.kind /\ a.target.tensor < b.target.tensor

InOrder(slices) ==
    Sorted(SetToSeq(slices), {pair \in slices \X slices : SliceBefore(pair[1], pair[2])})

\* The steps ranked first are any steps, as the seed has it.
Generate ==
    /\ stage = "generating" /\ IsGeneratable(input)
    /\ \E steps \in kSubset(input.steps, ToSet(input.candidates)) :
           todo' = InOrder([step : steps, target : ToSet(input.targets)])
    /\ stage' = "sampling"
    /\ UNCHANGED <<input, selected, requests, level, roots, compared, checked, verdict>>

GenerateRefused ==
    /\ stage = "generating" /\ ~IsGeneratable(input)
    /\ Fail("invalid")
    /\ UNCHANGED <<input, todo, selected, requests, level, roots, compared, checked>>

-----------------------------------------------------------------------------
(* _sample_indices                                                          *)

Size == Head(todo).target.size

\* Variant of SampleCount: a small tensor is asked for more than it holds.
SampleCountUnbounded == input.values

SampleCount == Min({input.values, Size})

\* Variant of UnbiasedLimit: every draw counts.
UnbiasedLimitWhole == Modulus

UnbiasedLimit == Modulus - (Modulus % Size)

IsSampling == stage = "sampling" /\ todo # <<>> /\ Cardinality(selected) < SampleCount

Draw(candidate) ==
    /\ IsSampling
    /\ selected' = IF candidate < UnbiasedLimit THEN selected \cup {candidate % Size} ELSE selected
    /\ UNCHANGED <<stage, input, todo, requests, level, roots, compared, checked, verdict>>

\* ProbeRequest; its key is the whole of it.
MakeRequest ==
    /\ stage = "sampling" /\ todo # <<>> /\ Cardinality(selected) >= SampleCount
    /\ requests' = Append(requests, [kind |-> Head(todo).target.kind, step |-> Head(todo).step,
                                     tensor |-> Head(todo).target.tensor, indices |-> selected])
    /\ selected' = {}
    /\ todo' = Tail(todo)
    /\ UNCHANGED <<stage, input, level, roots, compared, checked, verdict>>

\* CorrectnessChallenge.__post_init__ and ProbeRequest.__post_init__
IsChallenge(rs) ==
    /\ Len(rs) \in 1..MaxProbes
    /\ IsInjective(rs)
    /\ \A r \in ToSet(rs) : r.step <= input.checkpoint
                            /\ Cardinality(r.indices) \in 1..MaxValuesPerProbe

MakeChallenge ==
    /\ stage = "sampling" /\ todo = <<>>
    /\ IF IsChallenge(requests) THEN stage' = "committing" /\ UNCHANGED verdict
       ELSE Fail("invalid")
    /\ UNCHANGED <<input, todo, selected, requests, level, roots, compared, checked>>

-----------------------------------------------------------------------------
(* checkpoint_merkle_root, for the reference and then for the miner         *)

Leaves == IF roots = <<>> THEN input.expected ELSE input.observed

\* Variant of IsCheckpoint: a name may occur twice.
IsCheckpointRepeated(leaves) == Len(leaves) \in 1..MaxLeaves

IsCheckpoint(leaves) ==
    /\ Len(leaves) \in 1..MaxLeaves
    /\ IsInjective([n \in DOMAIN leaves |-> leaves[n].name])

\* Hashes are terms: equal exactly when what is hashed is.
Node(left, right) == <<"node", left, right>>
LeafHash(leaf) == <<"leaf", leaf.name, leaf.digest>>

Ordered(leaves) ==
    Sorted(leaves, {pair \in ToSet(leaves) \X ToSet(leaves) : pair[1].name < pair[2].name})

HashLeaves ==
    /\ stage = "committing" /\ level = <<>>
    /\ IsCheckpoint(Leaves)
    /\ level' = LET ordered == Ordered(Leaves)
                IN  [n \in 1..Len(ordered) |-> LeafHash(ordered[n])]
    /\ UNCHANGED <<stage, input, todo, selected, requests, roots, compared, checked, verdict>>

LeavesRefused ==
    /\ stage = "committing" /\ level = <<>>
    /\ ~IsCheckpoint(Leaves)
    /\ Fail("invalid")
    /\ UNCHANGED <<input, todo, selected, requests, level, roots, compared, checked>>

\* An odd level is filled up with its last hash.
Filled(n) == level[IF n <= Len(level) THEN n ELSE Len(level)]

HashLevel ==
    /\ stage = "committing" /\ Len(level) > 1
    /\ level' = [n \in 1..((Len(level) + 1) \div 2) |-> Node(Filled(2 * n - 1), Filled(2 * n))]
    /\ UNCHANGED <<stage, input, todo, selected, requests, roots, compared, checked, verdict>>

MakeRoot ==
    /\ stage = "committing" /\ Len(level) = 1
    /\ roots' = Append(roots, level[1])
    /\ level' = <<>>
    /\ stage' = IF roots = <<>> THEN "committing" ELSE "verifying"
    /\ UNCHANGED <<input, todo, selected, requests, compared, checked, verdict>>

-----------------------------------------------------------------------------
(* TrainingCorrectnessVerifier.verify                                       *)

\* What a bundle says beside its root and values: whether its digests are the
\* challenge's, its step, and the requests it has probes for.
Bundles ==
    LET required == ToSet(requests)
        extra == [Head(requests) EXCEPT !.step = @ + 1]
    IN  [identity : BOOLEAN, step : {input.checkpoint, input.checkpoint + 1},
         probes : {required, required \cup {extra}, required \ {Head(requests)}}]

VerifyGates(e, o) ==
    LET required == ToSet(requests) IN
    <<Gate("identity_mismatch", e.identity), Gate("stale_checkpoint", e.step = input.checkpoint),
      Gate("identity_mismatch", o.identity), Gate("stale_checkpoint", o.step = input.checkpoint),
      Gate("checkpoint_mismatch", roots[1] = roots[2]),
      Gate("missing_probe", required \subseteq e.probes /\ required \subseteq o.probes),
      Gate("unexpected_probe", e.probes = required /\ o.probes = required)>>

Verify(e, o) ==
    /\ stage = "verifying"
    /\ IF AllPass(VerifyGates(e, o))
       THEN stage' = "comparing" /\ todo' = requests /\ UNCHANGED verdict
       ELSE Fail(FirstFailure(VerifyGates(e, o))) /\ UNCHANGED todo
    /\ UNCHANGED <<input, selected, requests, level, roots, compared, checked>>

-----------------------------------------------------------------------------
(* NumericTolerance.accepts                                                 *)

\* The weight of the last digit that is kept of x.
Weight(x) == Max({w \in Weights : w = 1 \/ w * LeastFull <= x})

\* Rounding half to even to the digits that are kept, for x >= 0.
Rounded(x) ==
    LET w == Weight(x)
        down == (x \div w) * w
        rest == 2 * (x % w)
    IN  IF rest < w \/ (rest = w /\ (x \div w) % 2 = 0) THEN down ELSE down + w

Magnitude(x) == IF x < 0 THEN -x ELSE x

\* Variant of Accepts: the difference keeps its sign.
AcceptsSigned(kind, e, o) ==
    10 * (o - e) <= Max({10 * Tolerances[kind].absolute,
                         Rounded(Tolerances[kind].relative * Rounded(Magnitude(e)))})

\* In tenths of a unit, for the relative tolerance.
Accepts(kind, e, o) ==
    10 * Rounded(Magnitude(o - e))
        <= Max({10 * Tolerances[kind].absolute,
                Rounded(Tolerances[kind].relative * Rounded(Magnitude(e)))})

-----------------------------------------------------------------------------
Pending == Head(todo)

Compare(e, o) ==
    /\ stage = "comparing" /\ todo # <<>>
    /\ Accepts(Pending.kind, e, o)
    /\ checked' = checked + 1
    /\ compared' = compared \cup {<<Pending.kind, e, o>>}
    /\ todo' = IF Cardinality(Pending.indices) > 1
               THEN [todo EXCEPT ![1].indices = @ \ {Min(@)}] ELSE Tail(todo)
    /\ UNCHANGED <<stage, input, selected, requests, level, roots, verdict>>

CompareFails(e, o) ==
    /\ stage = "comparing" /\ todo # <<>>
    /\ ~Accepts(Pending.kind, e, o)
    /\ Fail("numeric_mismatch")
    /\ UNCHANGED <<input, todo, selected, requests, level, roots, compared, checked>>

Accept ==
    /\ stage = "comparing" /\ todo = <<>>
    /\ stage' = "done" /\ verdict' = "accepted"
    /\ UNCHANGED <<input, todo, selected, requests, level, roots, compared, checked>>

-----------------------------------------------------------------------------
Init ==
    /\ stage = "generating"
    /\ input \in Inputs
    /\ todo = <<>> /\ requests = <<>> /\ level = <<>> /\ roots = <<>>
    /\ selected = {} /\ compared = {}
    /\ checked = 0
    /\ verdict = "none"

Draws == \E candidate \in 0..(Modulus - 1) : Draw(candidate)

Next ==
    \/ Generate \/ GenerateRefused
    \/ Draws \/ MakeRequest \/ MakeChallenge
    \/ HashLeaves \/ LeavesRefused \/ HashLevel \/ MakeRoot
    \/ stage = "verifying" /\ \E e, o \in Bundles : Verify(e, o)
    \/ stage = "comparing" /\ \E p \in input.pairs : Compare(p[1], p[2]) \/ CompareFails(p[1], p[2])
    \/ Accept

Spec == Init /\ [][Next]_vars

\* A digest takes every value again and again: no sequence of draws avoids one
\* of them for ever, but with probability 0.
FairSpec ==
    /\ Spec
    /\ WF_vars(MakeRequest) /\ WF_vars(MakeChallenge)
    /\ \A candidate \in 0..(Modulus - 1) : WF_vars(Draw(candidate))

-----------------------------------------------------------------------------
\* Two checkpoints have one root exactly when they hold the same components:
\* neither their order nor the filling up of odd levels makes roots differ or
\* coincide (checkpoint_merkle_root).
RootIdentifiesCheckpoint ==
    Len(roots) = 2 =>
        (roots[1] = roots[2] <=> ToSet(input.expected) = ToSet(input.observed))

\* Whatever was drawn before, each index of the tensor is the outcome of equally
\* many draws, and no more indices are taken than asked for (_sample_indices).
SampleIsFair ==
    stage = "sampling" /\ todo # <<>> =>
        /\ Cardinality(selected) <= input.values
        /\ \A i \in 0..(Size - 1) :
               Cardinality({c \in 0..(UnbiasedLimit - 1) : c % Size = i}) = Modulus \div Size

\* A challenge that was generated is one its own constructor admits, and probes
\* each target at as many steps and indices as were asked for and exist.
ChallengeIsComplete ==
    stage # "sampling" /\ requests # <<>> =>
        /\ IsChallenge(requests)
        /\ \A t \in ToSet(input.targets) :
               LET own == {r \in ToSet(requests) : <<r.kind, r.tensor>> = TargetKey(t)}
               IN  /\ Cardinality({r.step : r \in own}) = input.steps
                   /\ \A r \in own : /\ r.indices \subseteq 0..(t.size - 1)
                                     /\ Cardinality(r.indices) = Min({input.values, t.size})

\* e and o differ by no more than the tolerance, but for the rounding of the
\* difference (down) and of the two factors' product (up), each by less than
\* one part in Parts.
Parts == 2 * LeastFull

IsWithin(kind, e, o) ==
    10 * Parts * (Parts - 1) * Magnitude(o - e)
        <= Max({10 * Parts * Parts * Tolerances[kind].absolute,
                (Parts + 1) * (Parts + 1) * Tolerances[kind].relative * Magnitude(e)})

\* The values that requests ask for, each with its probe.
Requested(rs) == UNION {{<<r.kind, r.step, r.tensor>>} \X r.indices : r \in ToSet(rs)}

\* What verify accepts is the reference's checkpoint, with every requested value
\* compared and within the exact tolerance of its kind up to the decimal
\* context's rounding.
AcceptedIsSound ==
    verdict = "accepted" =>
        /\ ToSet(input.observed) = ToSet(input.expected)
        /\ checked = Cardinality(Requested(requests))
        /\ \A c \in compared : IsWithin(c[1], c[2], c[3])

\* Sampling ends for every tensor, however small (generate_correctness_challenge
\* asks for no more indices than there are).
SamplingEnds == stage = "sampling" ~> stage # "sampling"
=============================================================================
