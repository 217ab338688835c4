------------------------ MODULE ScientificGovernance ------------------------
(***************************************************************************)
(* contracts/scientific.py: the scientific state of a collection, from the *)
(* charter that opens it to the decision that closes it, and the dataset   *)
(* freeze with its integrity seal.  The module keeps no state in the code: *)
(* `state` and `freeze` are what a caller holds who asks it before every   *)
(* step.                                                                   *)
(***************************************************************************)
EXTENDS Naturals, Functions

CONSTANTS
    Manifest,    \* the fields of a freeze other than its times, as
                 \* [hashes : a set of partitions, roles : a function]
    MaxHalfTime, \* bound: times, in halves of a second
    NoHash       \* the empty manifest_hash

ASSUME GovernanceAssumption == MaxHalfTime \in Nat

VARIABLES
    state,    \* the scientific state, or "none" before there is a charter
    visited,  \* history: the states so far
    freeze,   \* the freeze
    sealed    \* history: what its first seal was computed from

governanceVars == <<state, visited, freeze, sealed>>

ScientificState ==
    {"COLLECTION_ONLY", "HYPOTHESIS_REGISTERED", "DATASET_FROZEN", "PENDING_SAMPLE",
     "SHADOW", "GO", "NO_GO", "CLOSED_BY_HUMAN_DECISION"}

Transitions ==
    {<<"COLLECTION_ONLY", "HYPOTHESIS_REGISTERED">>,
     <<"HYPOTHESIS_REGISTERED", "DATASET_FROZEN">>,
     <<"DATASET_FROZEN", "PENDING_SAMPLE">>,
     <<"DATASET_FROZEN", "SHADOW">>,
     <<"PENDING_SAMPLE", "SHADOW">>,
     <<"SHADOW", "GO">>,
     <<"SHADOW", "NO_GO">>,
     <<"GO", "CLOSED_BY_HUMAN_DECISION">>,
     <<"NO_GO", "CLOSED_BY_HUMAN_DECISION">>}

Time == 0 .. MaxHalfTime

Freeze == [manifest : Manifest, from : Time, cutoff : Time, to : Time]

NoFreeze == [manifest |-> NoHash, hash |-> NoHash]

GovernanceInit ==
    /\ state = "none" /\ visited = {}
    /\ freeze = NoFreeze /\ sealed = NoHash

-----------------------------------------------------------------------------
\* Bug: a charter may start in any state.
AcceptsAnyState(charter) == charter.complete

\* A charter that passes __post_init__: its texts, scope, SLA, budget and policies
\* are valid, and it starts in COLLECTION_ONLY.
Accepts(charter) == charter.complete /\ charter.initial = "COLLECTION_ONLY"

Charter ==
    /\ state = "none"
    /\ \E charter \in [complete : BOOLEAN, initial : ScientificState] :
         /\ Accepts(charter)
         /\ state' = charter.initial
    /\ visited' = {state'}
    /\ UNCHANGED <<freeze, sealed>>

\* validate_scientific_transition(state, target) does not raise.
Promote(target) ==
    /\ <<state, target>> \in Transitions
    /\ state' = target
    /\ visited' = visited \cup {target}
    /\ UNCHANGED <<freeze, sealed>>

\* __post_init__: the cutoff strictly inside the period, and a role for every
\* partition, of which some are out of sample and some are not.
WellFormed(f) ==
    /\ f.from < f.cutoff /\ f.cutoff < f.to
    /\ DOMAIN f.manifest.roles = f.manifest.hashes
    /\ Range(f.manifest.roles) = {"IS", "OOS"}

\* _unsigned_dict: everything but the hash, with times in whole seconds.  Hashes
\* of different texts are different.
Unsigned(f) == [manifest |-> f.manifest, from |-> f.from \div 2,
                cutoff |-> f.cutoff \div 2, to |-> f.to \div 2]

Hashed(f, h) == [manifest |-> f.manifest, from |-> f.from,
                 cutoff |-> f.cutoff, to |-> f.to, hash |-> h]

\* verify()
Verifies(f) == f.hash # NoHash /\ f.hash = Unsigned(f)

\* DatasetFreeze(...), without a hash.
Draft ==
    /\ \E f \in Freeze : WellFormed(f) /\ freeze' = Hashed(f, NoHash)
    /\ sealed' = NoHash
    /\ UNCHANGED <<state, visited>>

\* Bug: a hash that does not verify is computed anew.
SealableAnyway(f) == TRUE

Sealable(f) == f.hash = NoHash \/ Verifies(f)

\* seal(), which constructs the freeze again with the hash.
Seal ==
    /\ freeze # NoFreeze
    /\ Sealable(freeze) /\ WellFormed(freeze)
    /\ freeze' = Hashed(freeze, Unsigned(freeze))
    /\ sealed' = IF sealed = NoHash THEN Unsigned(freeze) ELSE sealed
    /\ UNCHANGED <<state, visited>>

\* A sealed freeze is changed in place or in the file it was written to; the hash
\* stays.
Tamper ==
    /\ freeze # NoFreeze /\ freeze.hash # NoHash
    /\ \E f \in Freeze : freeze' = Hashed(f, freeze.hash)
    /\ UNCHANGED <<state, visited, sealed>>

GovernanceNext ==
    \/ Charter
    \/ \E target \in ScientificState : Promote(target)
    \/ Draft \/ Seal \/ Tamper

GovernanceSpec == GovernanceInit /\ [][GovernanceNext]_governanceVars

-----------------------------------------------------------------------------
(* Properties *)

Verdicts == {"GO", "NO_GO"}

\* "Hypothesis registration and a dataset freeze must precede shadow evaluation":
\* no path from a charter reaches the shadow or a verdict without them; and a
\* collection has at most one verdict, and none after it is closed.
NoVerdictBeforeFreeze ==
    /\ visited \cap ({"SHADOW"} \cup Verdicts) # {} =>
         {"HYPOTHESIS_REGISTERED", "DATASET_FROZEN"} \subseteq visited
    /\ ~(Verdicts \subseteq visited)
    /\ state = "CLOSED_BY_HUMAN_DECISION" => visited \cap Verdicts # {}

\* A freeze that verifies is, up to the fraction of a second that the seal does
\* not cover, the one that was sealed first: what is changed afterwards can be
\* neither verified nor sealed again.
SealBindsContent ==
    freeze # NoFreeze /\ Verifies(freeze) => Unsigned(freeze) = sealed
=============================================================================
