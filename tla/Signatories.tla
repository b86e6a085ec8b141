----------------------------- MODULE Signatories ------------------------------
(***************************************************************************)
(* Validators, the keys they sign Bitcoin transactions with, and the        *)
(* signatory set made from them for each checkpoint.                        *)
(*                                                                         *)
(* An extended public key is a public key with its chain code (`key`), the  *)
(* place in a wallet it was taken from (`path`: depth, parent, child        *)
(* number), and a network.  All three are in its encoding, which XPUBS is   *)
(* keyed by; only the first matters when a signing key is derived.          *)
(***************************************************************************)
EXTENDS Integers, FiniteSets, FiniteSetsExt, Sequences, SequencesExt, TLC

CONSTANTS
    ConsKeys,       \* validators' consensus keys
    Addrs,          \* operators' addresses
    Powers,         \* voting powers the owner declares
    Keys,           \* public keys with their chain codes
    Paths, Root,    \* places in a wallet; Root is depth 0
    Networks,       \* Bitcoin networks
    Network,        \* ... the one the contract is built for
    MaxSignatories, \* MAX_SIGNATORIES
    MaxOffline,     \* BitcoinConfig.max_offline_checkpoints
    Ratio,          \* CheckpointConfig.sigset_threshold
    Accuracy,       \* change_rates: a rate is computed to 1/Accuracy, before it
                    \* is truncated to a whole number
    MaxEntries,     \* bound: validators in one AddValidators message
    MaxIndex        \* bound: checkpoints pushed

ASSUME KeysAssumption ==
    /\ Root \in Paths
    /\ Network \in Networks
    /\ MaxOffline \in Nat \ {0}
    /\ IsFiniteSet(ConsKeys)
    /\ Powers \subseteq Nat
    /\ Ratio[1] \in Nat /\ Ratio[2] \in Nat \ {0}
    /\ Accuracy \in Nat /\ Accuracy >= 2
    /\ MaxEntries \in Nat

VARIABLES
    validators,     \* VALIDATORS: consensus key -> power and address
    signers,        \* SIGNERS: address -> consensus key
    sigKeys,        \* SIG_KEYS: consensus key -> extended public key
    xpubs,          \* XPUBS: extended public keys that are taken
    sigsets         \* the signatory set of each checkpoint, by its index

vars == <<validators, signers, sigKeys, xpubs, sigsets>>

Xpubs   == [key : Keys, path : Paths, network : Networks]
Entries == [addr : Addrs, power : Powers, cons : ConsKeys]

(* A copy of function f with f[x] = v, and one without the keys in S.       *)
Saved(f, x, v)  == [y \in DOMAIN f \cup {x} |-> IF y = x THEN v ELSE f[y]]
Removed(f, S)   == [y \in DOMAIN f \ S |-> f[y]]

-----------------------------------------------------------------------------
(* SignatoryKeys::insert compares and stores keys without their path.       *)
Normalized(xpub) == [xpub EXCEPT !.path = Root]

(* Xpub::derive_pubkey                                                      *)
DerivePubkey(xpub, i) == <<xpub.key, i>>

-----------------------------------------------------------------------------
(* SignatorySet::from_validator_ctx.  The signatories are the validators    *)
(* with a key, or the strongest of them; which of equally strong ones is    *)
(* decided by their derived keys' bytes, here by the choice of S.           *)
PowerOf(S) == SumFunction([c \in S |-> validators[c].power])

WithKey == DOMAIN validators \cap DOMAIN sigKeys

IsTruncated(S) ==
    /\ S \subseteq WithKey
    /\ Cardinality(S) = Min({Cardinality(WithKey), MaxSignatories})
    /\ \A c \in S, d \in WithKey \ S : validators[c].power >= validators[d].power

(* present_vp: insert adds the power of every validator with a key, before  *)
(* sort_and_truncate takes off that of those it drains.                     *)
MutantPresent(S) == PowerOf(WithKey)

Present(S) == PowerOf(WithKey) - PowerOf(WithKey \ S)

FromValidatorCtx(S, i) ==
    [present     |-> Present(S),
     possible    |-> PowerOf(DOMAIN validators),
     signatories |-> [c \in S |-> [pubkey |-> DerivePubkey(sigKeys[c], i),
                                   power  |-> validators[c].power]]]

SignatoryPower(set, T) == SumFunction([c \in T |-> set.signatories[c].power])

(* The threshold in the redeem script, of present_vp and the configured     *)
(* ratio; and the one ThresholdSig::from_sigset counts to, of the powers of *)
(* the signatories and the constant SIGSET_THRESHOLD.                       *)
SignatureThreshold(set) == (set.present * Ratio[1]) \div Ratio[2]

CountedThreshold(set) ==
    (SignatoryPower(set, DOMAIN set.signatories) * 2) \div 3

MutantQuorumThreshold(set) == set.possible \div 4

QuorumThreshold(set) == set.possible \div 2

HasQuorum(set) == set.present >= QuorumThreshold(set)

(* should_push and maybe_push: whether the set is good for a checkpoint.    *)
Pushable(set) == set.possible > 0 /\ HasQuorum(set)

(* change_rates: how much of the voting power of set i its signatories did  *)
(* not have in set j.  Shares are looked up by the extended public keys of  *)
(* today.  Shares and gains are here fractions of the common denominator of *)
(* the two sets.                                                            *)
VpOf(i, xpub) ==
    LET set == sigsets[i]
    IN  SignatoryPower(set, {c \in DOMAIN set.signatories :
                                set.signatories[c].pubkey = DerivePubkey(xpub, i)})

MutantGain(xpub, j, i) == Max({VpOf(i, xpub) - VpOf(j, xpub), 0})

Gain(xpub, j, i) ==
    Max({VpOf(i, xpub) * sigsets[j].present - VpOf(j, xpub) * sigsets[i].present, 0})

TotalGain(j, i) == MapThenSumSet(LAMBDA c : Gain(sigKeys[c], j, i), DOMAIN sigKeys)

(* In 1/10000, truncated to a whole number.  The code divides, subtracts    *)
(* and adds in floating point, in the order of a HashMap: what it truncates *)
(* is off by up to 1/Accuracy either way, so that a rate that is a whole    *)
(* number may come out one lower.                                           *)
SigsetChanges(j, i) ==
    LET one  == sigsets[i].present * sigsets[j].present
        rate == TotalGain(j, i) * 10000
    IN  Max({(rate * Accuracy - one) \div (one * Accuracy), 0})
          .. ((rate * Accuracy + one) \div (one * Accuracy))

-----------------------------------------------------------------------------
(* add_validators, called by the owner: one entry after the other, each     *)
(* overwriting what was there, so that the last one for a key wins.         *)
LastOf(entries, ks) == entries[Max(ks)]

SignersAfter(entries) ==
    LET for(a) == {k \in DOMAIN entries : entries[k].addr = a}
    IN  [a \in DOMAIN signers \cup {entries[k].addr : k \in DOMAIN entries} |->
            IF for(a) = {} THEN signers[a] ELSE LastOf(entries, for(a)).cons]

ValidatorsAfter(entries) ==
    LET for(c)   == {k \in DOMAIN entries : entries[k].cons = c}
        saved(e) == [power |-> e.power, addr |-> e.addr]
    IN  [c \in DOMAIN validators \cup {entries[k].cons : k \in DOMAIN entries} |->
            IF for(c) = {} THEN validators[c] ELSE saved(LastOf(entries, for(c)))]

AddValidators(entries) ==
    /\ signers' = SignersAfter(entries)
    /\ validators' = ValidatorsAfter(entries)
    /\ UNCHANGED <<sigKeys, xpubs, sigsets>>

(* SignatoryKeys::insert.  The key a validator had before stays taken.      *)
MutantInsert(cons, xpub) ==
    /\ xpub \notin xpubs
    /\ sigKeys' = Saved(sigKeys, cons, xpub)
    /\ xpubs' = xpubs \cup {xpub}

Insert(cons, xpub) ==
    /\ Normalized(xpub) \notin xpubs
    /\ sigKeys' = Saved(sigKeys, cons, xpub)
    /\ xpubs' = xpubs \cup {Normalized(xpub)}

(* set_signatory_key                                                        *)
MutantNetworkMatches(xpub) == TRUE

NetworkMatches(xpub) == xpub.network = Network

SetSignatoryKey(addr, xpub) ==
    /\ addr \in DOMAIN signers
    /\ NetworkMatches(xpub)
    /\ Insert(signers[addr], xpub)
    /\ UNCHANGED <<validators, signers, sigsets>>

(* The index of the next checkpoint, from BUILDING_INDEX.                   *)
NextIndex == Cardinality(DOMAIN sigsets)

(* Checkpoint i may have been completed without the signatures of these     *)
(* validators, who were asked for them with the keys they have now.  Its    *)
(* inputs belong to its own signatory set or to earlier ones; who signed is *)
(* for the signers to choose (module Bridge).                               *)
MayHaveMissed(offline, i) ==
    \A c \in offline : \E j \in DOMAIN sigsets :
        LET set == sigsets[j] IN
        /\ j <= i
        /\ c \in DOMAIN set.signatories
        /\ set.signatories[c].pubkey = DerivePubkey(sigKeys[c], j)
        /\ SignatoryPower(set, DOMAIN set.signatories \ offline) > CountedThreshold(set)

(* offline_signers, at the push of checkpoint n: the validators with a key, *)
(* not weaker than the weakest signatory, who missed each of the last       *)
(* MaxOffline completed checkpoints.  Checkpoint n - 1 is being signed.     *)
MayBeOffline(offline, S, n) ==
    /\ \A c \in offline : c \in WithKey
          /\ \E d \in S : validators[c].power >= validators[d].power
    /\ offline # {} => n - 1 >= MaxOffline
    /\ \A i \in (n - 1 - MaxOffline)..(n - 2) : MayHaveMissed(offline, i)

(* punish_validator, for each offline signer.  The key is removed from      *)
(* XPUBS under its own encoding, with its path.                             *)
Punish(offline) ==
    /\ validators' = Removed(validators, offline)
    /\ signers' = Removed(signers, {validators[c].addr : c \in offline})
    /\ sigKeys' = Removed(sigKeys, offline)
    /\ xpubs' = xpubs \ {sigKeys[c] : c \in offline}

(* The end block, when it pushes a checkpoint: the signatory set is made,   *)
(* then offline signers are punished.  With an empty set offline_signers    *)
(* panics and the block's changes are rolled back.                          *)
EndBlockPush(S, offline) ==
    /\ NextIndex < MaxIndex
    /\ IsTruncated(S)
    /\ Pushable(FromValidatorCtx(S, NextIndex))
    /\ S # {}
    /\ MayBeOffline(offline, S, NextIndex)
    /\ sigsets' = Saved(sigsets, NextIndex, FromValidatorCtx(S, NextIndex))
    /\ Punish(offline)

Init ==
    /\ validators = <<>>
    /\ signers = <<>>
    /\ sigKeys = <<>>
    /\ xpubs = {}
    /\ sigsets = <<>>

Next ==
    \/ \E entries \in BoundedSeq(Entries, MaxEntries) : AddValidators(entries)
    \/ \E addr \in Addrs, xpub \in Xpubs : SetSignatoryKey(addr, xpub)
    \/ \E S, offline \in SUBSET ConsKeys : EndBlockPush(S, offline)

Spec == Init /\ [][Next]_vars

-----------------------------------------------------------------------------
(* SignatoryKeys: a key in use is taken, under the form insert compares,    *)
(* through any sequence of key changes and punishments; although a punished *)
(* validator's key is removed under another form.                           *)
KeysReserved ==
    \A c \in DOMAIN sigKeys : Normalized(sigKeys[c]) \in xpubs

(* No two validators ever have keys that derive the same signing key, for   *)
(* this signatory set or any other.  One signature would count twice, or    *)
(* ThresholdSig's lookup by key would find the wrong share.                 *)
DistinctPubkeys ==
    /\ \A c, d \in DOMAIN sigKeys :
         c # d => \A i \in 0..MaxIndex :
                    DerivePubkey(sigKeys[c], i) # DerivePubkey(sigKeys[d], i)
    /\ \A i \in DOMAIN sigsets : \A c, d \in DOMAIN sigsets[i].signatories :
         c # d => sigsets[i].signatories[c].pubkey # sigsets[i].signatories[d].pubkey

(* Whom ThresholdSig counts as having signed, and whom the redeem script    *)
(* lets spend.                                                              *)
Signs(set, T)  == SignatoryPower(set, T) > CountedThreshold(set)
Spends(set, T) == SignatoryPower(set, T) > SignatureThreshold(set)

(* A transaction that the contract takes to be signed and hands out is one  *)
(* that Bitcoin accepts, and no funds are locked: all signatories together  *)
(* are enough for both.  Also for a set that was truncated, although one    *)
(* threshold is taken from what insert and sort_and_truncate kept in        *)
(* present_vp, the other from the signatories left.                         *)
SignedCanSpend ==
    \A i \in DOMAIN sigsets :
        LET set == sigsets[i]
        IN  /\ Signs(set, DOMAIN set.signatories)
            /\ \A T \in SUBSET DOMAIN set.signatories : Signs(set, T) => Spends(set, T)

(* Whoever can move the funds of a set, by the contract's count or by the   *)
(* script's, has a third of the voting power of all validators, with a key  *)
(* or not, at the time the set was made: what the quorum is for             *)
(* (has_quorum).                                                            *)
SignedNeedsThird ==
    \A i \in DOMAIN sigsets : \A T \in SUBSET DOMAIN sigsets[i].signatories :
        Signs(sigsets[i], T) \/ Spends(sigsets[i], T)
        => 3 * SignatoryPower(sigsets[i], T) >= sigsets[i].possible

(* The keys of set i that are still in use, and the signatories of set k    *)
(* that have none of them.                                                  *)
KeysOf(i) == {sigsets[i].signatories[c].pubkey[1] : c \in DOMAIN sigsets[i].signatories}
InUse(i)  == KeysOf(i) \cap {sigKeys[c].key : c \in DOMAIN sigKeys}

Without(k, keys) ==
    {c \in DOMAIN sigsets[k].signatories : sigsets[k].signatories[c].pubkey[1] \notin keys}

(* The rate of change of the signatory set counts the power that left it as *)
(* well, although it sums up only what signatories gained, by the keys of   *)
(* today and in floating point (change_rates: "or if the signatory set is   *)
(* changing too quickly"): it falls short of the share of those who left by *)
(* no more than the share that signatories had whose key was changed or     *)
(* removed since, and by one unit for rounding.                             *)
LeaversCount ==
    \A i \in DOMAIN sigsets : \A j \in 0 .. (i - 1) :
        LET new   == sigsets[i]
            old   == sigsets[j]
            left  == SignatoryPower(old, Without(j, InUse(i)))
            stale == SignatoryPower(new, Without(i, InUse(i)))
        IN  \A rate \in SigsetChanges(j, i) :
              /\ rate <= 10000
              /\ rate + 1 >= ((left * new.present - stale * old.present) * 10000)
                                \div (new.present * old.present)
=============================================================================
