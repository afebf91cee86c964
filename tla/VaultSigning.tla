---------------------------- MODULE VaultSigning ----------------------------
(***************************************************************************)
(* Threshold signing of a spend plan with the FROST commands of the node   *)
(* (main.rs, vault_frost.rs): a signer draws a nonce and publishes its     *)
(* commitment, signs once over a set of commitments, and anyone aggregates *)
(* the shares.  Each command reads the signer's private state file, stages *)
(* its output, writes the state and publishes the output; a crash may end  *)
(* it between any two of these.                                            *)
(*                                                                         *)
(* The inputs of a plan are handled alike, all or none, so a plan has one  *)
(* nonce per signer.  A commitment is [signer, plan, serial]; a share also *)
(* holds the set of commitments it was computed over.                      *)
(***************************************************************************)
EXTENDS Integers, FiniteSets, Sequences

CONSTANTS
    Heartbeats,  \* signer heartbeats: [signer, age, eligible]
    MaxAge,      \* age in seconds up to which a heartbeat counts
    Plans,       \* spend plans that may be signed
    None,
    MaxNonces,   \* bound: nonces a signer draws
    MaxCrashes   \* bound: commands that are cut short

VARIABLES
    allowed,       \* allowed[s]: plans the policy of signer s accepts now
    pending,       \* pending[s]: the pending_nonces of the state file
    drawn,         \* drawn[s]: number of nonces drawn
    job,           \* job[s]: the command that runs, None when none does
    commitments,   \* published commitment files
    shares,        \* published signature share files
    signed,        \* transactions aggregated: [plan, shares]
    approvals,     \* plans a signer's policy accepted, with the signer
    crashes

signingVars == <<allowed, pending, drawn, job, commitments, shares, signed,
                 approvals, crashes>>

\* VaultEpoch::from_online_signers: eligible, seen in time and not in the future.
Signers == {h.signer : h \in {b \in Heartbeats : b.eligible /\ b.age \in 0..MaxAge}}

\* threshold_67_percent
Threshold == (67 * Cardinality(Signers) + 99) \div 100

Init ==
    /\ allowed = [s \in Signers |-> {}]
    /\ pending = [s \in Signers |-> {}]
    /\ drawn = [s \in Signers |-> 0]
    /\ job = [s \in Signers |-> None]
    /\ commitments = {} /\ shares = {} /\ signed = {} /\ approvals = {}
    /\ crashes = 0

\* A batch is reserved, an input is spent, a request expires: what
\* validate_real_frost_signing_policy answers changes between two commands.
PolicyChanges(s, p) ==
    /\ allowed' = [allowed EXCEPT
           ![s] = IF p \in @ THEN @ \ {p} ELSE @ \cup {p}]
    /\ UNCHANGED <<pending, drawn, job, commitments, shares, signed, approvals, crashes>>

\* The two commands compute their output from the state they read and stage it.
Staged(s, p, state, output) ==
    /\ job' = [job EXCEPT ![s] = [at |-> 1, pending |-> state, output |-> output]]
    /\ approvals' = approvals \cup {[signer |-> s, plan |-> p]}
    /\ UNCHANGED <<allowed, pending, commitments, shares, signed, crashes>>

\* real_frost_create_nonce_commitments
FrostCreateCommitments(s, p) ==
    LET c == [signer |-> s, plan |-> p, serial |-> drawn[s] + 1]
    IN  /\ job[s] = None
        /\ drawn[s] < MaxNonces
        /\ p \in allowed[s]
        /\ \A n \in pending[s] : n.plan # p
        /\ drawn' = [drawn EXCEPT ![s] = @ + 1]
        /\ Staged(s, p, pending[s] \cup {c}, [kind |-> "commitment", value |-> c])

\* signing_commitments_by_input: claims of known signers for this plan, one
\* per signer.
CommitmentsValid(set, p) ==
    /\ \A c \in set : c.plan = p /\ c.signer \in Signers
    /\ \A c, d \in set : c.signer = d.signer => c = d

\* real_frost_sign_spend_plan: the nonce is removed from the state it returns.
NonceUsed(nonces, c) == nonces \ {c}

FrostSignShares(s, p, set) ==
    /\ job[s] = None
    /\ p \in allowed[s]
    /\ CommitmentsValid(set, p)
    /\ Cardinality(set) >= Threshold
    /\ \E c \in set :
          /\ c.signer = s
          /\ c \in pending[s]
          /\ Staged(s, p, NonceUsed(pending[s], c),
                    [kind |-> "share",
                     value |-> [signer |-> s, plan |-> p, serial |-> c.serial,
                                set |-> set]])
    /\ UNCHANGED drawn

\* What a command does with its staged output, in this order.
MutSteps == <<"publish", "write">>
Steps == <<"write", "publish">>

Done(s) ==
    LET j == job[s]
    IN  job' = [job EXCEPT ![s] = IF j.at < Len(Steps) THEN [j EXCEPT !.at = j.at + 1]
                                  ELSE None]

\* write_private_json_file replaces the state file.
WriteState(s) ==
    /\ job[s] # None
    /\ Steps[job[s].at] = "write"
    /\ pending' = [pending EXCEPT ![s] = job[s].pending]
    /\ Done(s)
    /\ UNCHANGED <<allowed, drawn, commitments, shares, signed, approvals, crashes>>

\* StagedJsonFile::publish
PublishOutput(s) ==
    /\ job[s] # None
    /\ Steps[job[s].at] = "publish"
    /\ LET out == job[s].output IN
       IF out.kind = "commitment"
       THEN commitments' = commitments \cup {out.value} /\ UNCHANGED shares
       ELSE shares' = shares \cup {out.value} /\ UNCHANGED commitments
    /\ Done(s)
    /\ UNCHANGED <<allowed, pending, drawn, signed, approvals, crashes>>

Crash(s) ==
    /\ job[s] # None
    /\ crashes < MaxCrashes
    /\ crashes' = crashes + 1
    /\ job' = [job EXCEPT ![s] = None]
    /\ UNCHANGED <<allowed, pending, drawn, commitments, shares, signed, approvals>>

\* signature_shares_by_input and validate_commitment_share_signer_metadata:
\* one share per signer, from the signers of the commitments.
SharesMatch(set, ss, p) ==
    /\ \A x \in ss : x.plan = p
    /\ \A x, y \in ss : x.signer = y.signer => x = y
    /\ {x.signer : x \in ss} = {c.signer : c \in set}

\* A share verifies against a set of commitments when it was computed over it.
MutShareVerifies(x, set) == \E c \in set : c.signer = x.signer /\ c.serial = x.serial
ShareVerifies(x, set) == x.set = set

\* aggregate_real_frost_vault_transaction_checked
FrostAggregateTransaction(p, set, ss) ==
    /\ CommitmentsValid(set, p)
    /\ SharesMatch(set, ss, p)
    /\ Cardinality(set) >= Threshold
    /\ \A x \in ss : ShareVerifies(x, set)
    /\ signed' = signed \cup {[plan |-> p, shares |-> ss]}
    /\ UNCHANGED <<allowed, pending, drawn, job, commitments, shares, approvals, crashes>>

SetsFor(p) == SUBSET {c \in commitments : c.plan = p}

Next ==
    \/ \E s \in Signers, p \in Plans :
          \/ PolicyChanges(s, p)
          \/ FrostCreateCommitments(s, p)
          \/ \E set \in SetsFor(p) : FrostSignShares(s, p, set)
    \/ \E s \in Signers : WriteState(s) \/ PublishOutput(s) \/ Crash(s)
    \/ \E p \in Plans : \E set \in SetsFor(p) :
          \E ss \in SUBSET {x \in shares : x.plan = p} :
              FrostAggregateTransaction(p, set, ss)

Spec == Init /\ [][Next]_signingVars

-----------------------------------------------------------------------------
(* Properties *)

\* A nonce signs once: no two published shares use one nonce of a signer over
\* two sets of commitments, whatever commands were cut short and repeated.
\* (Two such shares give away the signer's key.)
NonceSignsOnce ==
    \A x, y \in shares : x.signer = y.signer /\ x.serial = y.serial => x = y

\* A signed transaction carries the shares of a threshold of signers, all over
\* the same commitments, and the policy of each of them had accepted the plan.
SignedByThreshold ==
    \A t \in signed :
        /\ Cardinality({x.signer : x \in t.shares}) >= Threshold
        /\ \A x, y \in t.shares : x.set = y.set
        /\ \A x \in t.shares : [signer |-> x.signer, plan |-> t.plan] \in approvals

\* Signing spends a nonce once and a threshold of shares each time.
SigningSound == NonceSignsOnce /\ SignedByThreshold
=============================================================================
