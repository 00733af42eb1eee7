---------------------------- MODULE PalletCalls -----------------------------
(***************************************************************************)
(* The methods of turbobt that submit an extrinsic: subtensor/pallets and  *)
(* the methods of subnet.py and neuron.py on top of them.  Each makes one  *)
(* call to author.submitAndWatchExtrinsic(), of which this module keeps    *)
(* the function and which key of the wallet signs; what SubnetRecords and  *)
(* Extrinsics need of the arguments is there.                              *)
(***************************************************************************)
CONSTANTS
    Wallets,    \* a wallet has two keys, hotkey and coldkey
    Own,        \* client.wallet
    None        \* wallet=None, and no batch

ASSUME PalletCallsAssumption == Own \in Wallets /\ None \notin Wallets

Keys     == {"hotkey", "coldkey"}
Accounts == [wallet : Wallets, key : Keys]

Account(wallet, key) == [wallet |-> wallet, key |-> key]

SignedBy(function, key) == [function |-> function, key |-> key]

-----------------------------------------------------------------------------
(* subtensor/pallets                                                       *)

AddStake       == SignedBy("add_stake", "coldkey")
RemoveStake    == SignedBy("remove_stake", "coldkey")
BurnedRegister == SignedBy("burned_register", "coldkey")
RootRegister   == SignedBy("root_register", "coldkey")

RegisterNetwork == SignedBy("register_network", "coldkey")

ServeAxon    == SignedBy("serve_axon", "hotkey")
ServeAxonTls == SignedBy("serve_axon_tls", "hotkey")

\* The functions for one mechanism and the older ones for mechanism 0 make the
\* same call.
SetMechanismWeights == SignedBy("set_mechanism_weights", "hotkey")
SetMechanism0       == SetMechanismWeights

CommitMechanismWeights == SignedBy("commit_timelocked_mechanism_weights", "hotkey")
CommitTimelocked0      == CommitMechanismWeights
CommitCrv3             == CommitMechanismWeights

\* Mutant of SetCommitment: signed like the calls about stake.
CommitmentOfColdkey == SignedBy("set_commitment", "coldkey")

SetCommitment == SignedBy("set_commitment", "hotkey")

\* The call that sudo() encodes is executed for nobody but sudo itself.
Sudo(function) == SignedBy("sudo", "coldkey")

SetCommitReveal == SignedBy("sudo_set_commit_reveal_weights_enabled", "coldkey")
SetTempo        == Sudo("sudo_set_tempo")
SetRateLimit    == Sudo("sudo_set_weights_set_rate_limit")

-----------------------------------------------------------------------------
(* subnet.py and neuron.py, with the choices they make                     *)

NeuronsRegister(netuid)  == IF netuid = 0 THEN RootRegister ELSE BurnedRegister
NeuronsServe(certified)  == IF certified THEN ServeAxonTls ELSE ServeAxon
CommitmentsSet           == SetCommitment
CommitmentsSetRevealed   == SetCommitment
WeightsSet               == SetMechanismWeights
WeightsCommit            == CommitMechanismWeights
NeuronAddStake           == AddStake
NeuronRemoveStake        == RemoveStake
SubnetsRegister          == RegisterNetwork

\* Their wallet may be left out; a pallet's may not.
HighLevel ==
    {NeuronsRegister(0), NeuronsRegister(1), NeuronsServe(TRUE), NeuronsServe(FALSE),
     CommitmentsSet, CommitmentsSetRevealed, WeightsSet, WeightsCommit,
     NeuronAddStake, NeuronRemoveStake, SubnetsRegister}

LowLevel ==
    {AddStake, RemoveStake, BurnedRegister, RootRegister, RegisterNetwork,
     ServeAxon, ServeAxonTls, SetMechanismWeights, SetMechanism0,
     CommitMechanismWeights, CommitTimelocked0, CommitCrv3, SetCommitment,
     Sudo("remark"), SetCommitReveal, SetTempo, SetRateLimit}

\* A method with its call and its argument wallet.
Operations == [call : HighLevel, wallet : Wallets \cup {None}]
              \cup [call : LowLevel, wallet : Wallets]

\* `wallet or client.wallet`.
WalletOf(wallet) == IF wallet = None THEN Own ELSE wallet

\* Who signs the extrinsic of an operation by itself.
Signer(op) == Account(WalletOf(op.wallet), op.call.key)

\* The key of a batch: `key=self.client.wallet.coldkey`.
BatchSigner == Account(Own, "coldkey")

-----------------------------------------------------------------------------
(* The chain: on behalf of which kind of account it takes a call           *)

HotkeyFunctions ==
    {"serve_axon", "serve_axon_tls", "set_mechanism_weights",
     "commit_timelocked_mechanism_weights", "set_commitment"}

RoleOf(function) == IF function \in HotkeyFunctions THEN "hotkey" ELSE "coldkey"

\* For whom the caller of a method means it.
Meant(op) == Account(IF op.wallet = None THEN Own ELSE op.wallet, RoleOf(op.call.function))

=============================================================================
