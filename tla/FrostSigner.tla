------------------------------ MODULE FrostSigner -----------------------------
(***************************************************************************)
(* Which signer the anchor wallet starts with: the configuration checks of *)
(* config.rs, the loading of two FROST shares (frost_signer.rs) and the    *)
(* comparison with the wallet's key, over shares dealt by a 2-of-3         *)
(* ceremony and then damaged, mixed up or put in the same file.            *)
(*                                                                         *)
(* Scalars are the numbers modulo the group's prime order, and a group     *)
(* element is named by its discrete logarithm.                             *)
(***************************************************************************)
EXTENDS Integers, FiniteSets

CONSTANTS
  Order,     \* of the Pallas group, a prime
  Setups,    \* what a process may find when it starts: see SignerInit
  MaxEdits   \* bound

Scalars == 0..Order - 1
Participants == 1..3

\* The order is a prime and no two participants have one id modulo it.  Share
\* files encode the coefficients as points, and the identity has no encoding:
\* a ceremony deals a polynomial without a zero coefficient.
ASSUME SignerAssumption ==
  /\ Order \in Nat /\ Order > 3
  /\ \A d \in 2..Order - 1 : Order % d # 0
  /\ \A s \in Setups : /\ s.a \in Scalars \ {0} /\ s.b \in Scalars \ {0}
                       /\ s.i \in Participants /\ s.j \in Participants
  /\ MaxEdits \in Nat

VARIABLES
  config,    \* the environment of the process
  ak,        \* spend validating key derived from ANCHOR_SEED
  file,      \* file behind each of the two share paths
  share,     \* content of the two files
  dealt,     \* history: the files are as one ceremony dealt them
  stage,     \* "down", "refused", "up"
  signer,    \* "none", "single_key", "frost"
  edits

signerVars == <<config, ak, file, share, dealt, stage, signer, edits>>

-----------------------------------------------------------------------------

ModInverse(x) == CHOOSE y \in Scalars : (x * y) % Order = 1

\* The share file of participant i for the polynomial a + b * x.
Share(a, b, i) ==
  [meta |-> "2-of-3", id |-> i, secret |-> (a + b * i) % Order, verifying |-> (a + b * i) % Order,
   group |-> a, commitment |-> <<a, b>>]

\* One process environment and a ceremony's files for two participants, or
\* one file named twice.
SignerInit ==
  /\ \E s \in Setups :
       /\ config = s.config /\ ak = s.ak
       /\ file = IF s.i = s.j THEN <<1, 1>> ELSE <<1, 2>>
       /\ share = <<Share(s.a, s.b, s.i), Share(s.a, s.b, s.j)>>
  /\ dealt = TRUE /\ stage = "down" /\ signer = "none" /\ edits = 0

\* A field of a file is changed.
Edit ==
  /\ stage = "down" /\ edits < MaxEdits
  /\ \E f \in {1, 2} :
       \/ \E v \in Scalars :
            \/ share' = [share EXCEPT ![f].secret = v]
            \/ share' = [share EXCEPT ![f].verifying = v]
            \/ share' = [share EXCEPT ![f].group = v]
            \/ \E k \in {1, 2} : share' = [share EXCEPT ![f].commitment[k] = v]
            \/ share' = [share EXCEPT ![f].id = v]
       \/ share' = [share EXCEPT ![f].meta = "other"]
  /\ dealt' = FALSE /\ edits' = edits + 1
  /\ UNCHANGED <<config, ak, file, stage, signer>>

\* A file is exchanged for the share of another ceremony.
Mix ==
  /\ stage = "down" /\ edits < MaxEdits
  /\ \E f \in {1, 2}, a, b \in Scalars \ {0}, i \in Participants :
       share' = [share EXCEPT ![f] = Share(a, b, i)]
  /\ dealt' = FALSE /\ edits' = edits + 1
  /\ UNCHANGED <<config, ak, file, stage, signer>>

-----------------------------------------------------------------------------
(* Start of the process. *)

\* validate_signing_mode.
ConfigValid ==
  /\ config.mode \in {"single_key", "frost"}
  /\ config.mode = "frost" =>
       config.optIn /\ config.testnet /\ config.seed # "absent" /\ config.paths = "both"
  /\ config.mode = "single_key" => ~config.optIn /\ config.paths = "none"

\* load_share: ceremony parameters, points that are not the identity, the
\* group key committed to, and the VSS equation.
ShareValid(s) ==
  /\ s.meta = "2-of-3"
  /\ s.id # 0 /\ s.verifying # 0 /\ s.group # 0 /\ 0 \notin {s.commitment[1], s.commitment[2]}
  /\ s.commitment[1] = s.group
  /\ (s.commitment[1] + s.commitment[2] * s.id) % Order = s.secret
  /\ s.verifying = s.secret

Content(path) == share[file[path]]

\* Mutant: only the group keys of the two shares are compared.
MSharesAccepted ==
  /\ file[1] # file[2]
  /\ ShareValid(Content(1)) /\ ShareValid(Content(2))
  /\ Content(1).id # Content(2).id
  /\ Content(1).group = Content(2).group

\* from_files.
SharesAccepted ==
  /\ config.optIn
  /\ file[1] # file[2]
  /\ ShareValid(Content(1)) /\ ShareValid(Content(2))
  /\ Content(1).id # Content(2).id
  /\ Content(1).commitment = Content(2).commitment
  /\ Content(1).group = Content(2).group

\* set_frost_signer compares the group key with ak.
KeyMatches == Content(1).group = ak

RefuseStart == stage' = "refused" /\ UNCHANGED <<config, ak, file, share, dealt, signer, edits>>

\* Config::from_env fails.
StartBadConfig == stage = "down" /\ ~ConfigValid /\ RefuseStart

\* Broadcast is on and there is no wallet, or its shares do not fit.
StartBadWallet ==
  /\ stage = "down" /\ ConfigValid /\ config.enabled
  /\ \/ config.seed # "good"
     \/ config.mode = "frost" /\ ~(SharesAccepted /\ KeyMatches)
  /\ RefuseStart

\* main up to the spawned tasks: key material is loaded only for broadcasts.
Start ==
  /\ stage = "down" /\ ConfigValid
  /\ config.enabled =>
       /\ config.seed = "good"
       /\ config.mode = "frost" => SharesAccepted /\ KeyMatches
  /\ stage' = "up"
  /\ signer' = IF config.enabled THEN config.mode ELSE "none"
  /\ UNCHANGED <<config, ak, file, share, dealt, edits>>

SignerNext == Edit \/ Mix \/ StartBadConfig \/ StartBadWallet \/ Start

-----------------------------------------------------------------------------
(* sign: both rounds and the aggregation, with nonces k, challenge c and   *)
(* randomizer alpha.                                                       *)

Coefficient(i, j) == (j * ModInverse((j - i) % Order)) % Order

SignatureShare(own, other, k, c) ==
  (k + c * Coefficient(own.id, other.id) * own.secret) % Order

Signature(k1, k2, c, alpha) ==
  [nonce |-> (k1 + k2) % Order,
   response |-> (SignatureShare(Content(1), Content(2), k1, c)
                 + SignatureShare(Content(2), Content(1), k2, c) + c * alpha) % Order]

\* The verification equation under the randomized key ak + alpha.
Verifies(signature, c, alpha) ==
  signature.response = (signature.nonce + c * (ak + alpha)) % Order

-----------------------------------------------------------------------------
(* What must hold. *)

\* The only configuration that asks for FROST and can have it.
FrostConfig ==
  [mode |-> "frost", optIn |-> TRUE, testnet |-> TRUE, seed |-> "good",
   paths |-> "both", enabled |-> TRUE]

\* A signer that was accepted signs for the wallet's key, whatever the nonces,
\* the challenge and the randomizer (from_files, set_frost_signer, sign).
SignaturesVerify ==
  signer = "frost" =>
    \A k1, k2, c, alpha \in Scalars :
      Verifies(Signature(k1, k2, c, alpha), c, alpha)

\* The process runs with the signer that was configured or it does not run;
\* FROST is never replaced by the single key (set_frost_signer).
NoFallback ==
  stage = "up" /\ config.enabled => signer = config.mode

\* Two files as a ceremony for this wallet dealt them are accepted, unless a
\* share happens to be zero.
DealtSharesStart ==
  dealt /\ config = FrostConfig /\ ak = share[1].group /\ file[1] # file[2]
    /\ share[1].secret # 0 /\ share[2].secret # 0
  => stage # "refused"

\* A process starts with a signer exactly when it can sign with it.
SignerIsSound == SignaturesVerify /\ NoFallback /\ DealtSharesStart

===============================================================================
