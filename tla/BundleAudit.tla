----------------------------- MODULE BundleAudit -----------------------------
(***************************************************************************)
(* The proof bundles of a LeafStore as their readers see them: proof.json  *)
(* and the check page of api.rs, the zap1_export tool that collects the    *)
(* bundles of a wallet one request at a time while the store is written,   *)
(* and the zap1_audit tool that verifies a bundle or a package offline.    *)
(***************************************************************************)
EXTENDS LeafStore

CONSTANTS TypeOf   \* the event type of each leaf; all belong to one wallet

VARIABLES
  phase,     \* of zap1_export: "idle", "fetch", "done" or "failed"
  profile,   \* --profile
  listed,    \* events of the lifecycle answer
  queue,     \* leaf hashes still to fetch
  proofs     \* entries of the package so far

exportVars == <<phase, profile, listed, queue, proofs>>
auditVars == <<vars, exportVars>>

CountBound == "ZAP1_COUNT_BOUND_V2"
Legacy == "ZAP1_LEGACY_DUPLICATE_ODD"
Invalid == "INVALID"

-----------------------------------------------------------------------------
(* The server. *)

\* verify_bundle_merkle: the scheme is the proof's shape, whether or not a
\* legacy shape is accepted.
Scheme(leaf, bundle) ==
  IF VerifyProof(leaf, bundle.proof, bundle.root.count, bundle.root.hash)
  THEN CountBound
  ELSE IF VerifyLegacyProof(leaf, bundle.proof, bundle.root.hash) THEN Legacy
  ELSE Invalid

\* proof_bundle_json: a bundle with its scheme; anchors as in merkle_roots.
ProofJson(leaf) ==
  LET bundle == Bundle(leaf) IN
  [version |-> "2", leaf |-> leaf, proof |-> bundle.proof,
   root |-> bundle.root.hash, count |-> bundle.root.count,
   scheme |-> Scheme(leaf, bundle), height |-> bundle.root.height]

-----------------------------------------------------------------------------
(* zap1_audit. *)

HistoricalLegacyAllowed(height) == height \in 1..LegacyMax

\* verify_bundle; requested is the leaf of the URL, if it names one.
AuditAccepts(json, requested) ==
  /\ json.scheme \in {CountBound, Legacy}
  /\ json.version = "2" \/ (json.version = "1.0.0" /\ json.scheme = Legacy)
  /\ json.count > 0
  /\ requested = {} \/ requested = {json.leaf}
  /\ \/ /\ json.scheme = CountBound
        /\ VerifyProof(json.leaf, json.proof, json.count, json.root)
     \/ /\ json.scheme = Legacy
        /\ HistoricalLegacyAllowed(json.height)
        /\ VerifyLegacyProof(json.leaf, json.proof, json.root)

\* One proof of verify_export; a scheme it does not know rejects the package.
Recognized(entry) == entry.scheme \in {CountBound, Legacy}
EntryPasses(entry) ==
  \/ /\ entry.scheme = CountBound
     /\ VerifyProof(entry.leaf, entry.proof, entry.count, entry.root)
  \/ /\ entry.scheme = Legacy
     /\ HistoricalLegacyAllowed(entry.height)
     /\ VerifyLegacyProof(entry.leaf, entry.proof, entry.root)

-----------------------------------------------------------------------------
(* zap1_export. *)

\* apply_profile
ApplyProfile ==
  [auditor |-> {"PROGRAM_ENTRY", "OWNERSHIP_ATTEST", "HOSTING_PAYMENT",
                "SHIELD_RENEWAL", "CONTRACT_ANCHOR", "EXIT"},
   counterparty |-> {"PROGRAM_ENTRY", "OWNERSHIP_ATTEST", "DEPLOYMENT"},
   member |-> {"PROGRAM_ENTRY", "OWNERSHIP_ATTEST", "HOSTING_PAYMENT",
               "SHIELD_RENEWAL"},
   regulator |-> {"PROGRAM_ENTRY", "OWNERSHIP_ATTEST", "CONTRACT_ANCHOR",
                  "HOSTING_PAYMENT", "SHIELD_RENEWAL", "TRANSFER", "EXIT"}]

\* collect_leaf_hashes: the wallet's events, filtered; none is an error, from
\* the server if the wallet has no event and from the tool otherwise.
CollectLeafHashes(p) ==
  /\ phase = "idle"
  /\ profile' = p
  /\ listed' = leaves
  /\ queue' = RowsAt(leaves, {k \in DOMAIN leaves : TypeOf[leaves[k]] \in ApplyProfile[p]})
  /\ phase' = IF queue' = <<>> THEN "failed" ELSE "fetch"
  /\ UNCHANGED <<proofs, vars>>

\* Mutant: a bundle of the previous leaf is kept under the next leaf's hash.
FetchProofStale ==
  /\ phase = "fetch" /\ queue # <<>>
  /\ proofs' = Append(proofs,
       IF proofs = <<>> THEN ProofJson(Head(queue))
       ELSE [Last(proofs) EXCEPT !.leaf = Head(queue)])
  /\ queue' = Tail(queue)
  /\ UNCHANGED <<phase, profile, listed, vars>>
\* The next bundle is fetched.  Serving it may write the current root.
FetchProof ==
  /\ phase = "fetch" /\ queue # <<>>
  /\ proofs' = Append(proofs, ProofJson(Head(queue)))
  /\ queue' = Tail(queue)
  /\ roots' = IF Anchored(Head(queue)) THEN roots ELSE WithCurrent(leaves, roots)
  /\ UNCHANGED <<phase, profile, listed, leaves, ids, lastId, upgraded, inserts>>

\* The server answers with an error status: the leaf is skipped.
SkipProof ==
  /\ phase = "fetch" /\ queue # <<>>
  /\ queue' = Tail(queue)
  /\ UNCHANGED <<phase, profile, listed, proofs, vars>>

\* No answer, or one that does not parse, ends the tool without a package.
Abort ==
  /\ phase = "fetch" /\ queue # <<>>
  /\ phase' = "failed"
  /\ UNCHANGED <<profile, listed, queue, proofs, vars>>

WritePackage ==
  /\ phase = "fetch" /\ queue = <<>>
  /\ phase' = "done"
  /\ UNCHANGED <<profile, listed, queue, proofs, vars>>

-----------------------------------------------------------------------------

AuditInit ==
  /\ Init
  /\ phase = "idle" /\ profile = "" /\ listed = <<>>
  /\ queue = <<>> /\ proofs = <<>>

AuditNext ==
  \/ Next /\ UNCHANGED exportVars
  \/ \E p \in DOMAIN ApplyProfile : CollectLeafHashes(p)
  \/ FetchProof
  \/ SkipProof
  \/ Abort
  \/ WritePackage

AuditSpec == AuditInit /\ [][AuditNext]_auditVars

-----------------------------------------------------------------------------
(* What must hold. *)

\* zap1_audit, whose rules are written a second time, accepts the bundle of a
\* leaf exactly when the server's check page calls it valid (verify_check,
\* verify_bundle).
AuditAgrees ==
  \A leaf \in Stored : AuditAccepts(ProofJson(leaf), {leaf}) <=> BundleValid(leaf)

\* Whatever is inserted and anchored between two fetches of an export, the
\* package verifies offline: no entry has an unknown scheme, and those that
\* fail have a legacy root that was not historical when they were fetched.
PackageAudits ==
  phase = "done" =>
    \A k \in DOMAIN proofs :
      /\ Recognized(proofs[k])
      /\ EntryPasses(proofs[k]) \/ proofs[k].height \notin 1..LegacyMax
      /\ proofs[k].scheme = CountBound => EntryPasses(proofs[k])

\* The offline auditor judges single bundles and packages as the server that
\* made them does.
OfflineAudit == AuditAgrees /\ PackageAudits
=============================================================================
