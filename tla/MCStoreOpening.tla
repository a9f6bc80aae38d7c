---------------------------- MODULE MCStoreOpening ----------------------------
EXTENDS StoreOpening

CONSTANT Tool
MCProcesses == {Server, Tool}

Id(name, form) == [name |-> name, form |-> form]
Row(root, count, txid) == [root |-> root, count |-> count, txid |-> txid]

\* The schema grew in this order.
V0 == {}
V1 == {"invoices", "merkle_roots"}
V2 == V1 \cup {"invoice_type", "wallet_hash"}
V3 == V2 \cup {"api_keys"}
V4 == V3 \cup {"expires_at", "anchor_broadcasts", "idx_merkle_roots_anchor_txid"}
V5 == V4 \cup Confirmation

File(tables, rows, entries, n) ==
  [schema |-> tables, roots |-> rows, journal |-> entries, leaves |-> n]

\* Rows in lower and upper case, with a count that is too large, with an
\* identity that is not hexadecimal, and with one that is there twice.
SoundRows == <<Row(Id(1, "upper"), 2, Id("a", "upper"))>>
Mixed == <<Row(Id(1, "lower"), 1, Id("a", "lower")), Row(Id(2, "upper"), 3, NoTx)>>
Twice == <<Row(Id(1, "lower"), 1, Id("a", "lower")), Row(Id(2, "lower"), 2, Id("a", "upper"))>>
Same == <<Row(Id(1, "lower"), 1, Id("a", "lower")), Row(Id(2, "lower"), 2, Id("a", "lower"))>>
Foreign == <<Row(Id(1, "lower"), 1, Id("a", "bad"))>>
Entry == <<[txid |-> Id("a", "upper"), root |-> Id(1, "upper")]>>
Entries == <<[txid |-> Id("a", "upper"), root |-> Id(1, "upper")],
             [txid |-> Id("a", "lower"), root |-> Id(2, "lower")]>>

MCStores ==
  {File(V0, <<>>, <<>>, 0)}
  \cup {File(v, rows, <<>>, 1) : v \in {V2, V3}, rows \in {SoundRows, Mixed, Twice, Same, Foreign}}
  \cup {File(v, rows, entries, 1) : v \in {V4, V5}, rows \in {SoundRows, Mixed, Twice, Foreign},
                                    entries \in {<<>>, Entry, Entries}}

===============================================================================
