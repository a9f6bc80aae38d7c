----------------------------- MODULE MCEventIntake ----------------------------
(* Two delegated keys, one of them without expiry, and bodies that are      *)
(* invalid, stamped by the clock, of an agent and of two wallets.           *)
EXTENDS EventIntake, TLC

CONSTANTS w1, w2, s1, a1, k1, k2, bad

MCEvent(type, body) == [type |-> type, body |-> body]

Hosting(w, month) ==
  MCEvent("HOSTING_PAYMENT",
    "wallet_hash" :> w @@ "serial_number" :> s1 @@ "month" :> month @@ "year" :> 2026)
Exit == MCEvent("EXIT", "wallet_hash" :> w1 @@ "serial_number" :> s1)
Agent(w) ==
  MCEvent("AGENT_POLICY",
    "wallet_hash" :> w @@ "agent_id" :> a1 @@ "policy_version" :> 1
    @@ "rules_hash" :> s1)

MCEvents == {Hosting(w1, 3), Hosting(w2, 3), Hosting(w1, bad), Exit, Agent(a1), Agent(w1)}
=============================================================================
