----------------------------- MODULE MCSubgraph -----------------------------
(* Constants of the run of Subgraph. *)
EXTENDS Subgraph

CONSTANT MaxFlows  \* transactions of a behaviour with a strategy at work

VaultEvents == {"OpenVault", "NormUpdated", "MintShort", "BurnShort", "DepositCollateral", "WithdrawCollateral",
                "DepositNft", "WithdrawNft", "Liquidate", "ReduceDebt", "RedeemShort"}

VaultsAlone ==
  /\ \A i \in DOMAIN pending : pending[i].ev \in VaultEvents
  /\ onchain[CrabVault] = Empty /\ onchain[V1Vault] = Empty
  /\ truth = Nothing /\ store.strategies = Nothing /\ store.receipts = Nothing /\ store.crabV1Tx = Nothing
  /\ store.timelock = Nothing /\ store.executed = Nothing /\ store.settings = Nothing

\* More than MaxFlows transactions only where the vaults alone are at work:
\* a flow of a strategy is complete in one transaction.
MCNext ==
  \/ /\ txs < MaxFlows \/ VaultsAlone
     /\ VaultTransaction
  \/ /\ txs < MaxFlows
     /\ StrategyTransaction
  \/ Index

MCSpec == Init /\ [][MCNext]_vars
=============================================================================
