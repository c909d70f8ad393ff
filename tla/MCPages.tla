------------------------------ MODULE MCPages ------------------------------
EXTENDS Pages, SharePnl

CONSTANTS a, b

MCOpened == DOMAIN PageOf
\* The second account has no vault, and the indexer knows nothing of it.
MCLacking == {"vaults", "history", "txs"}

\* The risky account has two strikes.
MCEarlier == [x \in Accounts |-> IF x \in Risky THEN 2 ELSE 0]

\* A first deposit before both strategies, one between them and one after both.
MCLaunch == [crab |-> 20, zenbull |-> 40]
MCAnswers == {<<>>, <<<<40, 1>>>>, <<<<40, 1>>, <<45, -2>>>>}

\* Who comes has the risky account selected, at the page of Zen Bull or from a
\* restricted place; there a page has three requests under way at most, besides
\* those of one that was closed.  The warnings are told and closed while nothing is
\* under way, the first one last.
SessionBounds ==
  page = "header" =>
    /\ past.events = 0 /\ calls = EmptyBag => /\ wallet.account \in Risky /\ tab.path # "legal"
                                              /\ tab.path = "bull" <=> ~ tab.blockedPlace
    /\ server.blockedPlace => past.events + Cardinality({c \in DOMAIN calls : ~ c.closed}) <= 4
    /\ tab.timer \/ tab.walletFail => calls = EmptyBag
    /\ tab.shownOnce => past.events = MaxEvents /\ calls = EmptyBag
=============================================================================
