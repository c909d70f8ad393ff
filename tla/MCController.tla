----------------------------- MODULE MCController -----------------------------
(* Instances of Controller for TLC. *)
EXTENDS Controller, TLC

CONSTANTS u1, u2, t1

(* No positions. *)
NoUnis == <<>>

(* One position that is all ETH at the higher pool price and all wPowerPerp *)
(* at the lower one; the pool pays a unit less than is counted.              *)
RangeOrder(eth, w) ==
  [t \in {t1} |-> [p \in WPrices |->
     IF \A q \in WPrices : q <= p THEN [eth |-> eth, w |-> 0]
                                  ELSE [eth |-> 0, w |-> w]]]
OneUni == RangeOrder(74, 159)
OneUniCounted == RangeOrder(75, 160)
BigUni == RangeOrder(119, 319)
BigUniCounted == RangeOrder(120, 320)

(* Explore no further once the system is shut down. *)
BeforeShutDown == ~isShutDown

(* Two users and a position at a time do not fit one state space either: a  *)
(* second user is explored only while nobody has the position, at one price, *)
(* and a second block only with one vault.  Large debts are minted under a  *)
(* fee only, by one user without the position; operators are named in the    *)
(* first block, for the only vault.                                           *)
Uses(u) == \/ wBalance[u] > 0 \/ \E t \in UniIds : uniOwner[t] = u
           \/ \E id \in 1..(nextId - 1) : vaultOwner[id] = u
PositionsOrUsers ==
  /\ BeforeShutDown
  /\ \A id \in 1..(nextId - 1) : vaults[id].shortAmount > 200 => feeRate > 0
  /\ feeRate > 0 => /\ nextId <= 2 /\ Cardinality({ u \in Users : Uses(u) }) <= 1
                    /\ \A t \in UniIds : uniOwner[t] = Nobody
  /\ \A id \in 1..(nextId - 1) : vaults[id].operator # Nobody => now = 0 /\ nextId = 2 /\ feeRate = 0
  /\ \/ wTwap = Max(WPrices) /\ (now <= 1 \/ nextId <= 2) /\ \A t \in UniIds : uniOwner[t] = Nobody
     \/ now <= 1 /\ feeRecipient = Nobody /\ Cardinality({ u \in Users : Uses(u) }) <= 1

(* Shutting down takes the position only while there is one vault, days go  *)
(* by only while there is none; at the higher ETH price, where vaults become *)
(* insolvent, nobody pauses first, no funding has been applied and the        *)
(* pool's own price is the higher.                                            *)
OneAtATime ==
  /\ \/ ethTwap < Max(EthPrices)
     \/ /\ pausesLeft = PausesAllowed /\ wTwap = Max(WPrices)
        /\ normalizationFactor = ONE
  /\ feeRecipient = Nobody
  /\ nextId <= 2 \/ \A t \in UniIds : uniOwner[t] = Nobody
  /\ now <= 1 \/ (nextId = 1 /\ \A t \in UniIds : uniOwner[t] = Nobody)

UserSymmetry == Permutations(Users)
=============================================================================
