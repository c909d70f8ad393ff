----------------------------- MODULE SubgraphProofs -----------------------------
(***************************************************************************)
(* Theorems about Subgraph, for any values of its constants.  A store that *)
(* is behind the chain plus what the log still has to tell is the chain:   *)
(* for the amounts of each vault, for the collateral of all vaults at each *)
(* time, for the shares of Crab.                                           *)
(***************************************************************************)
EXTENDS Subgraph, SumProofs

-----------------------------------------------------------------------------
(* What an event tells. *)

Moves == {"DepositCollateral", "WithdrawCollateral", "Liquidate"}
Shorts == {"MintShort", "BurnShort", "Liquidate"}
NftMoves == {"DepositNft", "WithdrawNft"}
OfVaults == {"OpenVault"} \cup Moves \cup Shorts \cup NftMoves
Telling == OfVaults \cup {"CrabTransfer"}

\* An event has the fields its handler reads.
Fit(e) ==
  /\ "ev" \in DOMAIN e
  /\ e.ev \in OfVaults => "vault" \in DOMAIN e /\ e.vault \in VaultIds
  /\ e.ev \in (Moves \cup Shorts) \ {"Liquidate"} => "amount" \in DOMAIN e /\ e.amount \in Int
  /\ e.ev = "Liquidate" => {"debt", "paid"} \subseteq DOMAIN e /\ e.debt \in Int /\ e.paid \in Int
  /\ e.ev = "CrabTransfer" => {"src", "dst", "amount"} \subseteq DOMAIN e /\ e.amount \in Int

Kinds == {"short", "coll", "total", "shares"}

ShortMove(e) ==
  IF e.ev = "MintShort" THEN e.amount ELSE IF e.ev = "BurnShort" THEN -e.amount
  ELSE IF e.ev = "Liquidate" THEN -e.debt ELSE 0
CollMove(e) ==
  IF e.ev = "DepositCollateral" THEN e.amount ELSE IF e.ev = "WithdrawCollateral" THEN -e.amount
  ELSE IF e.ev = "Liquidate" THEN -e.paid ELSE 0
SharesMove(e) ==
  IF e.ev = "CrabTransfer" THEN IF e.src = Zero THEN e.amount ELSE IF e.dst = Zero THEN -e.amount ELSE 0
  ELSE 0

\* What an event tells about a total: the debt or the collateral of vault v,
\* the collateral of all vaults, the shares of Crab.
Effect(kind, v, e) ==
  IF kind = "short" THEN IF e.ev \in Shorts /\ e.vault = v THEN ShortMove(e) ELSE 0
  ELSE IF kind = "coll" THEN IF e.ev \in Moves /\ e.vault = v THEN CollMove(e) ELSE 0
  ELSE IF kind = "total" THEN CollMove(e)
  ELSE SharesMove(e)

\* What the events of a log tell together, those up to time t.
Effects(kind, v, events) == SumOf([i \in 1 .. Len(events) |-> Effect(kind, v, events[i])])
Rest(kind, v, log, t) ==
  SumOf([i \in 1 .. Len(log) |-> IF log[i].time <= t THEN Effect(kind, v, log[i]) ELSE 0])

HeldColl(vaults) == SumOf([v \in VaultIds |-> vaults[v].coll])
Shares(s) == loadOrCreateStrategy(s, "crabV2").supply

\* The total as the store has it, and as the chain has announced it.
Held(kind, v, s) ==
  IF kind = "short" THEN s.vaults[v].short ELSE IF kind = "coll" THEN s.vaults[v].coll
  ELSE IF kind = "total" THEN HeldColl(s.vaults) ELSE Shares(s)
Truth(kind, v, vaults, gone, shares) ==
  IF kind = "short" THEN vaults[v].short + gone[v].short
  ELSE IF kind = "coll" THEN vaults[v].coll + gone[v].coll
  ELSE IF kind = "total" THEN Announced(vaults, gone) ELSE shares

-----------------------------------------------------------------------------
(* The invariant. *)

VaultRow == [open : BOOLEAN, short : Int, coll : Int, nft : BOOLEAN]
IsLog(s) == Len(s) \in Nat /\ s = [i \in 1 .. Len(s) |-> s[i]]
Fields == {"vaults", "hour", "day", "strategies", "history", "owner", "accounts", "liquidations"}

StoreOK(s) ==
  /\ Fields \subseteq DOMAIN s
  /\ s.vaults \in [VaultIds -> VaultRow]
  /\ \A v \in VaultIds : ~s.vaults[v].open => s.vaults[v] = None
  /\ "supply" \in DOMAIN loadOrCreateStrategy(s, "crabV2") /\ Shares(s) \in Int

ChainOK ==
  /\ now \in Times /\ txs \in Nat /\ supply \in Int /\ batched \in BOOLEAN
  /\ onchain \in [VaultIds -> VaultRow] /\ unseen \in [VaultIds -> VaultRow]
  /\ \A v \in VaultIds :
       /\ ~onchain[v].open => onchain[v] = None /\ unseen[v] = Empty
       /\ ~(onchain[v].nft /\ unseen[v].nft)
  /\ onchain[CrabVault].open /\ onchain[V1Vault].open
  /\ totalAt \in [Times -> Int]

LogOK ==
  /\ IsLog(pending)
  /\ \A i \in 1 .. Len(pending) :
       /\ Fit(pending[i])
       /\ {"tx", "time"} \subseteq DOMAIN pending[i]
       /\ pending[i].tx \in 1 .. txs /\ pending[i].time \in 0 .. now
  /\ \A i, j \in 1 .. Len(pending) : i <= j => pending[i].time <= pending[j].time

On(e, v) == e.ev \in OfVaults /\ e.vault = v
Opens(e, v) == e.ev = "OpenVault" /\ e.vault = v
OnNft(e, v) == e.ev \in NftMoves /\ e.vault = v

\* The log opens a vault once, and before it tells anything else of it.
OpenedInOrder ==
  \A v \in VaultIds :
    /\ store.vaults[v].open => onchain[v].open
    /\ ~onchain[v].open => \A i \in 1 .. Len(pending) : ~On(pending[i], v)
    /\ ~store.vaults[v].open =>
         /\ onchain[v].open => \E i \in 1 .. Len(pending) : Opens(pending[i], v)
         /\ \A i \in 1 .. Len(pending) : On(pending[i], v) => \E j \in 1 .. i : Opens(pending[j], v)
    /\ \A i \in 1 .. Len(pending) : Opens(pending[i], v) =>
         ~store.vaults[v].open /\ \A j \in 1 .. Len(pending) : Opens(pending[j], v) => j = i

\* The store and the rest of the log are the chain.
Balanced ==
  \A kind \in Kinds, v \in VaultIds :
    Held(kind, v, store) + Rest(kind, v, pending, MaxTime) = Truth(kind, v, onchain, unseen, supply)

\* The last word of the log on the position of a vault, or the store's, is true.
NftFollows ==
  \A v \in VaultIds :
    LET there == onchain[v].nft \/ unseen[v].nft IN
    /\ \A i \in 1 .. Len(pending) :
         OnNft(pending[i], v) /\ (\A j \in i + 1 .. Len(pending) : ~OnNft(pending[j], v)) =>
           (pending[i].ev = "DepositNft") = there
    /\ (\A i \in 1 .. Len(pending) : ~OnNft(pending[i], v)) => store.vaults[v].nft = there

\* A snapshot has the total of the vaults, its period began with no event of
\* the log before it, and at the end of that period and later the log tells
\* the rest; what is filed away is what the chain had announced.
SnapOK(snap, period, held, log, totals, time) ==
  /\ {"start", "total", "past"} \subseteq DOMAIN snap
  /\ snap.start = -1 \/ \E n \in Nat : snap.start = n * period
  /\ snap.total = held
  /\ snap.start <= time /\ \A i \in 1 .. Len(log) : snap.start <= log[i].time
  /\ \A t \in Times : snap.start + period - 1 <= t =>
       held + Rest("total", CrabVault, log, t) = totals[t]
  /\ \A h \in DOMAIN snap.past : h \in Nat /\ h + period - 1 < time /\ snap.past[h] = totals[h + period - 1]

SnapsOK ==
  /\ SnapOK(store.hour, HOUR, HeldColl(store.vaults), pending, totalAt, now)
  /\ SnapOK(store.day, DAY, HeldColl(store.vaults), pending, totalAt, now)

FollowInv == ChainOK /\ StoreOK(store) /\ LogOK /\ OpenedInOrder /\ Balanced /\ NftFollows /\ SnapsOK

-----------------------------------------------------------------------------
(* The history. *)

Told == {"DEPOSIT_COLLAT", "WITHDRAW_COLLAT", "LIQUIDATE"}
ActionOf(e) == IF e.ev = "DepositCollateral" THEN "DEPOSIT_COLLAT"
               ELSE IF e.ev = "WithdrawCollateral" THEN "WITHDRAW_COLLAT" ELSE "LIQUIDATE"
Signed(history, k) == (IF k[2] = "DEPOSIT_COLLAT" THEN 1 ELSE -1) * history[k].eth
HistoryColl(history, v) ==
  SumOf([k \in DOMAIN history |-> IF history[k].vault = v THEN Signed(history, k) ELSE 0])

\* Every row is of a transaction on the chain; rows of debt alone have no ETH.
RowsOK ==
  /\ IsFiniteSet(DOMAIN store.history)
  /\ \A k \in DOMAIN store.history :
       /\ k[1] \in 0 .. txs /\ store.history[k].eth \in Int
       /\ k[2] \notin Told => store.history[k].eth = 0

\* Unless a transaction repeated an action, what the log tells has no row yet.
RowsFresh ==
  ~batched =>
    /\ \A i \in 1 .. Len(pending) : pending[i].ev \in Moves =>
         /\ <<pending[i].tx, ActionOf(pending[i])>> \notin DOMAIN store.history
         /\ \A j \in 1 .. Len(pending) : pending[j].ev = pending[i].ev /\ pending[j].tx = pending[i].tx => j = i
    /\ \A v \in VaultIds : store.vaults[v].coll = HistoryColl(store.history, v)

HistoryInv == FollowInv /\ RowsOK /\ RowsFresh

-----------------------------------------------------------------------------
(* Logs and what they tell. *)

LEMMA LogIsSeq ==
  ASSUME NEW s, IsLog(s)
  PROVE  \E S : s \in Seq(S)
<1> DEFINE S == {s[i] : i \in 1 .. Len(s)}
<1>1. s \in [1 .. Len(s) -> S]
  BY DEF IsLog
<1>2. s \in Seq(S)
  BY <1>1 DEF IsLog
<1> QED
  BY <1>2

LEMMA LogOfSeq ==
  ASSUME NEW S, NEW s \in Seq(S)
  PROVE  IsLog(s)
BY DEF IsLog

\* The log after the handler of its first event.
LEMMA LogTail ==
  ASSUME NEW s, IsLog(s), s # <<>>
  PROVE  /\ Len(s) \in Nat \ {0} /\ Head(s) = s[1]
         /\ IsLog(Tail(s)) /\ Len(Tail(s)) = Len(s) - 1
         /\ \A i \in 1 .. Len(s) - 1 : Tail(s)[i] = s[i + 1]
<1>1. PICK S : s \in Seq(S)
  BY LogIsSeq
<1>2. Len(s) \in Nat \ {0} /\ Tail(s) \in Seq(S) /\ Len(Tail(s)) = Len(s) - 1
  BY <1>1
<1>3. IsLog(Tail(s))
  BY <1>2, LogOfSeq
<1> QED
  BY <1>1, <1>2, <1>3

\* The log after a transaction.
LEMMA LogConcat ==
  ASSUME NEW s, IsLog(s), NEW t, IsLog(t)
  PROVE  /\ IsLog(s \o t) /\ Len(s \o t) = Len(s) + Len(t)
         /\ \A i \in 1 .. Len(s) : (s \o t)[i] = s[i]
         /\ \A i \in 1 .. Len(t) : (s \o t)[Len(s) + i] = t[i]
<1>1. PICK S : s \in Seq(S)
  BY LogIsSeq
<1>2. PICK T : t \in Seq(T)
  BY LogIsSeq
<1>3. s \in Seq(S \cup T) /\ t \in Seq(S \cup T)
  BY <1>1, <1>2
<1>4. s \o t \in Seq(S \cup T) /\ Len(s \o t) = Len(s) + Len(t)
  BY <1>3
<1>5. IsLog(s \o t)
  BY <1>4, LogOfSeq
<1> QED
  BY <1>3, <1>4, <1>5

LEMMA LogsEqual ==
  ASSUME NEW s, IsLog(s), NEW t, IsLog(t), Len(s) = Len(t), \A i \in 1 .. Len(s) : s[i] = t[i]
  PROVE  s = t
BY DEF IsLog

\* Sums over the positions of a log: without its first, and of two in a row.
LEMMA SumShift ==
  ASSUME NEW n \in Nat, NEW f, NEW g, DOMAIN f = 1 .. n + 1, DOMAIN g = 1 .. n,
         \A i \in 1 .. n + 1 : f[i] \in Int, \A i \in 1 .. n : g[i] = f[i + 1]
  PROVE  SumOf(f) = f[1] + SumOf(g)
<1> DEFINE next == [i \in 1 .. n |-> i + 1]
           all == 1 .. n + 1
           most == 1 .. n
<1>1. IsFiniteSet(all) /\ IsFiniteSet(most) /\ 1 \in all /\ \A i \in all : f[i] \in Int
  BY FS_Interval
<1>2. \A i \in most : f[next[i]] \in Int /\ g[i] = f[next[i]]
  OBVIOUS
<1>3. \A i, j \in most : next[i] = next[j] => i = j
  OBVIOUS
<1>4. ImageOf(next, most) = all \ {1}
  <2>1. \A j \in all \ {1} : j - 1 \in most /\ j = next[j - 1]
    OBVIOUS
  <2>2. \A i \in most : next[i] \in all \ {1}
    OBVIOUS
  <2> HIDE DEF next, all, most
  <2> QED
    BY <2>1, <2>2 DEF ImageOf
<1> HIDE DEF next, all, most
<1>5. SumOver(f, ImageOf(next, most)) = SumOver(g, most)
  BY ONLY <1>1, <1>2, <1>3, SumImage
<1>6. SumOver(f, all) = f[1] + SumOver(f, all \ {1})
  BY ONLY <1>1, SumRemove
<1> QED
  BY <1>4, <1>5, <1>6 DEF SumOf, all, most

Joins(m, n, f, g, h) ==
  /\ m \in Nat /\ n \in Nat
  /\ DOMAIN f = 1 .. m + n /\ DOMAIN g = 1 .. m /\ DOMAIN h = 1 .. n
  /\ \A i \in 1 .. m : f[i] = g[i] /\ g[i] \in Int
  /\ \A i \in 1 .. n : f[m + i] = h[i] /\ h[i] \in Int

LEMMA SumConcat ==
  ASSUME NEW m, NEW n, NEW f, NEW g, NEW h, Joins(m, n, f, g, h)
  PROVE  SumOf(f) = SumOf(g) + SumOf(h)
<1> USE DEF Joins
<1>0. \A i \in 1 .. m + n : f[i] \in Int
  <2> TAKE i \in 1 .. m + n
  <2>1. CASE i \in 1 .. m
    BY <2>1
  <2>2. CASE i - m \in 1 .. n
    <3>1. i = m + (i - m)
      OBVIOUS
    <3>2. f[m + (i - m)] \in Int
      BY <2>2
    <3> QED
      BY <3>1, <3>2
  <2> QED
    BY <2>1, <2>2
<1> DEFINE later == [i \in 1 .. n |-> m + i]
           first == 1 .. m
           second == 1 .. n
           rest == m + 1 .. m + n
<1>1. IsFiniteSet(first) /\ IsFiniteSet(second) /\ IsFiniteSet(rest)
  BY FS_Interval
<1>2. \A i \in first : f[i] = g[i]
  OBVIOUS
<1>3. \A i \in second : f[later[i]] \in Int /\ h[i] = f[later[i]]
  BY <1>0
<1>4. \A i, j \in second : later[i] = later[j] => i = j
  OBVIOUS
<1>5. ImageOf(later, second) = rest
  <2>1. \A j \in rest : j - m \in second /\ j = later[j - m]
    OBVIOUS
  <2>2. \A i \in second : later[i] \in rest
    OBVIOUS
  <2> HIDE DEF later, second, rest
  <2> QED
    BY <2>1, <2>2 DEF ImageOf
<1>6. first \cup rest = 1 .. m + n /\ first \cap rest = {} /\ \A i \in first \cup rest : f[i] \in Int
  BY <1>0
<1> HIDE DEF later, first, second, rest
<1>7. SumOver(f, first) = SumOver(g, first)
  BY ONLY <1>1, <1>2, SumSame
<1>8. SumOver(f, ImageOf(later, second)) = SumOver(h, second)
  BY ONLY <1>1, <1>3, <1>4, SumImage
<1>9. SumOver(f, first \cup rest) = SumOver(f, first) + SumOver(f, rest)
  BY ONLY <1>1, <1>6, SumUnion
<1> QED
  BY <1>5, <1>6, <1>7, <1>8, <1>9 DEF SumOf, first, second

LEMMA EffectIsInt ==
  ASSUME NEW e, Fit(e), NEW kind, NEW v
  PROVE  Effect(kind, v, e) \in Int
BY DEF Fit, Effect, ShortMove, CollMove, SharesMove, OfVaults, Moves, Shorts

\* The rest of a log whose first event is handled.
LEMMA RestOfTail ==
  ASSUME NEW log, IsLog(log), log # <<>>, NEW kind, NEW v, NEW t,
         \A i \in 1 .. Len(log) : Fit(log[i])
  PROVE  /\ Rest(kind, v, log, t) =
              (IF log[1].time <= t THEN Effect(kind, v, log[1]) ELSE 0) + Rest(kind, v, Tail(log), t)
         /\ Rest(kind, v, Tail(log), t) \in Int
<1> DEFINE part(s) == [i \in 1 .. Len(s) |-> IF s[i].time <= t THEN Effect(kind, v, s[i]) ELSE 0]
<1>1. /\ Len(log) \in Nat \ {0} /\ Len(Tail(log)) = Len(log) - 1
      /\ \A i \in 1 .. Len(log) - 1 : Tail(log)[i] = log[i + 1]
  BY LogTail
<1>a. Rest(kind, v, log, t) = SumOf(part(log)) /\ Rest(kind, v, Tail(log), t) = SumOf(part(Tail(log)))
  BY DEF Rest
<1>2. PICK n \in Nat : Len(log) = n + 1 /\ Len(Tail(log)) = n
  <2>1. Len(log) - 1 \in Nat /\ Len(log) = (Len(log) - 1) + 1
    BY <1>1
  <2> QED
    BY <1>1, <2>1
<1>3. \A i \in 1 .. Len(log) : Effect(kind, v, log[i]) \in Int
  BY EffectIsInt
<1>4. /\ DOMAIN part(log) = 1 .. n + 1 /\ DOMAIN part(Tail(log)) = 1 .. n
      /\ \A i \in 1 .. n + 1 : part(log)[i] \in Int
      /\ \A i \in 1 .. n : part(Tail(log))[i] = part(log)[i + 1] /\ part(Tail(log))[i] \in Int
  BY <1>1, <1>2, <1>3
<1>5. part(log)[1] = (IF log[1].time <= t THEN Effect(kind, v, log[1]) ELSE 0)
  BY <1>1
<1> HIDE DEF part
<1>6. SumOf(part(log)) = part(log)[1] + SumOf(part(Tail(log)))
  BY <1>4, SumShift
<1>7. SumOf(part(Tail(log))) \in Int
  BY <1>4, FS_Interval, SumInt DEF SumOf
<1> QED
  BY <1>a, <1>5, <1>6, <1>7

\* No event up to t, nothing to tell.
LEMMA RestOfLater ==
  ASSUME NEW log, IsLog(log), NEW kind, NEW v, NEW t, \A i \in 1 .. Len(log) : ~(log[i].time <= t)
  PROVE  Rest(kind, v, log, t) = 0
<1> DEFINE part == [i \in 1 .. Len(log) |-> IF log[i].time <= t THEN Effect(kind, v, log[i]) ELSE 0]
<1>1. \A i \in 1 .. Len(log) : part[i] = 0
  OBVIOUS
<1>2. IsFiniteSet(1 .. Len(log))
  BY FS_Interval DEF IsLog
<1> HIDE DEF part
<1>3. SumOver(part, 1 .. Len(log)) = 0
  BY <1>1, <1>2, SumZero
<1> QED
  BY <1>3 DEF Rest, SumOf, part

\* A log tells as much up to any time none of its events is after.
LEMMA RestOfAll ==
  ASSUME NEW log, IsLog(log), NEW kind, NEW v, NEW t, NEW r,
         \A i \in 1 .. Len(log) : log[i].time <= t /\ log[i].time <= r
  PROVE  Rest(kind, v, log, t) = Rest(kind, v, log, r)
<1>1. [i \in 1 .. Len(log) |-> IF log[i].time <= t THEN Effect(kind, v, log[i]) ELSE 0]
        = [i \in 1 .. Len(log) |-> IF log[i].time <= r THEN Effect(kind, v, log[i]) ELSE 0]
  OBVIOUS
<1> QED
  BY <1>1 DEF Rest

-----------------------------------------------------------------------------
(* The events of a transaction. *)

\* As a contract emits it, before the log adds where and when.
Raw(e) == Fit(e) /\ {"tx", "time"} \cap DOMAIN e = {}

\* What moves a total: short and collateral of vault w, and shares.
Shift(kind, v, w, short, coll, shares) ==
  IF kind = "short" THEN IF v = w THEN short ELSE 0
  ELSE IF kind = "coll" THEN IF v = w THEN coll ELSE 0
  ELSE IF kind = "total" THEN coll ELSE shares

OnVaultNames == {"NormUpdated", "MintShort", "BurnShort", "DepositCollateral", "WithdrawCollateral",
                 "DepositNft", "WithdrawNft", "ReduceDebt", "RedeemShort"}

LEMMA OnVaultIsRaw ==
  ASSUME NEW name \in OnVaultNames, NEW w \in VaultIds, NEW who, NEW a \in Int
  PROVE  /\ Raw(OnVault(name, w, who, a))
         /\ OnVault(name, w, who, a).ev = name /\ OnVault(name, w, who, a).vault = w
         /\ OnVault(name, w, who, a).amount = a
<1> DEFINE e == OnVault(name, w, who, a)
<1>1. /\ DOMAIN e = {"ev", "vault", "sender", "amount"}
      /\ e.ev = name /\ e.vault = w /\ e.amount = a
  BY DEF OnVault, Event, With
<1> HIDE DEF e
<1>2. Raw(e)
  BY <1>1 DEF Raw, Fit, OnVaultNames, OfVaults, Moves, Shorts, NftMoves
<1> QED
  BY <1>1, <1>2 DEF e

LEMMA OnVaultMoves ==
  ASSUME NEW name \in OnVaultNames, NEW w \in VaultIds, NEW who, NEW a \in Int, NEW kind \in Kinds, NEW v
  PROVE  Effect(kind, v, OnVault(name, w, who, a)) =
           Shift(kind, v, w,
                 IF name = "MintShort" THEN a ELSE IF name = "BurnShort" THEN -a ELSE 0,
                 IF name = "DepositCollateral" THEN a ELSE IF name = "WithdrawCollateral" THEN -a ELSE 0, 0)
<1>1. /\ OnVault(name, w, who, a).ev = name /\ OnVault(name, w, who, a).vault = w
      /\ OnVault(name, w, who, a).amount = a
  BY OnVaultIsRaw
<1> QED
  BY <1>1 DEF Effect, Shift, ShortMove, CollMove, SharesMove, Shorts, Moves, OnVaultNames, Kinds

LEMMA CrabSharesMove ==
  ASSUME NEW src, NEW dst, NEW a \in Int, NEW kind \in Kinds, NEW v, NEW w
  PROVE  /\ Raw(CrabShares(src, dst, a))
         /\ CrabShares(src, dst, a).ev = "CrabTransfer"
         /\ Effect(kind, v, CrabShares(src, dst, a)) =
              Shift(kind, v, w, 0, 0, IF src = Zero THEN a ELSE IF dst = Zero THEN -a ELSE 0)
<1> DEFINE e == CrabShares(src, dst, a)
<1>1. /\ DOMAIN e = {"ev", "src", "dst", "amount"}
      /\ e.ev = "CrabTransfer" /\ e.src = src /\ e.dst = dst /\ e.amount = a
  BY DEF CrabShares, Event, With
<1> HIDE DEF e
<1>2. Raw(e)
  BY <1>1 DEF Raw, Fit, OfVaults, Moves, Shorts, NftMoves
<1>3. Effect(kind, v, e) = Shift(kind, v, w, 0, 0, IF src = Zero THEN a ELSE IF dst = Zero THEN -a ELSE 0)
  BY <1>1 DEF Effect, Shift, ShortMove, CollMove, SharesMove, Shorts, Moves, Kinds
<1> QED
  BY <1>1, <1>2, <1>3 DEF e

LEMMA OpenVaultMoves ==
  ASSUME NEW w \in VaultIds, NEW kind \in Kinds, NEW v
  PROVE  LET e == Event("OpenVault", [vault |-> w]) IN
         Raw(e) /\ e.ev = "OpenVault" /\ e.vault = w /\ Effect(kind, v, e) = 0
<1> DEFINE e == Event("OpenVault", [vault |-> w])
<1>1. DOMAIN e = {"ev", "vault"} /\ e.ev = "OpenVault" /\ e.vault = w
  BY DEF Event, With
<1> HIDE DEF e
<1>2. Raw(e)
  BY <1>1 DEF Raw, Fit, OfVaults, Moves, Shorts, NftMoves
<1>3. Effect(kind, v, e) = 0
  BY <1>1 DEF Effect, ShortMove, CollMove, SharesMove, Shorts, Moves
<1> QED
  BY <1>1, <1>2, <1>3 DEF e

LEMMA LiquidateMoves ==
  ASSUME NEW w \in VaultIds, NEW debt \in Int, NEW paid \in Int, NEW kind \in Kinds, NEW v
  PROVE  LET e == Event("Liquidate", [vault |-> w, debt |-> debt, paid |-> paid]) IN
         /\ Raw(e) /\ e.ev = "Liquidate" /\ e.vault = w
         /\ Effect(kind, v, e) = Shift(kind, v, w, -debt, -paid, 0)
<1> DEFINE e == Event("Liquidate", [vault |-> w, debt |-> debt, paid |-> paid])
<1>1. /\ DOMAIN e = {"ev", "vault", "debt", "paid"} /\ e.ev = "Liquidate" /\ e.vault = w
      /\ e.debt = debt /\ e.paid = paid
  BY DEF Event, With
<1> HIDE DEF e
<1>2. Raw(e)
  BY <1>1 DEF Raw, Fit, OfVaults, Moves, Shorts, NftMoves
<1>3. Effect(kind, v, e) = Shift(kind, v, w, -debt, -paid, 0)
  BY <1>1 DEF Effect, Shift, ShortMove, CollMove, SharesMove, Shorts, Moves, Kinds
<1> QED
  BY <1>1, <1>2, <1>3 DEF e

\* Events that move nothing: neither an amount of a vault nor a share.
Mute(e) == Raw(e) /\ e.ev \notin Telling
Quiets(events) == IsLog(events) /\ \A i \in 1 .. Len(events) : Mute(events[i])

LEMMA EventIsQuiet ==
  ASSUME NEW name, name \notin Telling, NEW fields, {"tx", "time"} \cap DOMAIN fields = {}
  PROVE  Mute(Event(name, fields))
<1> DEFINE e == Event(name, fields)
<1>1. "ev" \in DOMAIN e /\ e.ev = name /\ {"tx", "time"} \cap DOMAIN e = {}
  BY DEF Event, With
<1> HIDE DEF e
<1>2. Mute(e)
  BY <1>1 DEF Mute, Raw, Fit, Telling, OfVaults, Moves, Shorts, NftMoves
<1> QED
  BY <1>2 DEF e

LEMMA QuietMovesNothing ==
  ASSUME NEW e, e.ev \notin Telling, NEW kind, NEW v
  PROVE  Effect(kind, v, e) = 0
BY DEF Effect, ShortMove, CollMove, SharesMove, Telling, OfVaults, Moves, Shorts

\* What a log tells of the transactions that are behind it.
LEMMA Stamped ==
  ASSUME NEW e, Raw(e), NEW stamp, DOMAIN stamp = {"tx", "log", "from", "value", "time"}
  PROVE  LET f == With(e, stamp) IN
         /\ Fit(f) /\ {"tx", "time"} \subseteq DOMAIN f
         /\ f.ev = e.ev /\ f.tx = stamp.tx /\ f.time = stamp.time
         /\ e.ev \in OfVaults => f.vault = e.vault
         /\ \A kind, v : Effect(kind, v, f) = Effect(kind, v, e)
<1> DEFINE f == With(e, stamp)
<1>1. /\ DOMAIN e \subseteq DOMAIN f /\ {"tx", "time"} \subseteq DOMAIN f
      /\ \A x \in DOMAIN e : f[x] = e[x]
      /\ f.tx = stamp.tx /\ f.time = stamp.time
  BY DEF Raw, With
<1> HIDE DEF f
<1>2. "ev" \in DOMAIN e /\ f.ev = e.ev
  BY <1>1 DEF Raw, Fit
<1>3. e.ev \in OfVaults => "vault" \in DOMAIN e /\ f.vault = e.vault
  BY <1>1 DEF Raw, Fit
<1>4. e.ev \in (Moves \cup Shorts) \ {"Liquidate"} => "amount" \in DOMAIN e /\ f.amount = e.amount
  BY <1>1 DEF Raw, Fit
<1>5. e.ev = "Liquidate" => {"debt", "paid"} \subseteq DOMAIN e /\ f.debt = e.debt /\ f.paid = e.paid
  BY <1>1 DEF Raw, Fit
<1>6. e.ev = "CrabTransfer" =>
        {"src", "dst", "amount"} \subseteq DOMAIN e /\ f.src = e.src /\ f.dst = e.dst /\ f.amount = e.amount
  BY <1>1 DEF Raw, Fit
<1>7. Fit(f)
  BY <1>1, <1>2, <1>3, <1>4, <1>5, <1>6 DEF Raw, Fit
<1>8. ShortMove(f) = ShortMove(e) /\ CollMove(f) = CollMove(e) /\ SharesMove(f) = SharesMove(e)
  BY <1>2, <1>4, <1>5, <1>6 DEF ShortMove, CollMove, SharesMove, Moves, Shorts
<1>9. \A kind, v : Effect(kind, v, f) = Effect(kind, v, e)
  BY <1>2, <1>3, <1>8 DEF Effect, OfVaults
<1> QED
  BY <1>1, <1>2, <1>3, <1>7, <1>9 DEF f

Raws(events) == IsLog(events) /\ \A i \in 1 .. Len(events) : Raw(events[i])

LEMMA RawEffects ==
  ASSUME NEW e, Raw(e), NEW kind, NEW v
  PROVE  Effect(kind, v, e) \in Int
BY EffectIsInt DEF Raw

LEMMA EffectsInt ==
  ASSUME NEW events, Raws(events), NEW kind, NEW v
  PROVE  Effects(kind, v, events) \in Int
<1> DEFINE f == [i \in 1 .. Len(events) |-> Effect(kind, v, events[i])]
<1>1. \A i \in 1 .. Len(events) : f[i] \in Int
  BY RawEffects DEF Raws
<1>2. IsFiniteSet(1 .. Len(events))
  BY FS_Interval DEF Raws, IsLog
<1>3. DOMAIN f = 1 .. Len(events)
  OBVIOUS
<1> HIDE DEF f
<1>4. SumOver(f, 1 .. Len(events)) \in Int
  BY ONLY <1>1, <1>2, SumInt
<1> QED
  BY <1>3, <1>4 DEF Effects, SumOf, f

LEMMA EffectsConcat ==
  ASSUME NEW s, Raws(s), NEW t, Raws(t), NEW kind, NEW v
  PROVE  Raws(s \o t) /\ Effects(kind, v, s \o t) = Effects(kind, v, s) + Effects(kind, v, t)
<1> DEFINE part(l) == [i \in 1 .. Len(l) |-> Effect(kind, v, l[i])]
<1>1. /\ IsLog(s \o t) /\ Len(s \o t) = Len(s) + Len(t)
      /\ \A i \in 1 .. Len(s) : (s \o t)[i] = s[i]
      /\ \A i \in 1 .. Len(t) : (s \o t)[Len(s) + i] = t[i]
  BY LogConcat DEF Raws
<1>2. Len(s) \in Nat /\ Len(t) \in Nat
  BY DEF Raws, IsLog
<1>3. \A i \in 1 .. Len(s) + Len(t) : Raw((s \o t)[i])
  <2> TAKE i \in 1 .. Len(s) + Len(t)
  <2>1. CASE i \in 1 .. Len(s)
    BY <1>1, <2>1 DEF Raws
  <2>2. CASE i - Len(s) \in 1 .. Len(t)
    <3>1. i = Len(s) + (i - Len(s))
      BY <1>2
    <3>2. (s \o t)[i] = t[i - Len(s)]
      BY <1>1, <2>2, <3>1
    <3> QED
      BY <2>2, <3>2 DEF Raws
  <2> QED
    BY <1>2, <2>1, <2>2
<1>4. Raws(s \o t)
  BY <1>1, <1>3 DEF Raws
<1>5. \A i \in 1 .. Len(s) : part(s \o t)[i] = part(s)[i] /\ part(s)[i] \in Int
  BY <1>1, <1>2, RawEffects DEF Raws
<1>6. \A i \in 1 .. Len(t) : part(s \o t)[Len(s) + i] = part(t)[i] /\ part(t)[i] \in Int
  BY <1>1, <1>2, RawEffects DEF Raws
<1>7. DOMAIN part(s \o t) = 1 .. Len(s) + Len(t) /\ DOMAIN part(s) = 1 .. Len(s) /\ DOMAIN part(t) = 1 .. Len(t)
  BY <1>1
<1> HIDE DEF part
<1>8. Joins(Len(s), Len(t), part(s \o t), part(s), part(t))
  BY <1>2, <1>5, <1>6, <1>7 DEF Joins
<1>9. \A l : Effects(kind, v, l) = SumOf(part(l))
  BY DEF Effects, part
<1>10. SumOf(part(s \o t)) = SumOf(part(s)) + SumOf(part(t))
  BY <1>8, SumConcat
<1> QED
  BY <1>4, <1>9, <1>10

LEMMA EffectsOne ==
  ASSUME NEW e, Raw(e), NEW kind, NEW v
  PROVE  /\ Raws(<<e>>) /\ Len(<<e>>) = 1 /\ <<e>>[1] = e
         /\ Effects(kind, v, <<e>>) = Effect(kind, v, e)
<1> DEFINE f == [i \in 1 .. Len(<<e>>) |-> Effect(kind, v, <<e>>[i])]
<1>1. Raws(<<e>>)
  BY DEF Raws, IsLog
<1>2. DOMAIN f = {1} /\ f[1] = Effect(kind, v, e) /\ f[1] \in Int
  BY RawEffects
<1>3. Effects(kind, v, <<e>>) = SumOf(f)
  BY DEF Effects
<1> HIDE DEF f
<1>4. SumOver(f, {} \cup {1}) = f[1] + SumOver(f, {})
  BY <1>2, SumAdd, FS_EmptySet
<1>5. {} \cup {1} = {1} /\ SumOver(f, {}) = 0
  BY SumEmpty
<1> QED
  BY <1>1, <1>2, <1>3, <1>4, <1>5 DEF SumOf

LEMMA TwoJoin == ASSUME NEW a, NEW b PROVE <<a>> \o <<b>> = <<a, b>>
<1>1. /\ IsLog(<<a>>) /\ IsLog(<<b>>) /\ IsLog(<<a, b>>)
      /\ Len(<<a>>) = 1 /\ Len(<<b>>) = 1 /\ Len(<<a, b>>) = 2
  BY DEF IsLog
<1>2. IsLog(<<a>> \o <<b>>) /\ Len(<<a>> \o <<b>>) = 2
  BY <1>1, LogConcat
<1>3. \A i \in 1 .. 1 : (<<a>> \o <<b>>)[i] = <<a>>[i]
  BY <1>1, LogConcat
<1>4. \A i \in 1 .. 1 : (<<a>> \o <<b>>)[1 + i] = <<b>>[i]
  BY <1>1, LogConcat
<1>5. (<<a>> \o <<b>>)[1] = a
  BY <1>3, 1 \in 1 .. 1
<1>6. (<<a>> \o <<b>>)[2] = b
  BY <1>4, 1 \in 1 .. 1, 2 = 1 + 1
<1>7. \A i \in 1 .. 2 : (<<a>> \o <<b>>)[i] = <<a, b>>[i]
  <2> TAKE i \in 1 .. 2
  <2>1. i = 1 \/ i = 2
    OBVIOUS
  <2> QED
    BY <2>1, <1>5, <1>6
<1> QED
  BY <1>1, <1>2, <1>7, LogsEqual

LEMMA EffectsTwo ==
  ASSUME NEW a, Raw(a), NEW b, Raw(b), NEW kind, NEW v
  PROVE  /\ Raws(<<a, b>>)
         /\ Effects(kind, v, <<a, b>>) = Effect(kind, v, a) + Effect(kind, v, b)
<1>1. <<a>> \o <<b>> = <<a, b>>
  BY TwoJoin
<1>2. Raws(<<a>>) /\ Raws(<<b>>)
  BY EffectsOne
<1>3. Raws(<<a>> \o <<b>>) /\ Effects(kind, v, <<a>> \o <<b>>) = Effects(kind, v, <<a>>) + Effects(kind, v, <<b>>)
  BY <1>2, EffectsConcat
<1> QED
  BY <1>1, <1>3, EffectsOne

LEMMA EffectsThree ==
  ASSUME NEW a, Raw(a), NEW b, Raw(b), NEW c, Raw(c), NEW kind, NEW v
  PROVE  /\ Raws(<<a, b, c>>)
         /\ Effects(kind, v, <<a, b, c>>) = Effect(kind, v, a) + Effect(kind, v, b) + Effect(kind, v, c)
<1>1. <<a, b>> \o <<c>> = <<a, b, c>>
  <2>1. /\ IsLog(<<a, b>>) /\ IsLog(<<c>>) /\ IsLog(<<a, b, c>>)
        /\ Len(<<a, b>>) = 2 /\ Len(<<c>>) = 1 /\ Len(<<a, b, c>>) = 3
    BY DEF IsLog
  <2>2. IsLog(<<a, b>> \o <<c>>) /\ Len(<<a, b>> \o <<c>>) = 3
    BY <2>1, LogConcat
  <2>3. \A i \in 1 .. 2 : (<<a, b>> \o <<c>>)[i] = <<a, b>>[i]
    BY <2>1, LogConcat
  <2>4. \A i \in 1 .. 1 : (<<a, b>> \o <<c>>)[2 + i] = <<c>>[i]
    BY <2>1, LogConcat
  <2>5. (<<a, b>> \o <<c>>)[1] = a
    BY <2>3, 1 \in 1 .. 2
  <2>6. (<<a, b>> \o <<c>>)[2] = b
    BY <2>3, 2 \in 1 .. 2
  <2>7. (<<a, b>> \o <<c>>)[3] = c
    BY <2>4, 1 \in 1 .. 1, 3 = 2 + 1
  <2>8. \A i \in 1 .. 3 : (<<a, b>> \o <<c>>)[i] = <<a, b, c>>[i]
    <3> TAKE i \in 1 .. 3
    <3>1. i = 1 \/ i = 2 \/ i = 3
      OBVIOUS
    <3> QED
      BY <3>1, <2>5, <2>6, <2>7
  <2> QED
    BY <2>1, <2>2, <2>8, LogsEqual
<1>2. Raws(<<a, b>>) /\ Raws(<<c>>)
  BY EffectsOne, EffectsTwo
<1>3. /\ Raws(<<a, b>> \o <<c>>)
      /\ Effects(kind, v, <<a, b>> \o <<c>>) = Effects(kind, v, <<a, b>>) + Effects(kind, v, <<c>>)
  BY <1>2, EffectsConcat
<1>4. Effects(kind, v, <<a, b>>) = Effect(kind, v, a) + Effect(kind, v, b) /\ Effects(kind, v, <<c>>) = Effect(kind, v, c)
  BY EffectsOne, EffectsTwo
<1> QED
  BY <1>1, <1>3, <1>4

LEMMA EffectsFour ==
  ASSUME NEW a, Raw(a), NEW b, Raw(b), NEW c, Raw(c), NEW d, Raw(d), NEW kind, NEW v
  PROVE  /\ Raws(<<a, b, c, d>>)
         /\ Effects(kind, v, <<a, b, c, d>>) =
              Effect(kind, v, a) + Effect(kind, v, b) + Effect(kind, v, c) + Effect(kind, v, d)
<1>1. <<a, b>> \o <<c, d>> = <<a, b, c, d>>
  <2>1. /\ IsLog(<<a, b>>) /\ IsLog(<<c, d>>) /\ IsLog(<<a, b, c, d>>)
        /\ Len(<<a, b>>) = 2 /\ Len(<<c, d>>) = 2 /\ Len(<<a, b, c, d>>) = 4
    BY DEF IsLog
  <2>2. IsLog(<<a, b>> \o <<c, d>>) /\ Len(<<a, b>> \o <<c, d>>) = 4
    BY <2>1, LogConcat
  <2>3. \A i \in 1 .. 2 : (<<a, b>> \o <<c, d>>)[i] = <<a, b>>[i]
    BY <2>1, LogConcat
  <2>4. \A i \in 1 .. 2 : (<<a, b>> \o <<c, d>>)[2 + i] = <<c, d>>[i]
    BY <2>1, LogConcat
  <2>5. (<<a, b>> \o <<c, d>>)[1] = a
    BY <2>3, 1 \in 1 .. 2
  <2>6. (<<a, b>> \o <<c, d>>)[2] = b
    BY <2>3, 2 \in 1 .. 2
  <2>7. (<<a, b>> \o <<c, d>>)[3] = c
    BY <2>4, 1 \in 1 .. 2, 3 = 2 + 1
  <2>8. (<<a, b>> \o <<c, d>>)[4] = d
    BY <2>4, 2 \in 1 .. 2, 4 = 2 + 2
  <2>9. \A i \in 1 .. 4 : (<<a, b>> \o <<c, d>>)[i] = <<a, b, c, d>>[i]
    <3> TAKE i \in 1 .. 4
    <3>1. i = 1 \/ i = 2 \/ i = 3 \/ i = 4
      OBVIOUS
    <3> QED
      BY <3>1, <2>5, <2>6, <2>7, <2>8
  <2> QED
    BY <2>1, <2>2, <2>9, LogsEqual
<1>2. /\ Effect(kind, v, a) \in Int /\ Effect(kind, v, b) \in Int
      /\ Effect(kind, v, c) \in Int /\ Effect(kind, v, d) \in Int
  BY RawEffects
<1>3. Raws(<<a, b>>) /\ Raws(<<c, d>>)
  BY EffectsTwo
<1>4. /\ Raws(<<a, b>> \o <<c, d>>)
      /\ Effects(kind, v, <<a, b>> \o <<c, d>>) = Effects(kind, v, <<a, b>>) + Effects(kind, v, <<c, d>>)
  BY <1>3, EffectsConcat
<1>5. /\ Effects(kind, v, <<a, b>>) = Effect(kind, v, a) + Effect(kind, v, b)
      /\ Effects(kind, v, <<c, d>>) = Effect(kind, v, c) + Effect(kind, v, d)
  BY EffectsTwo
<1>6. /\ Raws(<<a, b, c, d>>)
      /\ Effects(kind, v, <<a, b, c, d>>) = Effects(kind, v, <<a, b>>) + Effects(kind, v, <<c, d>>)
  BY <1>1, <1>4
<1> DEFINE x == Effects(kind, v, <<a, b>>)
           y == Effects(kind, v, <<c, d>>)
           z == Effects(kind, v, <<a, b, c, d>>)
<1>7. z = x + y /\ x = Effect(kind, v, a) + Effect(kind, v, b) /\ y = Effect(kind, v, c) + Effect(kind, v, d)
  BY <1>5, <1>6
<1> HIDE DEF x, y, z
<1>8. z = Effect(kind, v, a) + Effect(kind, v, b) + Effect(kind, v, c) + Effect(kind, v, d)
  BY <1>2, <1>7
<1> QED
  BY <1>6, <1>8 DEF z

LEMMA QuietsMoveNothing ==
  ASSUME NEW events, Quiets(events), NEW kind, NEW v
  PROVE  Raws(events) /\ Effects(kind, v, events) = 0
<1> DEFINE f == [i \in 1 .. Len(events) |-> Effect(kind, v, events[i])]
<1>1. \A i \in 1 .. Len(events) : f[i] = 0
  BY QuietMovesNothing DEF Quiets, Mute
<1>2. IsFiniteSet(1 .. Len(events)) /\ DOMAIN f = 1 .. Len(events)
  BY FS_Interval DEF Quiets, IsLog
<1>3. Effects(kind, v, events) = SumOf(f)
  BY DEF Effects
<1> HIDE DEF f
<1>4. SumOver(f, 1 .. Len(events)) = 0
  BY ONLY <1>1, <1>2, SumZero
<1> QED
  BY <1>2, <1>3, <1>4 DEF SumOf, Quiets, Mute, Raws

\* The log after a transaction: as it was, then the events, of that
\* transaction and that time.
LEMMA Mined ==
  ASSUME NEW from, NEW value, NEW events, Mine(from, value, events), Raws(events), IsLog(pending),
         \A i \in 1 .. Len(pending) : Fit(pending[i])
  PROVE  /\ IsLog(pending') /\ Len(pending') = Len(pending) + Len(events)
         /\ \A i \in 1 .. Len(pending) : pending'[i] = pending[i]
         /\ \A i \in 1 .. Len(events) :
              /\ Fit(pending'[Len(pending) + i]) /\ {"tx", "time"} \subseteq DOMAIN pending'[Len(pending) + i]
              /\ pending'[Len(pending) + i].ev = events[i].ev
              /\ pending'[Len(pending) + i].tx = txs' /\ pending'[Len(pending) + i].time = now'
              /\ events[i].ev \in OfVaults => pending'[Len(pending) + i].vault = events[i].vault
         /\ \A kind, v, t : Rest(kind, v, pending', t) =
              Rest(kind, v, pending, t) + (IF now' <= t THEN Effects(kind, v, events) ELSE 0)
         /\ \A kind, v, t : Rest(kind, v, pending, t) \in Int
<1> DEFINE stamp(i) == [tx |-> txs', log |-> i, from |-> from, value |-> value, time |-> now']
           new == [i \in DOMAIN events |-> With(events[i], stamp(i))]
<1>1. Len(events) \in Nat /\ DOMAIN events = 1 .. Len(events) /\ Len(pending) \in Nat
  BY DEF Raws, IsLog
<1>2. DOMAIN new = 1 .. Len(events) /\ Len(new) = Len(events) /\ IsLog(new)
  BY <1>1 DEF IsLog
<1>3. pending' = pending \o new
  BY DEF Mine
<1>4. ASSUME NEW i \in 1 .. Len(events)
      PROVE  /\ Fit(new[i]) /\ {"tx", "time"} \subseteq DOMAIN new[i]
             /\ new[i].ev = events[i].ev /\ new[i].tx = txs' /\ new[i].time = now'
             /\ events[i].ev \in OfVaults => new[i].vault = events[i].vault
             /\ \A kind, v : Effect(kind, v, new[i]) = Effect(kind, v, events[i])
  <2>1. DOMAIN stamp(i) = {"tx", "log", "from", "value", "time"} /\ stamp(i).tx = txs' /\ stamp(i).time = now'
    OBVIOUS
  <2>2. Raw(events[i]) /\ new[i] = With(events[i], stamp(i))
    BY <1>1 DEF Raws
  <2> HIDE DEF stamp, new
  <2> QED
    BY <2>1, <2>2, Stamped
<1> HIDE DEF new
<1>5. /\ IsLog(pending') /\ Len(pending') = Len(pending) + Len(events)
      /\ \A i \in 1 .. Len(pending) : pending'[i] = pending[i]
      /\ \A i \in 1 .. Len(events) : pending'[Len(pending) + i] = new[i]
  <2>1. IsLog(pending \o new) /\ Len(pending \o new) = Len(pending) + Len(new)
    BY <1>2, LogConcat
  <2>2. \A i \in 1 .. Len(pending) : (pending \o new)[i] = pending[i]
    BY <1>2, LogConcat
  <2>3. \A i \in 1 .. Len(new) : (pending \o new)[Len(pending) + i] = new[i]
    BY <1>2, LogConcat
  <2> QED
    BY <1>2, <1>3, <2>1, <2>2, <2>3
<1>6. ASSUME NEW kind, NEW v, NEW t
      PROVE  /\ Rest(kind, v, pending', t) =
                  Rest(kind, v, pending, t) + (IF now' <= t THEN Effects(kind, v, events) ELSE 0)
             /\ Rest(kind, v, pending, t) \in Int
  <2> DEFINE part(l) == [i \in 1 .. Len(l) |-> IF l[i].time <= t THEN Effect(kind, v, l[i]) ELSE 0]
  <2>1. \A l : Rest(kind, v, l, t) = SumOf(part(l))
    BY DEF Rest
  <2>2. \A i \in 1 .. Len(events) : part(new)[i] = (IF now' <= t THEN Effect(kind, v, events[i]) ELSE 0)
    BY <1>2, <1>4
  <2>3. \A i \in 1 .. Len(pending) : part(pending')[i] = part(pending)[i] /\ part(pending)[i] \in Int
    BY <1>1, <1>5, EffectIsInt
  <2>4. \A i \in 1 .. Len(events) : part(pending')[Len(pending) + i] = part(new)[i] /\ part(new)[i] \in Int
    BY <1>1, <1>2, <1>4, <1>5, EffectIsInt
  <2>6. /\ DOMAIN part(pending') = 1 .. Len(pending) + Len(events)
        /\ DOMAIN part(pending) = 1 .. Len(pending) /\ DOMAIN part(new) = 1 .. Len(events)
    BY <1>2, <1>5
  <2> HIDE DEF part
  <2>5. Joins(Len(pending), Len(events), part(pending'), part(pending), part(new))
    BY <1>1, <2>3, <2>4, <2>6 DEF Joins
  <2>7. SumOf(part(pending')) = SumOf(part(pending)) + SumOf(part(new))
    BY <2>5, SumConcat
  <2>8. SumOf(part(new)) = IF now' <= t THEN Effects(kind, v, events) ELSE 0
    <3>1. CASE now' <= t
      <4>1. part(new) = [i \in 1 .. Len(events) |-> Effect(kind, v, events[i])]
        <5>1. \A i \in 1 .. Len(events) : part(new)[i] = Effect(kind, v, events[i])
          BY <2>2, <3>1
        <5>2. part(new) = [i \in 1 .. Len(events) |-> part(new)[i]]
          BY <1>2 DEF part
        <5> QED
          BY <5>1, <5>2
      <4> QED
        BY <3>1, <4>1 DEF Effects
    <3>2. CASE ~(now' <= t)
      <4>1. \A i \in 1 .. Len(events) : part(new)[i] = 0
        BY <2>2, <3>2
      <4>2. SumOver(part(new), 1 .. Len(events)) = 0
        <5>1. IsFiniteSet(1 .. Len(events))
          BY <1>1, FS_Interval
        <5> QED
          BY ONLY <4>1, <5>1, SumZero
      <4> QED
        BY <2>6, <3>2, <4>2 DEF SumOf
    <3> QED
      BY <3>1, <3>2
  <2>9. SumOf(part(pending)) \in Int
    <3>1. IsFiniteSet(1 .. Len(pending))
      BY <1>1, FS_Interval
    <3> QED
      BY <3>1, <2>3, <2>6, SumInt DEF SumOf
  <2> QED
    BY <2>1, <2>7, <2>8, <2>9
<1> QED
  BY <1>4, <1>5, <1>6

-----------------------------------------------------------------------------
(* A transaction keeps the invariant. *)

There(v) == onchain[v].nft \/ unseen[v].nft

\* What a transaction of the chain is to the log: what its events tell is
\* what changed; it opens a vault with its first event; its one event on a
\* position tells the truth; it repeats no action, or is known to.
\* The k-th event opens vault v, and is the first that is about it.
OpensAt(events, k, v) ==
  /\ Opens(events[k], v)
  /\ \A i \in 1 .. Len(events) : i # k => ~Opens(events[i], v)
  /\ \A i \in 1 .. Len(events) : i < k => ~On(events[i], v)

Transaction(events) ==
  /\ Raws(events)
  /\ onchain' \in [VaultIds -> VaultRow] /\ unseen' \in [VaultIds -> VaultRow]
  /\ supply' \in Int /\ batched' \in BOOLEAN
  /\ \A v \in VaultIds :
       /\ ~onchain'[v].open => onchain'[v] = None /\ unseen'[v] = Empty
       /\ ~(onchain'[v].nft /\ unseen'[v].nft)
       /\ onchain[v].open => onchain'[v].open
  /\ \A kind \in Kinds, v \in VaultIds :
       Truth(kind, v, onchain', unseen', supply') =
         Truth(kind, v, onchain, unseen, supply) + Effects(kind, v, events)
  /\ \A v \in VaultIds :
       \/ /\ ~onchain[v].open /\ onchain'[v].open
          /\ \E k \in 1 .. Len(events) : OpensAt(events, k, v)
       \/ /\ onchain'[v].open = onchain[v].open
          /\ \A i \in 1 .. Len(events) : ~Opens(events[i], v) /\ (On(events[i], v) => onchain[v].open)
  /\ \A v \in VaultIds :
       \/ Len(events) = 1 /\ OnNft(events[1], v) /\ (events[1].ev = "DepositNft") = There(v)'
       \/ There(v)' = There(v) /\ \A i \in 1 .. Len(events) : ~OnNft(events[i], v)
  /\ batched => batched'
  /\ ~batched' => \A i, j \in 1 .. Len(events) : events[i].ev \in Moves /\ events[j].ev = events[i].ev => i = j

LEMMA VaultsAreFinite == IsFiniteSet(VaultIds)
<1>1. IsFiniteSet(UserVaults \cup {CrabVault})
  BY SubgraphAssumption, FS_AddElement
<1>2. IsFiniteSet((UserVaults \cup {CrabVault}) \cup {V1Vault})
  BY <1>1, FS_AddElement
<1>3. (UserVaults \cup {CrabVault}) \cup {V1Vault} = VaultIds
  BY DEF VaultIds
<1> QED
  BY <1>2, <1>3

LEMMA AnnouncedInt ==
  ASSUME NEW vaults \in [VaultIds -> VaultRow], NEW gone \in [VaultIds -> VaultRow]
  PROVE  Announced(vaults, gone) \in Int
<1> DEFINE f == [v \in VaultIds |-> vaults[v].coll + gone[v].coll]
<1>1. \A v \in VaultIds : f[v] \in Int
  BY DEF VaultRow
<1>2. DOMAIN f = VaultIds
  OBVIOUS
<1> HIDE DEF f
<1>3. SumOver(f, VaultIds) \in Int
  BY <1>1, VaultsAreFinite, SumInt
<1> QED
  BY <1>2, <1>3 DEF Announced, SumOf, f

LEMMA TransactionKeepsChain ==
  ASSUME FollowInv, NEW from, NEW value, NEW events, Mine(from, value, events), Transaction(events), TotalsMove
  PROVE  ChainOK'
<1>1. now' \in Times /\ txs' \in Nat
  BY SubgraphAssumption DEF FollowInv, ChainOK, Mine, Times
<1>2. onchain'[CrabVault].open /\ onchain'[V1Vault].open
  BY DEF FollowInv, ChainOK, Transaction, VaultIds
<1>3. Announced(onchain', unseen') \in Int
  BY AnnouncedInt DEF Transaction
<1>4. totalAt' \in [Times -> Int]
  BY <1>3 DEF TotalsMove, FollowInv, ChainOK
<1> QED
  BY <1>1, <1>2, <1>4 DEF ChainOK, Transaction

\* Where an event of the log after the transaction comes from.
OldsAndNews(k, m, n) == \A i \in 1 .. k : i \in 1 .. m \/ \E j \in 1 .. n : i = m + j

LEMMA OldOrNew ==
  ASSUME NEW m \in Nat, NEW n \in Nat, NEW k, k = m + n
  PROVE  OldsAndNews(k, m, n)
<1> SUFFICES ASSUME NEW i \in 1 .. k PROVE i \in 1 .. m \/ \E j \in 1 .. n : i = m + j
  BY DEF OldsAndNews
<1>1. CASE i > m
  <2>1. i - m \in 1 .. n /\ i = m + (i - m)
    BY <1>1
  <2> QED
    BY <2>1
<1> QED
  BY <1>1

LEMMA TransactionKeepsLog ==
  ASSUME FollowInv, NEW from, NEW value, NEW events, Mine(from, value, events), Transaction(events)
  PROVE  LogOK'
<1>1. /\ IsLog(pending') /\ Len(pending') = Len(pending) + Len(events)
      /\ \A i \in 1 .. Len(pending) : pending'[i] = pending[i]
      /\ \A j \in 1 .. Len(events) :
           /\ Fit(pending'[Len(pending) + j]) /\ {"tx", "time"} \subseteq DOMAIN pending'[Len(pending) + j]
           /\ pending'[Len(pending) + j].tx = txs' /\ pending'[Len(pending) + j].time = now'
  BY Mined DEF FollowInv, LogOK, Transaction
<1>2. /\ Len(pending) \in Nat /\ Len(events) \in Nat /\ now \in Nat /\ txs \in Nat
      /\ now' \in Nat /\ now <= now' /\ txs' = txs + 1
  BY SubgraphAssumption DEF FollowInv, LogOK, ChainOK, IsLog, Transaction, Raws, Mine, Times
<1>a. \A i \in 1 .. Len(pending') : i \in 1 .. Len(pending) \/ \E j \in 1 .. Len(events) : i = Len(pending) + j
  <2>1. OldsAndNews(Len(pending'), Len(pending), Len(events))
    BY <1>1, <1>2, OldOrNew
  <2> QED
    BY <2>1 DEF OldsAndNews
<1>3. ASSUME NEW i \in 1 .. Len(pending')
      PROVE  /\ Fit(pending'[i]) /\ {"tx", "time"} \subseteq DOMAIN pending'[i]
             /\ pending'[i].tx \in 1 .. txs' /\ pending'[i].time \in 0 .. now'
             /\ i \in 1 .. Len(pending) \/ pending'[i].time = now'
  <2>1. CASE i \in 1 .. Len(pending)
    BY <1>1, <1>2, <2>1 DEF FollowInv, LogOK
  <2>2. CASE \E j \in 1 .. Len(events) : i = Len(pending) + j
    BY <1>1, <1>2, <2>2
  <2> QED
    BY <1>a, <2>1, <2>2
<1>4. ASSUME NEW i \in 1 .. Len(pending'), NEW j \in 1 .. Len(pending'), i <= j
      PROVE  pending'[i].time <= pending'[j].time
  <2>1. CASE j \in 1 .. Len(pending)
    <3>1. i \in 1 .. Len(pending)
      BY <1>1, <1>2, <1>4, <2>1
    <3> QED
      BY <1>1, <1>4, <2>1, <3>1 DEF FollowInv, LogOK
  <2>2. CASE pending'[j].time = now'
    BY <1>2, <1>3, <2>2
  <2> QED
    BY <1>3, <2>1, <2>2
<1> QED
  BY <1>1, <1>3, <1>4 DEF LogOK

LEMMA TransactionKeepsOrder ==
  ASSUME FollowInv, NEW from, NEW value, NEW events, Mine(from, value, events), Transaction(events)
  PROVE  OpenedInOrder'
<1>1. /\ Len(pending') = Len(pending) + Len(events)
      /\ \A i \in 1 .. Len(pending) : pending'[i] = pending[i]
      /\ \A j \in 1 .. Len(events) :
           /\ pending'[Len(pending) + j].ev = events[j].ev
           /\ events[j].ev \in OfVaults => pending'[Len(pending) + j].vault = events[j].vault
  BY Mined DEF FollowInv, LogOK, Transaction
<1>2. Len(pending) \in Nat /\ Len(events) \in Nat /\ store' = store
  BY DEF FollowInv, LogOK, IsLog, Transaction, Raws, Mine
<1>3. \A j \in 1 .. Len(events), v \in VaultIds :
        /\ On(pending'[Len(pending) + j], v) <=> On(events[j], v)
        /\ Opens(pending'[Len(pending) + j], v) <=> Opens(events[j], v)
  BY <1>1 DEF On, Opens, OfVaults
<1>4. \A i \in 1 .. Len(pending), v \in VaultIds :
        /\ On(pending'[i], v) <=> On(pending[i], v)
        /\ Opens(pending'[i], v) <=> Opens(pending[i], v)
  BY <1>1
<1>5. \A e, v : Opens(e, v) => On(e, v)
  BY DEF On, Opens, OfVaults
<1> SUFFICES ASSUME NEW v \in VaultIds
             PROVE  /\ store.vaults[v].open => onchain'[v].open
                    /\ ~onchain'[v].open => \A i \in 1 .. Len(pending') : ~On(pending'[i], v)
                    /\ ~store.vaults[v].open =>
                         /\ onchain'[v].open => \E i \in 1 .. Len(pending') : Opens(pending'[i], v)
                         /\ \A i \in 1 .. Len(pending') : On(pending'[i], v) => \E j \in 1 .. i : Opens(pending'[j], v)
                    /\ \A i \in 1 .. Len(pending') : Opens(pending'[i], v) =>
                         ~store.vaults[v].open /\ \A j \in 1 .. Len(pending') : Opens(pending'[j], v) => j = i
  BY <1>2 DEF OpenedInOrder
<1>6. /\ store.vaults[v].open => onchain[v].open
      /\ ~onchain[v].open => \A i \in 1 .. Len(pending) : ~On(pending[i], v)
      /\ ~store.vaults[v].open =>
           /\ onchain[v].open => \E i \in 1 .. Len(pending) : Opens(pending[i], v)
           /\ \A i \in 1 .. Len(pending) : On(pending[i], v) => \E j \in 1 .. i : Opens(pending[j], v)
      /\ \A i \in 1 .. Len(pending) : Opens(pending[i], v) =>
           ~store.vaults[v].open /\ \A j \in 1 .. Len(pending) : Opens(pending[j], v) => j = i
  BY DEF FollowInv, OpenedInOrder
<1>7. \A i \in 1 .. Len(pending') : i \in 1 .. Len(pending) \/ \E j \in 1 .. Len(events) : i = Len(pending) + j
  <2>1. OldsAndNews(Len(pending'), Len(pending), Len(events))
    BY <1>1, <1>2, OldOrNew
  <2> QED
    BY <2>1 DEF OldsAndNews
<1>8. CASE /\ ~onchain[v].open /\ onchain'[v].open
           /\ \E k \in 1 .. Len(events) : OpensAt(events, k, v)
  <2>0. PICK k \in 1 .. Len(events) : OpensAt(events, k, v)
    BY <1>8
  <2>1. \A i \in 1 .. Len(pending) : ~On(pending'[i], v) /\ ~Opens(pending'[i], v)
    BY <1>4, <1>5, <1>6, <1>8
  <2>2. Opens(pending'[Len(pending) + k], v) /\ Len(pending) + k \in 1 .. Len(pending')
    BY <1>1, <1>2, <1>3, <2>0 DEF OpensAt
  <2>3. ASSUME NEW i \in 1 .. Len(pending'), Opens(pending'[i], v) PROVE i = Len(pending) + k
    <3>1. PICK j \in 1 .. Len(events) : i = Len(pending) + j
      BY <1>7, <2>1, <2>3
    <3>2. Opens(events[j], v)
      BY <1>3, <2>3, <3>1
    <3>3. j = k
      BY <2>0, <3>1, <3>2 DEF OpensAt
    <3> QED
      BY <3>1, <3>3
  <2>4. ASSUME NEW i \in 1 .. Len(pending'), On(pending'[i], v) PROVE Len(pending) + k \in 1 .. i
    <3>1. PICK j \in 1 .. Len(events) : i = Len(pending) + j
      BY <1>7, <2>1, <2>4
    <3>2. On(events[j], v)
      BY <1>3, <2>4, <3>1
    <3>3. ~ (j < k)
      BY <2>0, <3>1, <3>2 DEF OpensAt
    <3> QED
      BY <1>2, <2>0, <3>1, <3>3
  <2> QED
    BY <1>6, <1>8, <2>2, <2>3, <2>4
<1>9. CASE /\ onchain'[v].open = onchain[v].open
           /\ \A i \in 1 .. Len(events) : ~Opens(events[i], v) /\ (On(events[i], v) => onchain[v].open)
  <2>1. \A j \in 1 .. Len(events) : /\ ~Opens(pending'[Len(pending) + j], v)
                                    /\ On(pending'[Len(pending) + j], v) => onchain[v].open
    BY <1>3, <1>9
  <2>2. ASSUME ~onchain'[v].open, NEW i \in 1 .. Len(pending') PROVE ~On(pending'[i], v)
    BY <1>4, <1>6, <1>7, <1>9, <2>1, <2>2
  <2>3. ASSUME ~store.vaults[v].open, onchain'[v].open
        PROVE  \E i \in 1 .. Len(pending) : Opens(pending'[i], v)
    BY <1>4, <1>6, <1>9, <2>3
  <2>4. ASSUME ~store.vaults[v].open, NEW i \in 1 .. Len(pending'), On(pending'[i], v)
        PROVE  \E j \in 1 .. i : Opens(pending'[j], v)
    <3>1. CASE i \in 1 .. Len(pending)
      <4>1. PICK j \in 1 .. i : Opens(pending[j], v)
        BY <1>4, <1>6, <2>4, <3>1
      <4>2. j \in 1 .. Len(pending)
        BY <1>2, <3>1, <4>1
      <4> QED
        BY <1>4, <4>1, <4>2
    <3>2. CASE \E k \in 1 .. Len(events) : i = Len(pending) + k
      <4>1. onchain'[v].open
        BY <1>9, <2>1, <2>4, <3>2
      <4>2. PICK j \in 1 .. Len(pending) : Opens(pending'[j], v)
        BY <2>3, <2>4, <4>1
      <4>3. j \in 1 .. i
        BY <1>2, <3>2, <4>2
      <4> QED
        BY <4>2, <4>3
    <3> QED
      BY <1>7, <3>1, <3>2
  <2>5. ASSUME NEW i \in 1 .. Len(pending'), Opens(pending'[i], v) PROVE i \in 1 .. Len(pending) /\ Opens(pending[i], v)
    BY <1>4, <1>7, <2>1, <2>5
  <2>6. \A i \in 1 .. Len(pending) : i \in 1 .. Len(pending')
    BY <1>1, <1>2
  <2> QED
    BY <1>6, <1>9, <2>2, <2>3, <2>4, <2>5, <2>6
<1> QED
  BY <1>8, <1>9 DEF Transaction

LEMMA TransactionKeepsBalance ==
  ASSUME FollowInv, NEW from, NEW value, NEW events, Mine(from, value, events), Transaction(events)
  PROVE  Balanced'
<1> SUFFICES ASSUME NEW kind \in Kinds, NEW v \in VaultIds
             PROVE  Held(kind, v, store') + Rest(kind, v, pending', MaxTime)
                      = Truth(kind, v, onchain', unseen', supply')
  BY DEF Balanced
<1>1. store' = store /\ now' <= MaxTime
  BY SubgraphAssumption DEF Mine, FollowInv, ChainOK, Times
<1>2. /\ Rest(kind, v, pending', MaxTime) = Rest(kind, v, pending, MaxTime) + Effects(kind, v, events)
      /\ Rest(kind, v, pending, MaxTime) \in Int
  BY <1>1, Mined DEF FollowInv, LogOK, Transaction
<1>3. Effects(kind, v, events) \in Int
  BY EffectsInt DEF Transaction
<1>4. Held(kind, v, store) + Rest(kind, v, pending, MaxTime) = Truth(kind, v, onchain, unseen, supply)
  BY DEF FollowInv, Balanced
<1>5. Held(kind, v, store) \in Int
  <2>1. HeldColl(store.vaults) \in Int
    <3> DEFINE f == [w \in VaultIds |-> store.vaults[w].coll]
    <3>1. \A w \in VaultIds : f[w] \in Int
      BY DEF FollowInv, StoreOK, VaultRow
    <3>2. DOMAIN f = VaultIds /\ HeldColl(store.vaults) = SumOf(f)
      BY DEF HeldColl
    <3> HIDE DEF f
    <3> QED
      BY <3>1, <3>2, VaultsAreFinite, SumInt DEF SumOf
  <2> QED
    BY <2>1 DEF FollowInv, StoreOK, VaultRow, Held
<1>6. Truth(kind, v, onchain', unseen', supply') =
        Truth(kind, v, onchain, unseen, supply) + Effects(kind, v, events)
  BY DEF Transaction
<1> QED
  BY <1>1, <1>2, <1>3, <1>4, <1>5, <1>6

LEMMA TransactionKeepsNft ==
  ASSUME FollowInv, NEW from, NEW value, NEW events, Mine(from, value, events), Transaction(events)
  PROVE  NftFollows'
<1>1. /\ Len(pending') = Len(pending) + Len(events)
      /\ \A i \in 1 .. Len(pending) : pending'[i] = pending[i]
      /\ \A j \in 1 .. Len(events) :
           /\ pending'[Len(pending) + j].ev = events[j].ev
           /\ events[j].ev \in OfVaults => pending'[Len(pending) + j].vault = events[j].vault
  BY Mined DEF FollowInv, LogOK, Transaction
<1>2. Len(pending) \in Nat /\ Len(events) \in Nat /\ store' = store
  BY DEF FollowInv, LogOK, IsLog, Transaction, Raws, Mine
<1>3. \A j \in 1 .. Len(events), v \in VaultIds :
        OnNft(pending'[Len(pending) + j], v) <=> OnNft(events[j], v)
  BY <1>1 DEF OnNft, OfVaults
<1>4. \A i \in 1 .. Len(pending') : i \in 1 .. Len(pending) \/ \E j \in 1 .. Len(events) : i = Len(pending) + j
  <2>1. OldsAndNews(Len(pending'), Len(pending), Len(events))
    BY <1>1, <1>2, OldOrNew
  <2> QED
    BY <2>1 DEF OldsAndNews
<1> SUFFICES ASSUME NEW v \in VaultIds
             PROVE  /\ \A i \in 1 .. Len(pending') :
                         OnNft(pending'[i], v) /\ (\A j \in i + 1 .. Len(pending') : ~OnNft(pending'[j], v)) =>
                           (pending'[i].ev = "DepositNft") = There(v)'
                    /\ (\A i \in 1 .. Len(pending') : ~OnNft(pending'[i], v)) => store.vaults[v].nft = There(v)'
  BY <1>2 DEF NftFollows, There
<1>5. /\ \A i \in 1 .. Len(pending) :
           OnNft(pending[i], v) /\ (\A j \in i + 1 .. Len(pending) : ~OnNft(pending[j], v)) =>
             (pending[i].ev = "DepositNft") = There(v)
      /\ (\A i \in 1 .. Len(pending) : ~OnNft(pending[i], v)) => store.vaults[v].nft = There(v)
  BY DEF FollowInv, NftFollows, There
<1>6. CASE Len(events) = 1 /\ OnNft(events[1], v) /\ (events[1].ev = "DepositNft") = There(v)'
  <2>1. /\ Len(pending) + 1 \in 1 .. Len(pending') /\ OnNft(pending'[Len(pending) + 1], v)
        /\ pending'[Len(pending) + 1].ev = events[1].ev
    BY <1>1, <1>2, <1>3, <1>6
  <2>2. ASSUME NEW i \in 1 .. Len(pending'), \A j \in i + 1 .. Len(pending') : ~OnNft(pending'[j], v)
        PROVE  i = Len(pending) + 1
    BY <1>1, <1>2, <1>6, <2>1, <2>2
  <2> HIDE DEF There
  <2> QED
    BY <1>6, <2>1, <2>2
<1>7. CASE There(v)' = There(v) /\ \A i \in 1 .. Len(events) : ~OnNft(events[i], v)
  <2>1. \A j \in 1 .. Len(events) : ~OnNft(pending'[Len(pending) + j], v)
    BY <1>3, <1>7
  <2>2. \A i \in 1 .. Len(pending') : OnNft(pending'[i], v) => i \in 1 .. Len(pending) /\ OnNft(pending[i], v)
    BY <1>1, <1>4, <2>1
  <2>3. \A i \in 1 .. Len(pending) : OnNft(pending[i], v) => i \in 1 .. Len(pending') /\ OnNft(pending'[i], v)
    BY <1>1, <1>2
  <2>4. ASSUME NEW i \in 1 .. Len(pending'), OnNft(pending'[i], v),
               \A j \in i + 1 .. Len(pending') : ~OnNft(pending'[j], v)
        PROVE  (pending'[i].ev = "DepositNft") = There(v)
    <3>1. i \in 1 .. Len(pending) /\ OnNft(pending[i], v) /\ pending'[i] = pending[i]
      BY <1>1, <2>2, <2>4
    <3>2. \A j \in i + 1 .. Len(pending) : ~OnNft(pending[j], v)
      <4> TAKE j \in i + 1 .. Len(pending)
      <4>1. j \in 1 .. Len(pending) /\ j \in i + 1 .. Len(pending')
        BY <1>1, <1>2, <3>1
      <4> QED
        BY <1>1, <2>4, <4>1
    <3> QED
      BY <1>5, <3>1, <3>2
  <2>5. ASSUME \A i \in 1 .. Len(pending') : ~OnNft(pending'[i], v) PROVE store.vaults[v].nft = There(v)
    BY <1>5, <2>3, <2>5
  <2> QED
    BY <1>7, <2>4, <2>5
<1> QED
  BY <1>6, <1>7 DEF Transaction

LEMMA TransactionKeepsSnap ==
  ASSUME FollowInv, NEW from, NEW value, NEW events, Mine(from, value, events), Transaction(events), TotalsMove,
         NEW snap, NEW period \in Nat \ {0}, SnapOK(snap, period, HeldColl(store.vaults), pending, totalAt, now)
  PROVE  SnapOK(snap, period, HeldColl(store'.vaults), pending', totalAt', now')
<1>1. /\ IsLog(pending') /\ Len(pending') = Len(pending) + Len(events)
      /\ \A i \in 1 .. Len(pending) : pending'[i] = pending[i]
      /\ \A j \in 1 .. Len(events) : pending'[Len(pending) + j].time = now'
  BY Mined DEF FollowInv, LogOK, Transaction
<1>2. \A t : Rest("total", CrabVault, pending', t) =
              Rest("total", CrabVault, pending, t) + (IF now' <= t THEN Effects("total", CrabVault, events) ELSE 0)
  BY Mined DEF FollowInv, LogOK, Transaction
<1>3. /\ Len(pending) \in Nat /\ Len(events) \in Nat /\ store' = store
      /\ now \in Nat /\ now' \in Nat /\ now <= now' /\ now' <= MaxTime /\ MaxTime \in Nat
  BY SubgraphAssumption DEF FollowInv, LogOK, IsLog, Transaction, Raws, Mine, ChainOK, Times
<1>4. \A i \in 1 .. Len(pending') : i \in 1 .. Len(pending) \/ \E j \in 1 .. Len(events) : i = Len(pending) + j
  <2>1. OldsAndNews(Len(pending'), Len(pending), Len(events))
    BY <1>1, <1>3, OldOrNew
  <2> QED
    BY <2>1 DEF OldsAndNews
<1>5. \A i \in 1 .. Len(pending) : pending[i].time \in 0 .. now
  BY DEF FollowInv, LogOK
<1>6. snap.start \in Int /\ snap.start <= now'
  <2>1. \A n \in Nat : n * period \in Int
    BY ProductIsNat
  <2>2. snap.start = -1 \/ \E n \in Nat : snap.start = n * period
    BY DEF SnapOK
  <2>3. snap.start \in Int
    BY ONLY <2>1, <2>2
  <2>4. snap.start <= now
    BY DEF SnapOK
  <2> QED
    BY ONLY <1>3, <2>3, <2>4
<1>7. \A i \in 1 .. Len(pending') : snap.start <= pending'[i].time /\ pending'[i].time <= now' /\ pending'[i].time \in Nat
  <2> TAKE i \in 1 .. Len(pending')
  <2>1. CASE i \in 1 .. Len(pending)
    BY <1>1, <1>3, <1>5, <2>1 DEF SnapOK
  <2>2. CASE \E j \in 1 .. Len(events) : i = Len(pending) + j
    BY <1>1, <1>3, <1>6, <2>2
  <2> QED
    BY <1>4, <2>1, <2>2
<1>8. ASSUME NEW t \in Times, snap.start + period - 1 <= t
      PROVE  HeldColl(store'.vaults) + Rest("total", CrabVault, pending', t) = totalAt'[t]
  <2>1. CASE now' <= t
    <3>1. \A i \in 1 .. Len(pending') : pending'[i].time <= t /\ pending'[i].time <= MaxTime
      BY <1>3, <1>7, <2>1 DEF Times
    <3>2. Rest("total", CrabVault, pending', t) = Rest("total", CrabVault, pending', MaxTime)
      BY <1>1, <3>1, RestOfAll
    <3>3. HeldColl(store'.vaults) + Rest("total", CrabVault, pending', MaxTime) = Announced(onchain', unseen')
      <4>1. Balanced'
        BY TransactionKeepsBalance
      <4> QED
        BY <4>1 DEF Balanced, Held, Truth, Kinds, VaultIds
    <3>4. totalAt'[t] = Announced(onchain', unseen')
      BY <2>1 DEF TotalsMove
    <3> QED
      BY <3>2, <3>3, <3>4
  <2>2. CASE ~(now' <= t)
    <3>1. totalAt'[t] = totalAt[t]
      BY <2>2 DEF TotalsMove
    <3>2. Rest("total", CrabVault, pending', t) = Rest("total", CrabVault, pending, t)
      <4>1. Rest("total", CrabVault, pending, t) \in Int
        BY Mined DEF FollowInv, LogOK, Transaction
      <4> QED
        BY <1>2, <2>2, <4>1
    <3> QED
      BY <1>3, <1>8, <3>1, <3>2 DEF SnapOK
  <2> QED
    BY <2>1, <2>2
<1>9. ASSUME NEW h \in DOMAIN snap.past
      PROVE  h \in Nat /\ h + period - 1 < now' /\ snap.past[h] = totalAt'[h + period - 1]
  <2>1. h \in Nat /\ h + period - 1 < now /\ snap.past[h] = totalAt[h + period - 1]
    BY DEF SnapOK
  <2>2. h + period - 1 \in Times /\ ~(h + period - 1 >= now')
    BY <1>3, <2>1 DEF Times
  <2>3. totalAt'[h + period - 1] = totalAt[h + period - 1]
    BY <2>2 DEF TotalsMove
  <2> QED
    BY <1>3, <2>1, <2>3
<1> QED
  BY <1>3, <1>6, <1>7, <1>8, <1>9 DEF SnapOK

LEMMA TransactionKeepsInv ==
  ASSUME FollowInv, NEW from, NEW value, NEW events, Mine(from, value, events), Transaction(events), TotalsMove
  PROVE  FollowInv'
<1>1. ChainOK' /\ LogOK' /\ OpenedInOrder' /\ Balanced' /\ NftFollows'
  BY TransactionKeepsChain, TransactionKeepsLog, TransactionKeepsOrder, TransactionKeepsBalance, TransactionKeepsNft
<1>2. store' = store
  BY DEF Mine
<1>3. StoreOK(store')
  BY <1>2 DEF FollowInv
<1>4. SnapsOK'
  <2>1. /\ SnapOK(store.hour, HOUR, HeldColl(store'.vaults), pending', totalAt', now')
        /\ SnapOK(store.day, DAY, HeldColl(store'.vaults), pending', totalAt', now')
    BY TransactionKeepsSnap, SubgraphAssumption DEF FollowInv, SnapsOK
  <2> QED
    BY <1>2, <2>1 DEF SnapsOK
<1> QED
  BY <1>1, <1>3, <1>4 DEF FollowInv

-----------------------------------------------------------------------------
(* Every action of the chain is a transaction. *)

\* The amounts of one vault move, no vault opens and no position comes or goes.
MovesRow(f, g, w, short, coll) ==
  /\ g \in [VaultIds -> VaultRow]
  /\ \A v \in VaultIds : v # w => g[v] = f[v]
  /\ g[w].open = f[w].open /\ g[w].nft = f[w].nft
  /\ g[w].short = f[w].short + short /\ g[w].coll = f[w].coll + coll

LEMMA MovedMoves ==
  ASSUME NEW f \in [VaultIds -> VaultRow], NEW w \in VaultIds, NEW short \in Int, NEW coll \in Int
  PROVE  MovesRow(f, Moved(f, w, short, coll), w, short, coll) /\ MovesRow(f, f, w, 0, 0)
<1>1. f[w] \in VaultRow /\ f[w].short \in Int /\ f[w].coll \in Int
  BY DEF VaultRow
<1>2. MovesRow(f, f, w, 0, 0)
  BY <1>1 DEF MovesRow
<1> DEFINE r == [f[w] EXCEPT !.short = @ + short]
           q == [r EXCEPT !.coll = @ + coll]
<1>3. /\ r \in VaultRow /\ r.open = f[w].open /\ r.nft = f[w].nft
      /\ r.short = f[w].short + short /\ r.coll = f[w].coll
  BY <1>1 DEF VaultRow
<1>4. Moved(f, w, short, coll) = [[f EXCEPT ![w] = r] EXCEPT ![w] = q]
  BY DEF Moved
<1> HIDE DEF r
<1>5. /\ q \in VaultRow /\ q.open = f[w].open /\ q.nft = f[w].nft
      /\ q.short = f[w].short + short /\ q.coll = f[w].coll + coll
  BY <1>1, <1>3 DEF VaultRow
<1> HIDE DEF q
<1> QED
  BY <1>2, <1>3, <1>4, <1>5 DEF MovesRow

\* What the chain announces of vault w moves, and of no other.
Differ(vaults, gone, vaults2, gone2, w, short, coll) ==
  /\ vaults \in [VaultIds -> VaultRow] /\ gone \in [VaultIds -> VaultRow]
  /\ vaults2 \in [VaultIds -> VaultRow] /\ gone2 \in [VaultIds -> VaultRow]
  /\ w \in VaultIds /\ short \in Int /\ coll \in Int
  /\ \A v \in VaultIds : v # w => /\ vaults2[v].short + gone2[v].short = vaults[v].short + gone[v].short
                                  /\ vaults2[v].coll + gone2[v].coll = vaults[v].coll + gone[v].coll
  /\ vaults2[w].short + gone2[w].short = vaults[w].short + gone[w].short + short
  /\ vaults2[w].coll + gone2[w].coll = vaults[w].coll + gone[w].coll + coll

LEMMA TruthMoves ==
  ASSUME NEW vaults, NEW gone, NEW vaults2, NEW gone2, NEW w, NEW short, NEW coll,
         Differ(vaults, gone, vaults2, gone2, w, short, coll),
         NEW shares \in Int, NEW more \in Int, NEW kind \in Kinds, NEW v \in VaultIds
  PROVE  Truth(kind, v, vaults2, gone2, shares + more) =
           Truth(kind, v, vaults, gone, shares) + Shift(kind, v, w, short, coll, more)
<1> DEFINE f == [x \in VaultIds |-> vaults[x].coll + gone[x].coll]
           g == [x \in VaultIds |-> vaults2[x].coll + gone2[x].coll]
<1>1. \A x \in VaultIds : f[x] \in Int /\ g[x] \in Int
  BY DEF Differ, VaultRow
<1>2. (\A x \in VaultIds : x # w => g[x] = f[x]) /\ g[w] = f[w] + coll
  BY DEF Differ
<1>3. DOMAIN f = VaultIds /\ DOMAIN g = VaultIds
  OBVIOUS
<1>4. Announced(vaults, gone) = SumOf(f) /\ Announced(vaults2, gone2) = SumOf(g)
  BY DEF Announced
<1> HIDE DEF f, g
<1>5. SumOver(g, VaultIds) = SumOver(f, VaultIds) - f[w] + g[w]
  BY <1>1, <1>2, VaultsAreFinite, SumUpdate DEF Differ
<1>6. SumOver(f, VaultIds) \in Int
  BY <1>1, VaultsAreFinite, SumInt
<1>7. Announced(vaults2, gone2) = Announced(vaults, gone) + coll
  BY <1>1, <1>2, <1>3, <1>4, <1>5, <1>6 DEF SumOf, Differ
<1>8. CASE kind = "short"
  BY <1>8 DEF Truth, Shift, VaultRow, Differ
<1>9. CASE kind = "coll"
  BY <1>9 DEF Truth, Shift, VaultRow, Differ
<1>10. CASE kind = "total"
  BY <1>7, <1>10 DEF Truth, Shift, Differ
<1>11. CASE kind = "shares"
  BY <1>11 DEF Truth, Shift, Differ
<1> QED
  BY <1>8, <1>9, <1>10, <1>11 DEF Kinds

\* Events on open vaults that neither open one nor move a position.
Usual(e) == Raw(e) /\ e.ev \notin NftMoves \cup {"OpenVault"} /\ (e.ev \in OfVaults => onchain[e.vault].open)
Usuals(events) == IsLog(events) /\ \A i \in 1 .. Len(events) : Usual(events[i])
Once(events) == \A i, j \in 1 .. Len(events) : events[i].ev \in Moves /\ events[j].ev = events[i].ev => i = j

LEMMA UsualsAreRaw == ASSUME NEW events, Usuals(events) PROVE Raws(events)
BY DEF Usuals, Usual, Raws

LEMMA QuietsAreUsual ==
  ASSUME NEW events, Quiets(events) PROVE Usuals(events) /\ Once(events)
BY DEF Quiets, Mute, Usuals, Usual, Once, Telling, OfVaults

\* A log of usual events with events that move nothing before or after it.
LEMMA QuietAfter ==
  ASSUME NEW s, Usuals(s), Once(s), NEW t, Quiets(t), NEW kind, NEW v
  PROVE  Usuals(s \o t) /\ Once(s \o t) /\ Effects(kind, v, s \o t) = Effects(kind, v, s)
<1>1. Raws(s) /\ Raws(t) /\ Usuals(t)
  BY UsualsAreRaw, QuietsMoveNothing, QuietsAreUsual
<1>2. /\ IsLog(s \o t) /\ Len(s \o t) = Len(s) + Len(t)
      /\ \A i \in 1 .. Len(s) : (s \o t)[i] = s[i]
      /\ \A i \in 1 .. Len(t) : (s \o t)[Len(s) + i] = t[i]
  BY LogConcat DEF Usuals, Quiets
<1>3. Len(s) \in Nat /\ Len(t) \in Nat
  BY DEF Usuals, Quiets, IsLog
<1>4. \A i \in 1 .. Len(s \o t) : i \in 1 .. Len(s) \/ \E j \in 1 .. Len(t) : i = Len(s) + j
  <2>1. OldsAndNews(Len(s \o t), Len(s), Len(t))
    BY <1>2, <1>3, OldOrNew
  <2> QED
    BY <2>1 DEF OldsAndNews
<1>5. Usuals(s \o t)
  BY <1>1, <1>2, <1>4 DEF Usuals
<1>6. \A i \in 1 .. Len(s \o t) : (s \o t)[i].ev \in Moves => i \in 1 .. Len(s)
  BY <1>2, <1>4 DEF Quiets, Mute, Telling, OfVaults
<1>7. Once(s \o t)
  BY <1>2, <1>6 DEF Once
<1>8. Effects(kind, v, s \o t) = Effects(kind, v, s) + Effects(kind, v, t)
  BY <1>1, EffectsConcat
<1>9. Effects(kind, v, t) = 0 /\ Effects(kind, v, s) \in Int
  BY <1>1, QuietsMoveNothing, EffectsInt
<1> QED
  BY <1>5, <1>7, <1>8, <1>9

LEMMA QuietBefore ==
  ASSUME NEW s, Quiets(s), NEW t, Usuals(t), Once(t), NEW kind, NEW v
  PROVE  Usuals(s \o t) /\ Once(s \o t) /\ Effects(kind, v, s \o t) = Effects(kind, v, t)
<1>1. Raws(s) /\ Raws(t) /\ Usuals(s)
  BY UsualsAreRaw, QuietsMoveNothing, QuietsAreUsual
<1>2. /\ IsLog(s \o t) /\ Len(s \o t) = Len(s) + Len(t)
      /\ \A i \in 1 .. Len(s) : (s \o t)[i] = s[i]
      /\ \A i \in 1 .. Len(t) : (s \o t)[Len(s) + i] = t[i]
  BY LogConcat DEF Usuals, Quiets
<1>3. Len(s) \in Nat /\ Len(t) \in Nat
  BY DEF Usuals, Quiets, IsLog
<1>4. \A i \in 1 .. Len(s \o t) : i \in 1 .. Len(s) \/ \E j \in 1 .. Len(t) : i = Len(s) + j
  <2>1. OldsAndNews(Len(s \o t), Len(s), Len(t))
    BY <1>2, <1>3, OldOrNew
  <2> QED
    BY <2>1 DEF OldsAndNews
<1>5. Usuals(s \o t)
  BY <1>1, <1>2, <1>4 DEF Usuals
<1>6. \A i \in 1 .. Len(s \o t) : (s \o t)[i].ev \in Moves => \E j \in 1 .. Len(t) : i = Len(s) + j
  BY <1>2, <1>4 DEF Quiets, Mute, Telling, OfVaults
<1>7. Once(s \o t)
  <2> SUFFICES ASSUME NEW i \in 1 .. Len(s \o t), NEW j \in 1 .. Len(s \o t),
                      (s \o t)[i].ev \in Moves, (s \o t)[j].ev = (s \o t)[i].ev
               PROVE  i = j
    BY DEF Once
  <2>1. PICK m \in 1 .. Len(t) : i = Len(s) + m
    BY <1>6
  <2>2. PICK n \in 1 .. Len(t) : j = Len(s) + n
    BY <1>6
  <2>3. m = n
    BY <1>2, <2>1, <2>2 DEF Once
  <2> QED
    BY <2>1, <2>2, <2>3
<1>8. Effects(kind, v, s \o t) = Effects(kind, v, s) + Effects(kind, v, t)
  BY <1>1, EffectsConcat
<1>9. Effects(kind, v, s) = 0 /\ Effects(kind, v, t) \in Int
  BY <1>1, QuietsMoveNothing, EffectsInt
<1> QED
  BY <1>5, <1>7, <1>8, <1>9

LEMMA MoveIsTransaction ==
  ASSUME FollowInv, NEW w \in VaultIds, onchain[w].open, NEW events, Usuals(events), Once(events),
         NEW a \in Int, NEW b \in Int, NEW c \in Int, NEW d \in Int, NEW more \in Int,
         MovesRow(onchain, onchain', w, a, b), MovesRow(unseen, unseen', w, c, d),
         supply' = supply + more, batched' = batched,
         \A kind \in Kinds, v \in VaultIds : Effects(kind, v, events) = Shift(kind, v, w, a + c, b + d, more)
  PROVE  Transaction(events)
<1>1. /\ onchain \in [VaultIds -> VaultRow] /\ unseen \in [VaultIds -> VaultRow]
      /\ supply \in Int /\ batched \in BOOLEAN
      /\ \A v \in VaultIds : /\ ~onchain[v].open => onchain[v] = None /\ unseen[v] = Empty
                             /\ ~(onchain[v].nft /\ unseen[v].nft)
  BY DEF FollowInv, ChainOK
<1>2. Raws(events)
  BY UsualsAreRaw
<1>3. onchain' \in [VaultIds -> VaultRow] /\ unseen' \in [VaultIds -> VaultRow]
  BY DEF MovesRow
<1>4. \A v \in VaultIds : /\ onchain'[v].open = onchain[v].open /\ onchain'[v].nft = onchain[v].nft
                          /\ unseen'[v].nft = unseen[v].nft
                          /\ ~onchain[v].open => onchain'[v] = onchain[v] /\ unseen'[v] = unseen[v]
  BY DEF MovesRow
<1>5. \A kind \in Kinds, v \in VaultIds :
        Truth(kind, v, onchain', unseen', supply') = Truth(kind, v, onchain, unseen, supply) + Effects(kind, v, events)
  <2> TAKE kind \in Kinds, v \in VaultIds
  <2>1. \A x \in VaultIds : x # w => /\ onchain'[x].short + unseen'[x].short = onchain[x].short + unseen[x].short
                                     /\ onchain'[x].coll + unseen'[x].coll = onchain[x].coll + unseen[x].coll
    BY DEF MovesRow
  <2>2. /\ onchain[w].short \in Int /\ onchain[w].coll \in Int /\ unseen[w].short \in Int /\ unseen[w].coll \in Int
    BY <1>1 DEF VaultRow
  <2>3. /\ onchain'[w].short + unseen'[w].short = onchain[w].short + unseen[w].short + (a + c)
        /\ onchain'[w].coll + unseen'[w].coll = onchain[w].coll + unseen[w].coll + (b + d)
    BY <2>2 DEF MovesRow
  <2>a. Differ(onchain, unseen, onchain', unseen', w, a + c, b + d)
    BY <1>1, <1>3, <2>1, <2>3 DEF Differ
  <2>4. Truth(kind, v, onchain', unseen', supply + more) =
          Truth(kind, v, onchain, unseen, supply) + Shift(kind, v, w, a + c, b + d, more)
    BY <1>1, <2>a, TruthMoves
  <2> QED
    BY <2>4
<1>6. \A v \in VaultIds, i \in 1 .. Len(events) :
        ~Opens(events[i], v) /\ ~OnNft(events[i], v) /\ (On(events[i], v) => onchain[v].open)
  BY DEF Usuals, Usual, Opens, OnNft, On
<1>7. supply' \in Int
  BY <1>1
<1> QED
  BY <1>1, <1>2, <1>3, <1>4, <1>5, <1>6, <1>7 DEF Transaction, There, Once

-----------------------------------------------------------------------------
(* The actions of the chain. *)

IsTransaction == \E from, value, events : Mine(from, value, events) /\ Transaction(events)

\* Usual events that tell of one vault and of the shares of Crab.
Tells(events, w, short, coll, shares) ==
  /\ Usuals(events) /\ Once(events)
  /\ \A kind \in Kinds : \A v : Effects(kind, v, events) = Shift(kind, v, w, short, coll, shares)

LEMMA Vaults ==
  ASSUME FollowInv
  PROVE  /\ onchain \in [VaultIds -> VaultRow] /\ unseen \in [VaultIds -> VaultRow] /\ supply \in Int
         /\ onchain[CrabVault].open /\ onchain[V1Vault].open /\ CrabVault \in VaultIds /\ V1Vault \in VaultIds
         /\ UserVaults \subseteq VaultIds /\ CrabVault \notin UserVaults /\ V1Vault \notin UserVaults
         /\ \A a \in Amounts : a \in Int /\ -a \in Int
  BY SubgraphAssumption DEF FollowInv, ChainOK, VaultIds

\* One vault moves with the shares of Crab, and the events tell it.
LEMMA ToldIsTransaction ==
  ASSUME FollowInv, NEW w \in VaultIds, onchain[w].open, NEW a \in Int, NEW b \in Int, NEW more \in Int,
         NEW events, Tells(events, w, a, b, more),
         onchain' = Moved(onchain, w, a, b), supply' = supply + more, unseen' = unseen, batched' = batched
  PROVE  Transaction(events)
<1>1. MovesRow(onchain, onchain', w, a, b) /\ MovesRow(unseen, unseen', w, 0, 0)
  BY Vaults, MovedMoves
<1>2. a + 0 = a /\ b + 0 = b
  OBVIOUS
<1>3. \A kind \in Kinds, v \in VaultIds : Effects(kind, v, events) = Shift(kind, v, w, a + 0, b + 0, more)
  BY <1>2 DEF Tells
<1> QED
  BY <1>1, <1>3, MoveIsTransaction DEF Tells

\* Debt and collateral of one vault, told together.
LEMMA TellsPair ==
  ASSUME NEW w \in VaultIds, onchain[w].open, NEW who, NEW m \in Int, NEW a \in Int,
         NEW short \in {"MintShort", "BurnShort"}, NEW coll \in {"DepositCollateral", "WithdrawCollateral"},
         NEW ds, ds = (IF short = "MintShort" THEN m ELSE -m),
         NEW dc, dc = (IF coll = "DepositCollateral" THEN a ELSE -a)
  PROVE  /\ Raw(OnVault(short, w, who, m)) /\ Raw(OnVault(coll, w, who, a))
         /\ Tells(<<OnVault(short, w, who, m), OnVault(coll, w, who, a)>>, w, ds, dc, 0)
<1> DEFINE x == OnVault(short, w, who, m)
           y == OnVault(coll, w, who, a)
<1>1. /\ Raw(x) /\ x.ev = short /\ x.vault = w
      /\ Raw(y) /\ y.ev = coll /\ y.vault = w
  BY OnVaultIsRaw DEF OnVaultNames
<1>2. \A kind \in Kinds : \A v : Effect(kind, v, x) = Shift(kind, v, w, ds, 0, 0) /\ Effect(kind, v, y) = Shift(kind, v, w, 0, dc, 0)
  <2> TAKE kind \in Kinds
  <2> TAKE v
  <2>1. short \in OnVaultNames /\ coll \in OnVaultNames
    BY DEF OnVaultNames
  <2>2. Effect(kind, v, x) =
           Shift(kind, v, w,
                 IF short = "MintShort" THEN m ELSE IF short = "BurnShort" THEN -m ELSE 0,
                 IF short = "DepositCollateral" THEN m ELSE IF short = "WithdrawCollateral" THEN -m ELSE 0, 0)
    BY <2>1, OnVaultMoves
  <2>3. Effect(kind, v, y) =
           Shift(kind, v, w,
                 IF coll = "MintShort" THEN a ELSE IF coll = "BurnShort" THEN -a ELSE 0,
                 IF coll = "DepositCollateral" THEN a ELSE IF coll = "WithdrawCollateral" THEN -a ELSE 0, 0)
    BY <2>1, OnVaultMoves
  <2> QED
    BY <2>2, <2>3
<1> HIDE DEF x, y
<1>3. Usuals(<<x, y>>)
  BY <1>1 DEF Usuals, Usual, IsLog, NftMoves
<1>4. Once(<<x, y>>)
  BY <1>1 DEF Once, Moves
<1>5. \A kind \in Kinds : \A v : Effects(kind, v, <<x, y>>) = Shift(kind, v, w, ds, dc, 0)
  <2> TAKE kind \in Kinds
  <2> TAKE v
  <2>1. Effects(kind, v, <<x, y>>) = Effect(kind, v, x) + Effect(kind, v, y)
    BY <1>1, EffectsTwo
  <2> QED
    BY <2>1, <1>2 DEF Shift
<1>6. Tells(<<x, y>>, w, ds, dc, 0)
  BY <1>3, <1>4, <1>5 DEF Tells
<1> QED
  BY <1>1, <1>6 DEF x, y

\* With a transfer of the strategy's shares.
LEMMA TellsThree ==
  ASSUME NEW w \in VaultIds, onchain[w].open, NEW who, NEW m \in Int, NEW a \in Int, NEW z \in Int, NEW src, NEW dst,
         NEW short \in {"MintShort", "BurnShort"}, NEW coll \in {"DepositCollateral", "WithdrawCollateral"},
         NEW ds, ds = (IF short = "MintShort" THEN m ELSE -m),
         NEW dc, dc = (IF coll = "DepositCollateral" THEN a ELSE -a),
         NEW dz, dz = (IF src = Zero THEN z ELSE IF dst = Zero THEN -z ELSE 0)
  PROVE  Tells(<<OnVault(short, w, who, m), OnVault(coll, w, who, a), CrabShares(src, dst, z)>>, w, ds, dc, dz)
<1> DEFINE x == OnVault(short, w, who, m)
           y == OnVault(coll, w, who, a)
           s == CrabShares(src, dst, z)
<1>1. /\ Raw(x) /\ x.ev = short /\ x.vault = w
      /\ Raw(y) /\ y.ev = coll /\ y.vault = w
  BY OnVaultIsRaw DEF OnVaultNames
<1>2. \A kind \in Kinds : \A v : /\ Raw(s) /\ s.ev = "CrabTransfer"
                             /\ Effect(kind, v, s) = Shift(kind, v, w, 0, 0, dz)
  BY CrabSharesMove
<1>a. Raw(s) /\ s.ev = "CrabTransfer"
  BY <1>2 DEF Kinds
<1>3. Tells(<<x, y>>, w, ds, dc, 0)
  BY TellsPair
<1> HIDE DEF x, y, s
<1>4. Usuals(<<x, y, s>>)
  BY <1>1, <1>a DEF Usuals, Usual, IsLog, NftMoves, OfVaults, Moves, Shorts
<1>5. Once(<<x, y, s>>)
  BY <1>1, <1>a DEF Once, Moves
<1>6. \A kind \in Kinds : \A v : Effects(kind, v, <<x, y, s>>) = Shift(kind, v, w, ds, dc, dz)
  <2> TAKE kind \in Kinds
  <2> TAKE v
  <2>1. Effects(kind, v, <<x, y, s>>) = Effect(kind, v, x) + Effect(kind, v, y) + Effect(kind, v, s)
    BY <1>1, <1>a, EffectsThree
  <2>2. Effects(kind, v, <<x, y>>) = Effect(kind, v, x) + Effect(kind, v, y)
    BY <1>1, EffectsTwo
  <2>3. Effects(kind, v, <<x, y, s>>) = Effects(kind, v, <<x, y>>) + Effect(kind, v, s)
    BY <2>1, <2>2
  <2> QED
    BY <2>3, <1>2, <1>3 DEF Shift, Tells
<1> QED
  BY <1>4, <1>5, <1>6 DEF x, y, s, Tells

LEMMA Mints ==
  ASSUME FollowInv, NEW who, NEW a \in Amounts, NEW lp \in Amounts
  PROVE  Tells(CrabMints(who, a, lp), CrabVault, a, a, lp)
<1>1. a \in Int /\ lp \in Int /\ CrabVault \in VaultIds /\ onchain[CrabVault].open
  BY Vaults
<1>2. a = (IF "MintShort" = "MintShort" THEN a ELSE -a)
  OBVIOUS
<1>3. a = (IF "DepositCollateral" = "DepositCollateral" THEN a ELSE -a)
  OBVIOUS
<1>4. lp = (IF Zero = Zero THEN lp ELSE IF who = Zero THEN -lp ELSE 0)
  OBVIOUS
<1>5. "MintShort" \in {"MintShort", "BurnShort"} /\ "DepositCollateral" \in {"DepositCollateral", "WithdrawCollateral"}
  OBVIOUS
<1> QED
  BY <1>1, <1>2, <1>3, <1>4, <1>5, TellsThree DEF CrabMints

LEMMA Burns ==
  ASSUME FollowInv, NEW who, who # Zero, NEW a \in Amounts, NEW lp \in Amounts
  PROVE  Tells(CrabBurns(who, a, lp), CrabVault, -a, -a, -lp)
<1>1. a \in Int /\ lp \in Int /\ CrabVault \in VaultIds /\ onchain[CrabVault].open
  BY Vaults
<1>2. -a = (IF "BurnShort" = "MintShort" THEN a ELSE -a)
  OBVIOUS
<1>3. -a = (IF "WithdrawCollateral" = "DepositCollateral" THEN a ELSE -a)
  OBVIOUS
<1>4. -lp = (IF who = Zero THEN lp ELSE IF Zero = Zero THEN -lp ELSE 0)
  OBVIOUS
<1>5. "BurnShort" \in {"MintShort", "BurnShort"} /\ "WithdrawCollateral" \in {"DepositCollateral", "WithdrawCollateral"}
  OBVIOUS
<1> QED
  BY <1>1, <1>2, <1>3, <1>4, <1>5, TellsThree DEF CrabBurns

LEMMA QuietList ==
  /\ Quiets(<<>>)
  /\ \A a : Mute(a) => Quiets(<<a>>)
  /\ \A a, b : Mute(a) /\ Mute(b) => Quiets(<<a, b>>)
  /\ \A a, b, c : Mute(a) /\ Mute(b) /\ Mute(c) => Quiets(<<a, b, c>>)
  /\ \A a, b, c, d : Mute(a) /\ Mute(b) /\ Mute(c) /\ Mute(d) => Quiets(<<a, b, c, d>>)
  /\ \A a, b, c, d, e : Mute(a) /\ Mute(b) /\ Mute(c) /\ Mute(d) /\ Mute(e) => Quiets(<<a, b, c, d, e>>)
BY DEF Quiets, IsLog

LEMMA TellsThenQuiet ==
  ASSUME NEW s, NEW t, NEW w, NEW a, NEW b, NEW z, Tells(s, w, a, b, z), Quiets(t)
  PROVE  Tells(s \o t, w, a, b, z)
<1>1. \A kind \in Kinds : \A v : Usuals(s \o t) /\ Once(s \o t) /\ Effects(kind, v, s \o t) = Effects(kind, v, s)
  BY QuietAfter DEF Tells
<1> QED
  BY <1>1 DEF Tells, Kinds

LEMMA QuietThenTells ==
  ASSUME NEW s, NEW t, NEW w, NEW a, NEW b, NEW z, Quiets(s), Tells(t, w, a, b, z)
  PROVE  Tells(s \o t, w, a, b, z)
<1>1. \A kind \in Kinds : \A v : Usuals(s \o t) /\ Once(s \o t) /\ Effects(kind, v, s \o t) = Effects(kind, v, t)
  BY QuietBefore DEF Tells
<1> QED
  BY <1>1 DEF Tells, Kinds

LEMMA TellsPairAndQuiet ==
  ASSUME NEW x, Raw(x), NEW y, Raw(y), NEW q, Mute(q), NEW w, NEW a, NEW b, NEW z, Tells(<<x, y>>, w, a, b, z)
  PROVE  Tells(<<x, y, q>>, w, a, b, z)
<1>1. Raw(q) /\ q.ev \notin Telling
  BY DEF Mute
<1>2. Usual(x) /\ Usual(y)
  <2>1. Len(<<x, y>>) = 2 /\ <<x, y>>[1] = x /\ <<x, y>>[2] = y
    OBVIOUS
  <2> QED
    BY <2>1, 1 \in 1 .. 2, 2 \in 1 .. 2 DEF Tells, Usuals
<1>3. Usuals(<<x, y, q>>)
  BY <1>1, <1>2 DEF Usuals, Usual, IsLog, Telling, OfVaults
<1>4. Once(<<x, y, q>>)
  <2>1. Len(<<x, y>>) = 2 /\ <<x, y>>[1] = x /\ <<x, y>>[2] = y
    OBVIOUS
  <2>2. x.ev \in Moves => x.ev # y.ev
    BY <2>1, 1 \in 1 .. 2, 2 \in 1 .. 2 DEF Tells, Once
  <2> QED
    BY <1>1, <2>2 DEF Once, Telling, OfVaults
<1>5. \A kind \in Kinds : \A v : Effects(kind, v, <<x, y, q>>) = Shift(kind, v, w, a, b, z)
  <2> TAKE kind \in Kinds
  <2> TAKE v
  <2>1. Effects(kind, v, <<x, y, q>>) = Effect(kind, v, x) + Effect(kind, v, y) + Effect(kind, v, q)
    BY <1>1, EffectsThree
  <2>2. Effects(kind, v, <<x, y>>) = Effect(kind, v, x) + Effect(kind, v, y)
    BY EffectsTwo
  <2>3. Effect(kind, v, q) = 0 /\ Effects(kind, v, <<x, y>>) \in Int
    BY <1>1, QuietMovesNothing, EffectsInt, EffectsTwo
  <2>4. Effects(kind, v, <<x, y>>) = Shift(kind, v, w, a, b, z)
    BY DEF Tells
  <2>5. Effects(kind, v, <<x, y, q>>) = Effects(kind, v, <<x, y>>)
    BY <2>1, <2>2, <2>3
  <2> QED
    BY <2>4, <2>5
<1> QED
  BY <1>3, <1>4, <1>5 DEF Tells

LEMMA CrabDepositTells == ASSUME FollowInv, CrabDeposit PROVE IsTransaction
<1>1. PICK u \in Users, a \in Amounts, lp \in Amounts :
        /\ onchain' = Moved(onchain, CrabVault, a, a)
        /\ supply' = supply + lp
        /\ Mine(u, a, CrabMints(u, a, lp) \o <<Event("CrabDeposit", [depositor |-> u, lp |-> lp])>>)
        /\ UNCHANGED <<unseen, batched>>
  BY DEF CrabDeposit
<1>2. Mute(Event("CrabDeposit", [depositor |-> u, lp |-> lp]))
  BY EventIsQuiet DEF Telling, OfVaults, Moves, Shorts, NftMoves
<1>3. Tells(CrabMints(u, a, lp) \o <<Event("CrabDeposit", [depositor |-> u, lp |-> lp])>>, CrabVault, a, a, lp)
  BY <1>2, QuietList, Mints, TellsThenQuiet
<1> QED
  BY <1>1, <1>3, Vaults, ToldIsTransaction DEF IsTransaction

LEMMA CrabFlashDepositTells == ASSUME FollowInv, CrabFlashDeposit PROVE IsTransaction
<1> DEFINE quiet(u, excess) == <<Event("CrabFlashDepositCallback", [depositor |-> u, excess |-> excess]),
                                 Event("CrabFlashDeposit", [depositor |-> u, input3 |-> 0])>>
<1>1. PICK u \in Users, value \in Amounts, excess \in Amounts :
        /\ onchain' = Moved(onchain, CrabVault, value, value)
        /\ supply' = supply + value
        /\ Mine(u, value, CrabMints(u, value, value) \o quiet(u, excess))
        /\ UNCHANGED <<unseen, batched>>
  BY DEF CrabFlashDeposit
<1>2. /\ Mute(Event("CrabFlashDepositCallback", [depositor |-> u, excess |-> excess]))
      /\ Mute(Event("CrabFlashDeposit", [depositor |-> u, input3 |-> 0]))
  BY EventIsQuiet DEF Telling, OfVaults, Moves, Shorts, NftMoves
<1>3. Quiets(quiet(u, excess))
  BY <1>2, QuietList
<1> HIDE DEF quiet
<1>4. Tells(CrabMints(u, value, value) \o quiet(u, excess), CrabVault, value, value, value)
  BY <1>3, Mints, TellsThenQuiet
<1> QED
  BY <1>1, <1>4, Vaults, ToldIsTransaction DEF IsTransaction

LEMMA CrabFlashDepositERC20Tells == ASSUME FollowInv, CrabFlashDepositERC20 PROVE IsTransaction
<1> DEFINE quiet(min, out, excess) ==
             <<Event("CrabFlashDepositCallback", [depositor |-> CrabHelper, excess |-> excess]),
               Event("CrabFlashDeposit", [depositor |-> CrabHelper, input3 |-> min]),
               Event("FlashDepositERC20", [amount |-> out])>>
<1>1. PICK u \in Users, min \in Amounts, out \in Amounts, excess \in Amounts :
        /\ onchain' = Moved(onchain, CrabVault, out, out)
        /\ supply' = supply + out
        /\ Mine(u, 0, CrabMints(CrabHelper, out, out) \o quiet(min, out, excess))
        /\ UNCHANGED <<unseen, batched>>
  BY DEF CrabFlashDepositERC20
<1>2. /\ Mute(Event("CrabFlashDepositCallback", [depositor |-> CrabHelper, excess |-> excess]))
      /\ Mute(Event("CrabFlashDeposit", [depositor |-> CrabHelper, input3 |-> min]))
      /\ Mute(Event("FlashDepositERC20", [amount |-> out]))
  BY EventIsQuiet DEF Telling, OfVaults, Moves, Shorts, NftMoves
<1>3. Quiets(quiet(min, out, excess))
  BY <1>2, QuietList
<1> HIDE DEF quiet
<1>4. Tells(CrabMints(CrabHelper, out, out) \o quiet(min, out, excess), CrabVault, out, out, out)
  BY <1>3, Mints, TellsThenQuiet
<1> QED
  BY <1>1, <1>4, Vaults, ToldIsTransaction DEF IsTransaction

LEMMA CrabWithdrawTells == ASSUME FollowInv, CrabWithdraw PROVE IsTransaction
<1> DEFINE quiet(u, a) == <<Event("CrabWithdraw", [withdrawer |-> u, lp |-> a, eth |-> a])>>
<1>1. PICK u \in Users, a \in Amounts :
        /\ onchain' = Moved(onchain, CrabVault, -a, -a)
        /\ supply' = supply - a
        /\ Mine(u, 0, CrabBurns(u, a, a) \o quiet(u, a))
        /\ UNCHANGED <<unseen, batched>>
  BY DEF CrabWithdraw
<1>2. Mute(Event("CrabWithdraw", [withdrawer |-> u, lp |-> a, eth |-> a]))
  BY EventIsQuiet DEF Telling, OfVaults, Moves, Shorts, NftMoves
<1>3. Quiets(quiet(u, a))
  BY <1>2, QuietList
<1> HIDE DEF quiet
<1>4. Tells(CrabBurns(u, a, a) \o quiet(u, a), CrabVault, -a, -a, -a)
  BY <1>3, Burns, TellsThenQuiet, SubgraphAssumption
<1>5. supply' = supply + (-a)
  BY <1>1, Vaults
<1> QED
  BY <1>1, <1>4, <1>5, Vaults, ToldIsTransaction DEF IsTransaction

LEMMA CrabFlashWithdrawTells == ASSUME FollowInv, CrabFlashWithdraw PROVE IsTransaction
<1> DEFINE quiet(who, a, proceeds) ==
             <<Event("CrabFlashWithdrawCallback", [withdrawer |-> who, excess |-> proceeds]),
               Event("CrabFlashWithdraw", [withdrawer |-> who, lp |-> a])>>
           paid(who, proceeds) == IF who = CrabHelper THEN <<Event("FlashWithdrawERC20", [amount |-> proceeds])>> ELSE <<>>
<1>1. PICK u \in Users, a \in Amounts, proceeds \in Amounts : \E who \in {u, Migration, CrabHelper} :
        /\ onchain' = Moved(onchain, CrabVault, -a, -a)
        /\ supply' = supply - a
        /\ Mine(u, 0, CrabBurns(who, a, a) \o quiet(who, a, proceeds) \o paid(who, proceeds))
        /\ UNCHANGED <<unseen, batched>>
  BY DEF CrabFlashWithdraw
<1>2. PICK who \in {u, Migration, CrabHelper} :
        /\ onchain' = Moved(onchain, CrabVault, -a, -a)
        /\ supply' = supply - a
        /\ Mine(u, 0, CrabBurns(who, a, a) \o quiet(who, a, proceeds) \o paid(who, proceeds))
        /\ UNCHANGED <<unseen, batched>>
  BY <1>1
<1>3. /\ Mute(Event("CrabFlashWithdrawCallback", [withdrawer |-> who, excess |-> proceeds]))
      /\ Mute(Event("CrabFlashWithdraw", [withdrawer |-> who, lp |-> a]))
      /\ Mute(Event("FlashWithdrawERC20", [amount |-> proceeds]))
  BY EventIsQuiet DEF Telling, OfVaults, Moves, Shorts, NftMoves
<1>4. Quiets(quiet(who, a, proceeds)) /\ Quiets(paid(who, proceeds))
  BY <1>3, QuietList
<1>5. who # Zero
  BY SubgraphAssumption
<1> HIDE DEF quiet, paid
<1>6. Tells(CrabBurns(who, a, a) \o quiet(who, a, proceeds) \o paid(who, proceeds), CrabVault, -a, -a, -a)
  <2>1. Tells(CrabBurns(who, a, a) \o quiet(who, a, proceeds), CrabVault, -a, -a, -a)
    BY <1>4, <1>5, Burns, TellsThenQuiet
  <2> QED
    BY <2>1, <1>4, TellsThenQuiet
<1>7. supply' = supply + (-a)
  BY <1>2, Vaults
<1> QED
  BY <1>2, <1>6, <1>7, Vaults, ToldIsTransaction DEF IsTransaction

LEMMA BullFlashDepositTells == ASSUME FollowInv, BullFlashDeposit PROVE IsTransaction
<1> DEFINE quiet(c, receipt) ==
             <<Event("CrabDeposit", [depositor |-> FlashBull, lp |-> c]),
               Event("BullTransfer", [amount |-> c]),
               Event("BullDeposit", [depositor |-> FlashBull]),
               Event("BullTransfer", [amount |-> c]),
               Event("BullFlashDeposit", [receipt |-> receipt])>>
<1>1. \E u \in Users, c \in Amounts : \E value, receipt :
        /\ onchain' = Moved(onchain, CrabVault, c, c)
        /\ supply' = supply + c
        /\ Mine(u, value, CrabMints(FlashBull, c, c) \o quiet(c, receipt))
        /\ UNCHANGED <<unseen, batched>>
  BY DEF BullFlashDeposit
<1>2. PICK u \in Users, c \in Amounts : \E value, receipt :
        /\ onchain' = Moved(onchain, CrabVault, c, c)
        /\ supply' = supply + c
        /\ Mine(u, value, CrabMints(FlashBull, c, c) \o quiet(c, receipt))
        /\ UNCHANGED <<unseen, batched>>
  BY <1>1
<1>3. PICK value, receipt :
        /\ onchain' = Moved(onchain, CrabVault, c, c)
        /\ supply' = supply + c
        /\ Mine(u, value, CrabMints(FlashBull, c, c) \o quiet(c, receipt))
        /\ UNCHANGED <<unseen, batched>>
  BY <1>2
<1>4. /\ Mute(Event("CrabDeposit", [depositor |-> FlashBull, lp |-> c]))
      /\ Mute(Event("BullTransfer", [amount |-> c]))
      /\ Mute(Event("BullDeposit", [depositor |-> FlashBull]))
      /\ Mute(Event("BullFlashDeposit", [receipt |-> receipt]))
  BY EventIsQuiet DEF Telling, OfVaults, Moves, Shorts, NftMoves
<1>5. Quiets(quiet(c, receipt))
  BY <1>4, QuietList
<1> HIDE DEF quiet
<1>6. Tells(CrabMints(FlashBull, c, c) \o quiet(c, receipt), CrabVault, c, c, c)
  BY <1>5, Mints, TellsThenQuiet
<1> QED
  BY <1>3, <1>6, Vaults, ToldIsTransaction DEF IsTransaction

LEMMA BullFlashWithdrawTells == ASSUME FollowInv, BullFlashWithdraw PROVE IsTransaction
<1> DEFINE first(a) == <<Event("BullTransfer", [amount |-> a])>>
           quiet(a, back) ==
             <<Event("CrabWithdraw", [withdrawer |-> Bull, lp |-> a, eth |-> a]),
               Event("BullTransfer", [amount |-> a]),
               Event("BullWithdraw", [withdrawer |-> FlashBull, amount |-> a, eth |-> a]),
               Event("BullFlashWithdraw", [amount |-> a, eth |-> back])>>
<1>1. PICK u \in Users, a \in Amounts, back \in Amounts :
        /\ onchain' = Moved(onchain, CrabVault, -a, -a)
        /\ supply' = supply - a
        /\ Mine(u, 0, first(a) \o CrabBurns(Bull, a, a) \o quiet(a, back))
        /\ UNCHANGED <<unseen, batched>>
  BY DEF BullFlashWithdraw
<1>2. /\ Mute(Event("CrabWithdraw", [withdrawer |-> Bull, lp |-> a, eth |-> a]))
      /\ Mute(Event("BullTransfer", [amount |-> a]))
      /\ Mute(Event("BullWithdraw", [withdrawer |-> FlashBull, amount |-> a, eth |-> a]))
      /\ Mute(Event("BullFlashWithdraw", [amount |-> a, eth |-> back]))
  BY EventIsQuiet DEF Telling, OfVaults, Moves, Shorts, NftMoves
<1>3. Quiets(first(a)) /\ Quiets(quiet(a, back))
  BY <1>2, QuietList
<1> HIDE DEF quiet, first
<1>4. Tells(first(a) \o CrabBurns(Bull, a, a) \o quiet(a, back), CrabVault, -a, -a, -a)
  <2>1. Tells(first(a) \o CrabBurns(Bull, a, a), CrabVault, -a, -a, -a)
    BY <1>3, Burns, QuietThenTells, SubgraphAssumption
  <2> QED
    BY <2>1, <1>3, TellsThenQuiet
<1>5. supply' = supply + (-a)
  BY <1>1, Vaults
<1> QED
  BY <1>1, <1>4, <1>5, Vaults, ToldIsTransaction DEF IsTransaction

LEMMA QuietTells ==
  ASSUME NEW events, Quiets(events), NEW w
  PROVE  Tells(events, w, 0, 0, 0)
<1>1. Usuals(events) /\ Once(events)
  BY QuietsAreUsual
<1>2. \A kind \in Kinds : \A v : Effects(kind, v, events) = 0
  BY QuietsMoveNothing
<1> QED
  BY <1>1, <1>2 DEF Tells, Shift

LEMMA OneTells ==
  ASSUME NEW e, Usual(e), NEW w, NEW a, NEW b, NEW z,
         \A kind \in Kinds : \A v : Effect(kind, v, e) = Shift(kind, v, w, a, b, z)
  PROVE  Tells(<<e>>, w, a, b, z)
<1>1. Usuals(<<e>>) /\ Once(<<e>>)
  BY DEF Usuals, Once, IsLog
<1>2. \A kind \in Kinds : \A v : Effects(kind, v, <<e>>) = Effect(kind, v, e)
  BY EffectsOne DEF Usual
<1> QED
  BY <1>1, <1>2 DEF Tells

\* No vault moves.
LEMMA StillIsTransaction ==
  ASSUME FollowInv, NEW w \in VaultIds, onchain[w].open, NEW more \in Int, NEW events, Tells(events, w, 0, 0, more),
         onchain' = onchain, unseen' = unseen, supply' = supply + more, batched' = batched
  PROVE  Transaction(events)
<1>1. MovesRow(onchain, onchain', w, 0, 0) /\ MovesRow(unseen, unseen', w, 0, 0)
  BY Vaults, MovedMoves
<1>2. \A kind \in Kinds, v \in VaultIds : Effects(kind, v, events) = Shift(kind, v, w, 0 + 0, 0 + 0, more)
  BY DEF Tells
<1> QED
  BY <1>1, <1>2, MoveIsTransaction DEF Tells

LEMMA SharesTell ==
  ASSUME NEW src, NEW dst, NEW a \in Int, NEW z, z = (IF src = Zero THEN a ELSE IF dst = Zero THEN -a ELSE 0), NEW w
  PROVE  Tells(<<CrabShares(src, dst, a)>>, w, 0, 0, z)
<1>1. \A kind \in Kinds : \A v : /\ Raw(CrabShares(src, dst, a)) /\ CrabShares(src, dst, a).ev = "CrabTransfer"
                             /\ Effect(kind, v, CrabShares(src, dst, a)) = Shift(kind, v, w, 0, 0, z)
  BY CrabSharesMove
<1>2. Usual(CrabShares(src, dst, a))
  BY <1>1 DEF Usual, NftMoves, OfVaults, Moves, Shorts, Kinds
<1> QED
  BY <1>1, <1>2, OneTells

LEMMA CrabWithdrawShutdownTells == ASSUME FollowInv, CrabWithdrawShutdown PROVE IsTransaction
<1> DEFINE quiet(u, a) == <<Event("CrabWithdrawShutdown", [withdrawer |-> u, lp |-> a, eth |-> a])>>
<1>1. PICK u \in Users, a \in Amounts :
        /\ supply' = supply - a
        /\ Mine(u, 0, <<CrabShares(u, Zero, a), Event("CrabWithdrawShutdown", [withdrawer |-> u, lp |-> a, eth |-> a])>>)
        /\ NoVault
  BY DEF CrabWithdrawShutdown
<1>2. <<CrabShares(u, Zero, a), Event("CrabWithdrawShutdown", [withdrawer |-> u, lp |-> a, eth |-> a])>>
      = <<CrabShares(u, Zero, a)>> \o quiet(u, a)
  BY TwoJoin
<1>3. Mute(Event("CrabWithdrawShutdown", [withdrawer |-> u, lp |-> a, eth |-> a]))
  BY EventIsQuiet DEF Telling, OfVaults, Moves, Shorts, NftMoves
<1>4. Quiets(quiet(u, a))
  BY <1>3, QuietList
<1>5. -a = (IF u = Zero THEN a ELSE IF Zero = Zero THEN -a ELSE 0)
  BY SubgraphAssumption
<1> HIDE DEF quiet
<1>6. Tells(<<CrabShares(u, Zero, a)>> \o quiet(u, a), CrabVault, 0, 0, -a)
  BY <1>4, <1>5, Vaults, SharesTell, TellsThenQuiet
<1>7. supply' = supply + (-a)
  BY <1>1, Vaults
<1>8. Transaction(<<CrabShares(u, Zero, a)>> \o quiet(u, a))
  BY <1>1, <1>6, <1>7, Vaults, StillIsTransaction DEF NoVault
<1> QED
  BY <1>1, <1>2, <1>8 DEF IsTransaction

LEMMA QuietsTell == ASSUME FollowInv, Quiet PROVE IsTransaction
<1>1. PICK u \in Users, a \in Amounts :
        /\ \E events \in
             {<<Event("NettingDeposit", [user |-> u, amount |-> a]), Event("NettingWithdraw", [user |-> u, amount |-> a]),
                Event("NettingDeposit", [user |-> u, amount |-> a])>>,
              <<Event("HedgeOTCSingle", [amount |-> a]), Event("HedgeOTCSingle", [amount |-> a]), Event("HedgeOTC", [amount |-> a])>>,
              <<Event("QueueTransaction", [hash |-> a])>>, <<Event("ExecuteTransaction", [hash |-> a])>>,
              <<Event("SetHedgeTimeThreshold", [amount |-> a])>>, <<Event("SetStrategyCap", [amount |-> a])>>,
              <<Event("AuctionRepay", [amount |-> a]), Event("Rebalance", [amount |-> a])>>,
              <<Event("BullRedeemCrab", [amount |-> a]), Event("DepositEthIntoCrab", [amount |-> a]), Event("Farm", [amount |-> a]),
                Event("Rebalance", [amount |-> a])>>,
              <<Event("BullShutdown", [amount |-> a])>>, <<Event("BullWithdrawShutdown", [user |-> u, amount |-> a, lp |-> a])>>,
              <<Event("SetCap", [amount |-> a]), Event("SetAuction", [amount |-> a]), Event("SetRange", [amount |-> a]),
                Event("SetTolerance", [amount |-> a])>>, <<CrabShares(u, u, a)>>} :
             Mine(u, 0, events)
        /\ NoVault /\ NoShares
  BY DEF Quiet
<1>2. \A name : name \notin Telling => Mute(Event(name, [amount |-> a])) /\ Mute(Event(name, [hash |-> a]))
                  /\ Mute(Event(name, [user |-> u, amount |-> a])) /\ Mute(Event(name, [user |-> u, amount |-> a, lp |-> a]))
  BY EventIsQuiet
<1>3. {"NettingDeposit", "NettingWithdraw", "HedgeOTCSingle", "HedgeOTC", "QueueTransaction", "ExecuteTransaction",
       "SetHedgeTimeThreshold", "SetStrategyCap", "AuctionRepay", "Rebalance", "BullRedeemCrab", "DepositEthIntoCrab",
       "Farm", "BullShutdown", "BullWithdrawShutdown", "SetCap", "SetAuction", "SetRange", "SetTolerance"}
      \cap Telling = {}
  BY DEF Telling, OfVaults, Moves, Shorts, NftMoves
<1>4. PICK events : Mine(u, 0, events) /\ (Quiets(events) \/ events = <<CrabShares(u, u, a)>>)
  BY <1>1, <1>2, <1>3, QuietList
<1>5. 0 = (IF u = Zero THEN a ELSE IF u = Zero THEN -a ELSE 0)
  BY SubgraphAssumption
<1>6. Tells(<<CrabShares(u, u, a)>>, CrabVault, 0, 0, 0)
  BY <1>5, Vaults, SharesTell
<1>7. Tells(events, CrabVault, 0, 0, 0)
  BY <1>4, <1>6, QuietTells
<1>8. supply' = supply + 0
  BY <1>1, Vaults DEF NoShares
<1>9. Transaction(events)
  BY <1>1, <1>7, <1>8, Vaults, StillIsTransaction DEF NoVault
<1> QED
  BY <1>4, <1>9 DEF IsTransaction

LEMMA V1FlowsTell == ASSUME FollowInv, V1Flows PROVE IsTransaction
<1> DEFINE inward(u, a) == <<OnVault("MintShort", V1Vault, u, a), OnVault("DepositCollateral", V1Vault, u, a),
                             Event("V1Transfer", [src |-> Zero, dst |-> u, amount |-> a])>>
           outward(u, a) == <<OnVault("BurnShort", V1Vault, u, a), OnVault("WithdrawCollateral", V1Vault, u, a),
                              Event("V1Transfer", [src |-> u, dst |-> Zero, amount |-> a])>>
           in(flash, a, x) ==
             IF flash THEN <<Event("V1FlashDepositCallback", [excess |-> x]), Event("V1FlashDeposit", [amount |-> a])>>
             ELSE <<Event("V1Deposit", [lp |-> a])>>
           out(flash, a, x) ==
             IF flash THEN <<Event("V1FlashWithdrawCallback", [excess |-> x]), Event("V1FlashWithdraw", [lp |-> a])>>
             ELSE <<Event("V1Withdraw", [lp |-> a, eth |-> a])>>
           auction(a, x) == <<Event("V1Auction", [selling |-> x < a]), Event("V1Hedge", [type |-> "HEDGE_ON_UNISWAP"])>>
           moved(u, a) == <<Event("DepositV1Shares", [user |-> u, amount |-> a])>>
<1>1. PICK u \in Users, a \in Amounts, x \in Amounts :
        /\ \/ /\ x <= a /\ onchain' = Moved(onchain, V1Vault, a, a)
              /\ \E flash \in BOOLEAN : Mine(u, a, inward(u, a) \o in(flash, a, x))
           \/ /\ onchain[V1Vault].coll >= a /\ onchain' = Moved(onchain, V1Vault, -a, -a)
              /\ \E flash \in BOOLEAN : Mine(u, 0, outward(u, a) \o out(flash, a, x))
           \/ Mine(u, 0, auction(a, x)) /\ UNCHANGED onchain
           \/ Mine(u, 0, moved(u, a)) /\ UNCHANGED onchain
        /\ NoShares /\ UNCHANGED <<unseen, batched>>
  BY DEF V1Flows
<1>2. a \in Int /\ -a \in Int /\ V1Vault \in VaultIds /\ onchain[V1Vault].open /\ supply' = supply + 0
      /\ unseen' = unseen /\ batched' = batched
  BY <1>1, Vaults DEF NoShares
<1>3. {"V1Transfer", "V1FlashDepositCallback", "V1FlashDeposit", "V1Deposit", "V1FlashWithdrawCallback", "V1FlashWithdraw",
       "V1Withdraw", "V1Auction", "V1Hedge", "DepositV1Shares"} \cap Telling = {}
  BY DEF Telling, OfVaults, Moves, Shorts, NftMoves
<1>4. \A name \in {"V1FlashDepositCallback", "V1FlashWithdrawCallback"} : Mute(Event(name, [excess |-> x]))
  BY <1>3, EventIsQuiet
<1>5. Mute(Event("V1FlashDeposit", [amount |-> a])) /\ Mute(Event("V1Deposit", [lp |-> a]))
      /\ Mute(Event("V1FlashWithdraw", [lp |-> a])) /\ Mute(Event("V1Withdraw", [lp |-> a, eth |-> a]))
  BY <1>3, EventIsQuiet
<1>6. Mute(Event("V1Auction", [selling |-> x < a])) /\ Mute(Event("V1Hedge", [type |-> "HEDGE_ON_UNISWAP"]))
      /\ Mute(Event("DepositV1Shares", [user |-> u, amount |-> a]))
      /\ Mute(Event("V1Transfer", [src |-> Zero, dst |-> u, amount |-> a]))
      /\ Mute(Event("V1Transfer", [src |-> u, dst |-> Zero, amount |-> a]))
  BY <1>3, EventIsQuiet
<1>7. \A flash \in BOOLEAN : Quiets(in(flash, a, x)) /\ Quiets(out(flash, a, x))
  BY <1>4, <1>5, QuietList
<1>8. Quiets(auction(a, x)) /\ Quiets(moved(u, a))
  BY <1>6, QuietList
<1>9. Tells(inward(u, a), V1Vault, a, a, 0)
  <2>1. a = (IF "MintShort" = "MintShort" THEN a ELSE -a) /\ a = (IF "DepositCollateral" = "DepositCollateral" THEN a ELSE -a)
    OBVIOUS
  <2>2. "MintShort" \in {"MintShort", "BurnShort"} /\ "DepositCollateral" \in {"DepositCollateral", "WithdrawCollateral"}
    OBVIOUS
  <2>3. /\ Raw(OnVault("MintShort", V1Vault, u, a)) /\ Raw(OnVault("DepositCollateral", V1Vault, u, a))
        /\ Tells(<<OnVault("MintShort", V1Vault, u, a), OnVault("DepositCollateral", V1Vault, u, a)>>, V1Vault, a, a, 0)
    BY <1>2, <2>1, <2>2, TellsPair
  <2> QED
    BY <1>6, <2>3, TellsPairAndQuiet
<1>10. Tells(outward(u, a), V1Vault, -a, -a, 0)
  <2>1. -a = (IF "BurnShort" = "MintShort" THEN a ELSE -a)
        /\ -a = (IF "WithdrawCollateral" = "DepositCollateral" THEN a ELSE -a)
    OBVIOUS
  <2>2. "BurnShort" \in {"MintShort", "BurnShort"} /\ "WithdrawCollateral" \in {"DepositCollateral", "WithdrawCollateral"}
    OBVIOUS
  <2>3. /\ Raw(OnVault("BurnShort", V1Vault, u, a)) /\ Raw(OnVault("WithdrawCollateral", V1Vault, u, a))
        /\ Tells(<<OnVault("BurnShort", V1Vault, u, a), OnVault("WithdrawCollateral", V1Vault, u, a)>>, V1Vault, -a, -a, 0)
    BY <1>2, <2>1, <2>2, TellsPair
  <2> QED
    BY <1>6, <2>3, TellsPairAndQuiet
<1> HIDE DEF inward, outward, in, out, auction, moved
<1>11. CASE onchain' = Moved(onchain, V1Vault, a, a) /\ \E flash \in BOOLEAN : Mine(u, a, inward(u, a) \o in(flash, a, x))
  <2>1. PICK flash \in BOOLEAN : Mine(u, a, inward(u, a) \o in(flash, a, x))
    BY <1>11
  <2>2. Tells(inward(u, a) \o in(flash, a, x), V1Vault, a, a, 0)
    BY <1>7, <1>9, TellsThenQuiet
  <2> QED
    BY <1>2, <1>11, <2>1, <2>2, ToldIsTransaction DEF IsTransaction
<1>12. CASE onchain' = Moved(onchain, V1Vault, -a, -a) /\ \E flash \in BOOLEAN : Mine(u, 0, outward(u, a) \o out(flash, a, x))
  <2>1. PICK flash \in BOOLEAN : Mine(u, 0, outward(u, a) \o out(flash, a, x))
    BY <1>12
  <2>2. Tells(outward(u, a) \o out(flash, a, x), V1Vault, -a, -a, 0)
    BY <1>7, <1>10, TellsThenQuiet
  <2> QED
    BY <1>2, <1>12, <2>1, <2>2, ToldIsTransaction DEF IsTransaction
<1>13. CASE Mine(u, 0, auction(a, x)) /\ UNCHANGED onchain
  BY <1>2, <1>8, <1>13, QuietTells, StillIsTransaction DEF IsTransaction
<1>14. CASE Mine(u, 0, moved(u, a)) /\ UNCHANGED onchain
  BY <1>2, <1>8, <1>14, QuietTells, StillIsTransaction DEF IsTransaction
<1> QED
  BY <1>1, <1>11, <1>12, <1>13, <1>14

-----------------------------------------------------------------------------
(* The vaults of users. *)

LEMMA TruthAfter ==
  ASSUME FollowInv, NEW w, NEW short, NEW coll, Differ(onchain, unseen, onchain', unseen', w, short, coll),
         supply' = supply, NEW events,
         \A kind \in Kinds : \A v : Effects(kind, v, events) = Shift(kind, v, w, short, coll, 0)
  PROVE  \A kind \in Kinds, v \in VaultIds :
           Truth(kind, v, onchain', unseen', supply') = Truth(kind, v, onchain, unseen, supply) + Effects(kind, v, events)
<1> TAKE kind \in Kinds, v \in VaultIds
<1>1. supply \in Int /\ supply + 0 = supply
  BY Vaults
<1>2. Truth(kind, v, onchain', unseen', supply + 0) =
        Truth(kind, v, onchain, unseen, supply) + Shift(kind, v, w, short, coll, 0)
  BY <1>1, TruthMoves
<1> QED
  BY <1>1, <1>2

LEMMA MintWithFeeTells == ASSUME FollowInv, MintWithFee PROVE IsTransaction
<1>1. PICK u \in Users, v \in UserVaults, m \in Amounts, fee \in Amounts :
        /\ Open(v)
        /\ onchain' = Moved(onchain, v, m, -fee)
        /\ unseen' = Moved(unseen, v, 0, fee)
        /\ Mine(u, 0, <<OnVault("MintShort", v, u, m)>>)
        /\ NoShares /\ UNCHANGED batched
  BY DEF MintWithFee
<1>2. /\ m \in Int /\ fee \in Int /\ -fee \in Int /\ v \in VaultIds /\ onchain[v].open
      /\ supply' = supply + 0 /\ batched' = batched
  BY <1>1, Vaults DEF Open, NoShares
<1>3. MovesRow(onchain, onchain', v, m, -fee) /\ MovesRow(unseen, unseen', v, 0, fee)
  BY <1>1, <1>2, Vaults, MovedMoves
<1> DEFINE e == OnVault("MintShort", v, u, m)
<1>4. Raw(e) /\ e.ev = "MintShort" /\ e.vault = v
  BY <1>2, OnVaultIsRaw DEF OnVaultNames
<1>5. \A kind \in Kinds : \A x : Effect(kind, x, e) = Shift(kind, x, v, m, 0, 0)
  BY <1>2, OnVaultMoves DEF OnVaultNames
<1> HIDE DEF e
<1>6. Usual(e)
  BY <1>2, <1>4 DEF Usual, NftMoves
<1>7. Tells(<<e>>, v, m, 0, 0)
  BY <1>5, <1>6, OneTells
<1>8. \A kind \in Kinds, x \in VaultIds : Effects(kind, x, <<e>>) = Shift(kind, x, v, m + 0, -fee + fee, 0)
  BY <1>2, <1>7 DEF Tells
<1>9. Transaction(<<e>>)
  BY <1>2, <1>3, <1>7, <1>8, MoveIsTransaction DEF Tells
<1> QED
  BY <1>1, <1>9 DEF IsTransaction, e

LEMMA BurnAndWithdrawTells == ASSUME FollowInv, BurnAndWithdraw PROVE IsTransaction
<1>1. PICK u \in Users, v \in UserVaults, a \in Amounts, m \in Amounts : \E who \in {u, ShortHelper} :
        /\ Open(v)
        /\ onchain' = Moved(onchain, v, -m, -a)
        /\ Mine(u, 0, <<OnVault("BurnShort", v, who, m), OnVault("WithdrawCollateral", v, who, a)>>)
        /\ NoShares /\ UNCHANGED <<unseen, batched>>
  BY DEF BurnAndWithdraw
<1>2. PICK who \in {u, ShortHelper} :
        /\ Open(v)
        /\ onchain' = Moved(onchain, v, -m, -a)
        /\ Mine(u, 0, <<OnVault("BurnShort", v, who, m), OnVault("WithdrawCollateral", v, who, a)>>)
        /\ NoShares /\ UNCHANGED <<unseen, batched>>
  BY <1>1
<1>3. /\ m \in Int /\ a \in Int /\ -m \in Int /\ -a \in Int /\ v \in VaultIds /\ onchain[v].open
      /\ supply' = supply + 0 /\ batched' = batched /\ unseen' = unseen
  BY <1>2, Vaults DEF Open, NoShares
<1>4. /\ -m = (IF "BurnShort" = "MintShort" THEN m ELSE -m)
      /\ -a = (IF "WithdrawCollateral" = "DepositCollateral" THEN a ELSE -a)
  OBVIOUS
<1>5. "BurnShort" \in {"MintShort", "BurnShort"} /\ "WithdrawCollateral" \in {"DepositCollateral", "WithdrawCollateral"}
  OBVIOUS
<1>6. Tells(<<OnVault("BurnShort", v, who, m), OnVault("WithdrawCollateral", v, who, a)>>, v, -m, -a, 0)
  BY <1>3, <1>4, <1>5, TellsPair
<1>7. Transaction(<<OnVault("BurnShort", v, who, m), OnVault("WithdrawCollateral", v, who, a)>>)
  BY <1>2, <1>3, <1>6, ToldIsTransaction
<1> QED
  BY <1>2, <1>7 DEF IsTransaction

LEMMA LiquidateTells == ASSUME FollowInv, Liquidate PROVE IsTransaction
<1> DEFINE e(v, debt, paid) == Event("Liquidate", [vault |-> v, debt |-> debt, paid |-> paid])
<1>1. PICK u \in Users, v \in UserVaults, debt \in Amounts, paid \in Amounts :
        /\ Open(v)
        /\ onchain' = Moved(onchain, v, -debt, -paid)
        /\ Mine(u, 0, <<e(v, debt, paid)>>)
        /\ NoShares /\ UNCHANGED <<unseen, batched>>
  BY DEF Liquidate
<1>2. /\ debt \in Int /\ paid \in Int /\ -debt \in Int /\ -paid \in Int /\ v \in VaultIds /\ onchain[v].open
      /\ supply' = supply + 0 /\ batched' = batched /\ unseen' = unseen
  BY <1>1, Vaults DEF Open, NoShares
<1>3. \A kind \in Kinds : \A x :
        /\ Raw(e(v, debt, paid)) /\ e(v, debt, paid).ev = "Liquidate" /\ e(v, debt, paid).vault = v
        /\ Effect(kind, x, e(v, debt, paid)) = Shift(kind, x, v, -debt, -paid, 0)
  BY <1>2, LiquidateMoves
<1> HIDE DEF e
<1>4. Usual(e(v, debt, paid))
  BY <1>2, <1>3 DEF Usual, NftMoves, Kinds
<1>5. Tells(<<e(v, debt, paid)>>, v, -debt, -paid, 0)
  BY <1>3, <1>4, OneTells
<1>6. Transaction(<<e(v, debt, paid)>>)
  BY <1>1, <1>2, <1>5, ToldIsTransaction
<1> QED
  BY <1>1, <1>6 DEF IsTransaction

\* The settlement of a vault is not read, nor is the repayment of debt from its position.
LEMMA MuteOnVault ==
  ASSUME NEW name \in {"NormUpdated", "ReduceDebt", "RedeemShort"}, NEW w \in VaultIds, NEW who, NEW a \in Int
  PROVE  Mute(OnVault(name, w, who, a))
<1>1. name \in OnVaultNames
  BY DEF OnVaultNames
<1>2. Raw(OnVault(name, w, who, a)) /\ OnVault(name, w, who, a).ev = name
  BY <1>1, OnVaultIsRaw
<1> QED
  BY <1>2 DEF Mute, Telling, OfVaults, Moves, Shorts, NftMoves

LEMMA EmptyRow ==
  /\ Empty = [open |-> TRUE, short |-> 0, coll |-> 0, nft |-> FALSE]
  /\ Empty \in VaultRow
  /\ Empty.open = TRUE /\ Empty.nft = FALSE /\ Empty.short = 0 /\ Empty.coll = 0
<1> DEFINE n == [open |-> FALSE, short |-> 0, coll |-> 0, nft |-> FALSE]
<1>1. Empty = [n EXCEPT !.open = TRUE]
  BY DEF Empty, None
<1>2. DOMAIN n = {"open", "short", "coll", "nft"} /\ n.short = 0 /\ n.coll = 0 /\ n.nft = FALSE
  OBVIOUS
<1> HIDE DEF n
<1>3. DOMAIN Empty = {"open", "short", "coll", "nft"}
  BY <1>1, <1>2
<1>4. Empty.open = TRUE /\ Empty.nft = FALSE /\ Empty.short = 0 /\ Empty.coll = 0
  BY <1>1, <1>2
<1>5. Empty = [open |-> TRUE, short |-> 0, coll |-> 0, nft |-> FALSE]
  BY <1>1, <1>2, <1>3, <1>4
<1>6. Empty \in VaultRow
  BY <1>5 DEF VaultRow
<1> QED
  BY <1>4, <1>5, <1>6

LEMMA RedeemShortTells == ASSUME FollowInv, RedeemShort PROVE IsTransaction
<1>1. PICK u \in Users, v \in UserVaults :
        /\ Open(v) /\ ~onchain[v].nft
        /\ onchain' = [onchain EXCEPT ![v] = Empty]
        /\ unseen' = Moved(unseen, v, onchain[v].short, onchain[v].coll)
        /\ Mine(u, 0, <<OnVault("RedeemShort", v, u, 0)>>)
        /\ NoShares /\ UNCHANGED batched
  BY DEF RedeemShort
<1> DEFINE short == onchain[v].short
           coll == onchain[v].coll
<1>2. /\ onchain[v] \in VaultRow /\ v \in VaultIds /\ onchain[v].open
      /\ supply' = supply + 0 /\ batched' = batched
  BY <1>1, Vaults DEF Open, NoShares
<1>3. short \in Int /\ coll \in Int /\ onchain[v].nft = FALSE
  BY <1>1, <1>2 DEF VaultRow
<1>5. MovesRow(onchain, onchain', v, -short, -coll)
  <2>1. onchain' \in [VaultIds -> VaultRow]
    BY <1>1, <1>2, EmptyRow, Vaults
  <2>2. onchain'[v] = Empty /\ \A x \in VaultIds : x # v => onchain'[x] = onchain[x]
    BY <1>1, <1>2, Vaults
  <2>3. onchain[v].open = TRUE
    BY <1>2 DEF VaultRow
  <2>4. onchain'[v].open = onchain[v].open /\ onchain'[v].nft = onchain[v].nft
    BY <1>3, <2>2, <2>3, EmptyRow
  <2>5. onchain'[v].short = short + (-short) /\ onchain'[v].coll = coll + (-coll)
    BY <1>3, <2>2, EmptyRow
  <2> QED
    BY <2>1, <2>2, <2>4, <2>5 DEF MovesRow
<1>6. MovesRow(unseen, unseen', v, short, coll)
  BY <1>1, <1>2, <1>3, Vaults, MovedMoves
<1>7. Quiets(<<OnVault("RedeemShort", v, u, 0)>>)
  BY <1>2, MuteOnVault, QuietList
<1>8. Tells(<<OnVault("RedeemShort", v, u, 0)>>, v, 0, 0, 0)
  BY <1>7, QuietTells
<1> HIDE DEF short, coll
<1>9. \A kind \in Kinds, x \in VaultIds :
        Effects(kind, x, <<OnVault("RedeemShort", v, u, 0)>>) = Shift(kind, x, v, -short + short, -coll + coll, 0)
  BY <1>3, <1>8 DEF Tells
<1>10. -short \in Int /\ -coll \in Int
  BY <1>3
<1>11. Transaction(<<OnVault("RedeemShort", v, u, 0)>>)
  BY <1>2, <1>3, <1>5, <1>6, <1>8, <1>9, <1>10, MoveIsTransaction DEF Tells
<1> QED
  BY <1>1, <1>11 DEF IsTransaction

\* A transaction of which no event opens a vault or moves a position.
LEMMA UsualIsTransaction ==
  ASSUME FollowInv, NEW events, Usuals(events), batched' \in BOOLEAN, batched => batched', ~batched' => Once(events),
         supply' \in Int, onchain' \in [VaultIds -> VaultRow], unseen' \in [VaultIds -> VaultRow],
         \A v \in VaultIds : /\ onchain'[v].open = onchain[v].open /\ There(v)' = There(v)
                             /\ ~(onchain'[v].nft /\ unseen'[v].nft)
                             /\ ~onchain[v].open => onchain'[v] = onchain[v] /\ unseen'[v] = unseen[v],
         \A kind \in Kinds, v \in VaultIds :
           Truth(kind, v, onchain', unseen', supply') = Truth(kind, v, onchain, unseen, supply) + Effects(kind, v, events)
  PROVE  Transaction(events)
<1>1. \A v \in VaultIds : ~onchain[v].open => onchain[v] = None /\ unseen[v] = Empty
  BY DEF FollowInv, ChainOK
<1>2. Raws(events)
  BY UsualsAreRaw
<1>3. \A v \in VaultIds, i \in 1 .. Len(events) :
        ~Opens(events[i], v) /\ ~OnNft(events[i], v) /\ (On(events[i], v) => onchain[v].open)
  BY DEF Usuals, Usual, Opens, OnNft, On
<1> QED
  BY <1>1, <1>2, <1>3 DEF Transaction, Once

LEMMA DepositTwiceTells == ASSUME FollowInv, DepositTwice PROVE IsTransaction
<1>1. PICK u \in Users, v \in UserVaults, w \in UserVaults, a \in Amounts, b \in Amounts :
        /\ Open(v) /\ Open(w)
        /\ onchain' = Moved(Moved(onchain, v, 0, a), w, 0, b)
        /\ batched' = TRUE
        /\ Mine(u, a + b, <<OnVault("DepositCollateral", v, u, a), OnVault("DepositCollateral", w, u, b)>>)
        /\ NoShares /\ UNCHANGED unseen
  BY DEF DepositTwice
<1> DEFINE mid == Moved(onchain, v, 0, a)
           x == OnVault("DepositCollateral", v, u, a)
           y == OnVault("DepositCollateral", w, u, b)
<1>2. /\ a \in Int /\ b \in Int /\ v \in VaultIds /\ w \in VaultIds /\ onchain[v].open /\ onchain[w].open
      /\ supply' = supply /\ unseen' = unseen /\ supply \in Int
      /\ onchain \in [VaultIds -> VaultRow] /\ unseen \in [VaultIds -> VaultRow]
  BY <1>1, Vaults DEF Open, NoShares
<1>3. MovesRow(onchain, mid, v, 0, a)
  BY <1>2, MovedMoves
<1>4. mid \in [VaultIds -> VaultRow]
  BY <1>3 DEF MovesRow
<1>5. onchain' = Moved(mid, w, 0, b)
  BY <1>1
<1> HIDE DEF mid
<1>6. MovesRow(mid, onchain', w, 0, b)
  BY <1>2, <1>4, <1>5, MovedMoves
<1>7. Differ(onchain, unseen, mid, unseen, v, 0, a)
  <2>1. onchain[v] \in VaultRow /\ unseen[v] \in VaultRow
    BY <1>2
  <2> QED
    BY <1>2, <1>3, <2>1 DEF Differ, MovesRow, VaultRow
<1>8. Differ(mid, unseen, onchain', unseen', w, 0, b)
  <2>1. mid[w] \in VaultRow /\ unseen[w] \in VaultRow
    BY <1>2, <1>4
  <2> QED
    BY <1>2, <1>4, <1>6, <2>1 DEF Differ, MovesRow, VaultRow
<1>9. /\ Raw(x) /\ x.ev = "DepositCollateral" /\ x.vault = v
      /\ Raw(y) /\ y.ev = "DepositCollateral" /\ y.vault = w
  BY <1>2, OnVaultIsRaw DEF OnVaultNames
<1>10. \A kind \in Kinds : \A q : Effect(kind, q, x) = Shift(kind, q, v, 0, a, 0) /\ Effect(kind, q, y) = Shift(kind, q, w, 0, b, 0)
  BY <1>2, OnVaultMoves DEF OnVaultNames
<1> HIDE DEF x, y
<1>11. Usuals(<<x, y>>)
  BY <1>2, <1>9 DEF Usuals, Usual, IsLog, NftMoves
<1>12. ASSUME NEW kind \in Kinds, NEW q \in VaultIds
       PROVE  Truth(kind, q, onchain', unseen', supply') = Truth(kind, q, onchain, unseen, supply) + Effects(kind, q, <<x, y>>)
  <2>1. Truth(kind, q, mid, unseen, supply + 0) = Truth(kind, q, onchain, unseen, supply) + Effect(kind, q, x)
    BY <1>2, <1>7, <1>10, TruthMoves
  <2>2. Truth(kind, q, onchain', unseen', supply + 0) = Truth(kind, q, mid, unseen, supply) + Effect(kind, q, y)
    BY <1>2, <1>8, <1>10, TruthMoves
  <2>3. supply + 0 = supply
    BY <1>2
  <2>4. Effects(kind, q, <<x, y>>) = Effect(kind, q, x) + Effect(kind, q, y)
    BY <1>9, EffectsTwo
  <2>5. Truth(kind, q, onchain, unseen, supply) \in Int
    BY <1>2, AnnouncedInt DEF Truth, VaultRow, Kinds
  <2>6. Effect(kind, q, x) \in Int /\ Effect(kind, q, y) \in Int
    BY <1>9, RawEffects
  <2>7. Truth(kind, q, mid, unseen, supply) = Truth(kind, q, onchain, unseen, supply) + Effect(kind, q, x)
    BY <2>1, <2>3
  <2>8. Truth(kind, q, onchain', unseen', supply') = Truth(kind, q, mid, unseen, supply) + Effect(kind, q, y)
    BY <2>2, <2>3, <1>2
  <2> QED
    BY ONLY <2>4, <2>5, <2>6, <2>7, <2>8
<1>13. ASSUME NEW q \in VaultIds
       PROVE  /\ onchain'[q].open = onchain[q].open /\ There(q)' = There(q)
              /\ ~(onchain'[q].nft /\ unseen'[q].nft)
              /\ ~onchain[q].open => onchain'[q] = onchain[q] /\ unseen'[q] = unseen[q]
  <2>1. onchain'[q].open = onchain[q].open /\ onchain'[q].nft = onchain[q].nft
    BY <1>3, <1>6 DEF MovesRow
  <2>2. ~onchain[q].open => onchain'[q] = onchain[q]
    BY <1>2, <1>3, <1>6 DEF MovesRow
  <2> QED
    BY <1>2, <2>1, <2>2 DEF There, FollowInv, ChainOK
<1>14. onchain' \in [VaultIds -> VaultRow]
  BY <1>6 DEF MovesRow
<1>15. Transaction(<<x, y>>)
  BY <1>1, <1>2, <1>11, <1>12, <1>13, <1>14, UsualIsTransaction
<1> QED
  BY <1>1, <1>15 DEF IsTransaction, x, y

\* The position of one vault is set, nothing else.
NftRow(f, g, w, there) ==
  /\ g \in [VaultIds -> VaultRow]
  /\ \A v \in VaultIds : v # w => g[v] = f[v]
  /\ g[w].open = f[w].open /\ g[w].short = f[w].short /\ g[w].coll = f[w].coll /\ g[w].nft = there

LEMMA NftIsSet ==
  ASSUME NEW f \in [VaultIds -> VaultRow], NEW w \in VaultIds, NEW there \in BOOLEAN
  PROVE  NftRow(f, [f EXCEPT ![w].nft = there], w, there)
<1> DEFINE r == [f[w] EXCEPT !.nft = there]
<1>1. f[w] \in VaultRow
  OBVIOUS
<1>2. r \in VaultRow /\ r.open = f[w].open /\ r.short = f[w].short /\ r.coll = f[w].coll /\ r.nft = there
  BY <1>1 DEF VaultRow
<1>3. [f EXCEPT ![w].nft = there] = [f EXCEPT ![w] = r]
  OBVIOUS
<1> HIDE DEF r
<1> QED
  BY <1>2, <1>3 DEF NftRow

\* A transaction of one event, on the position of a vault.
LEMMA NftIsTransaction ==
  ASSUME FollowInv, NEW w \in VaultIds, onchain[w].open, NEW e, Raw(e), e.ev \in NftMoves, e.vault = w,
         NEW chained \in BOOLEAN, NEW left \in BOOLEAN, ~(chained /\ left),
         NftRow(onchain, onchain', w, chained), NftRow(unseen, unseen', w, left),
         (e.ev = "DepositNft") = (chained \/ left), supply' = supply, batched' = batched,
         \A kind \in Kinds : \A v : Effect(kind, v, e) = 0
  PROVE  Transaction(<<e>>)
<1>1. /\ Raws(<<e>>) /\ Len(<<e>>) = 1 /\ <<e>>[1] = e
      /\ \A kind, v : Effects(kind, v, <<e>>) = Effect(kind, v, e)
  BY EffectsOne
<1>2. supply' \in Int /\ batched' \in BOOLEAN
  BY DEF FollowInv, ChainOK
<1>3. onchain' \in [VaultIds -> VaultRow] /\ unseen' \in [VaultIds -> VaultRow]
  BY DEF NftRow
<1>4. Differ(onchain, unseen, onchain', unseen', w, 0, 0)
  <2>1. onchain[w] \in VaultRow /\ unseen[w] \in VaultRow
    BY Vaults
  <2> QED
    BY <1>3, <2>1, Vaults DEF Differ, NftRow, VaultRow
<1>5. \A kind \in Kinds, v \in VaultIds :
        Truth(kind, v, onchain', unseen', supply') = Truth(kind, v, onchain, unseen, supply) + Effects(kind, v, <<e>>)
  <2>1. \A kind \in Kinds : \A v : Effects(kind, v, <<e>>) = Shift(kind, v, w, 0, 0, 0)
    BY <1>1 DEF Shift
  <2> QED
    BY <1>4, <2>1, TruthAfter
<1>6. \A v \in VaultIds :
        /\ ~onchain'[v].open => onchain'[v] = None /\ unseen'[v] = Empty
        /\ ~(onchain'[v].nft /\ unseen'[v].nft)
        /\ onchain'[v].open = onchain[v].open
  BY DEF NftRow, FollowInv, ChainOK
<1>7. \A v \in VaultIds, i \in 1 .. Len(<<e>>) : ~Opens(<<e>>[i], v) /\ (On(<<e>>[i], v) => onchain[v].open)
  BY <1>1 DEF Opens, On, NftMoves
<1>8. ASSUME NEW v \in VaultIds
      PROVE  \/ Len(<<e>>) = 1 /\ OnNft(<<e>>[1], v) /\ (<<e>>[1].ev = "DepositNft") = There(v)'
             \/ There(v)' = There(v) /\ \A i \in 1 .. Len(<<e>>) : ~OnNft(<<e>>[i], v)
  <2>1. CASE v = w
    <3>1. There(v)' = (chained \/ left)
      BY <2>1 DEF There, NftRow
    <3> QED
      BY <1>1, <2>1, <3>1 DEF OnNft
  <2>2. CASE v # w
    <3>1. There(v)' = There(v)
      BY <2>2 DEF There, NftRow
    <3> QED
      BY <1>1, <2>2, <3>1 DEF OnNft
  <2> QED
    BY <2>1, <2>2
<1>9. \A i, j \in 1 .. Len(<<e>>) : i = j
  BY <1>1
<1> QED
  BY <1>1, <1>2, <1>3, <1>5, <1>6, <1>7, <1>8, <1>9 DEF Transaction

LEMMA AddNftTells == ASSUME FollowInv, AddNft PROVE IsTransaction
<1>1. PICK u \in Users, v \in UserVaults :
        /\ Open(v) /\ ~onchain[v].nft
        /\ onchain' = [onchain EXCEPT ![v].nft = TRUE]
        /\ unseen' = [unseen EXCEPT ![v].nft = FALSE]
        /\ Mine(u, 0, <<OnVault("DepositNft", v, u, 0)>>)
        /\ NoShares /\ UNCHANGED batched
  BY DEF AddNft
<1>2. v \in VaultIds /\ onchain[v].open /\ supply' = supply /\ batched' = batched
  BY <1>1, Vaults DEF Open, NoShares
<1>3. NftRow(onchain, onchain', v, TRUE) /\ NftRow(unseen, unseen', v, FALSE)
  BY <1>1, <1>2, Vaults, NftIsSet
<1> DEFINE e == OnVault("DepositNft", v, u, 0)
<1>4. Raw(e) /\ e.ev = "DepositNft" /\ e.vault = v
  BY <1>2, OnVaultIsRaw DEF OnVaultNames
<1>5. \A kind \in Kinds : \A x : Effect(kind, x, e) = 0
  BY <1>4 DEF Effect, ShortMove, CollMove, SharesMove, Moves, Shorts
<1> HIDE DEF e
<1>6. e.ev \in NftMoves /\ (e.ev = "DepositNft") = (TRUE \/ FALSE)
  BY <1>4 DEF NftMoves
<1>7. Transaction(<<e>>)
  BY <1>2, <1>3, <1>4, <1>5, <1>6, NftIsTransaction
<1> QED
  BY <1>1, <1>7 DEF IsTransaction, e

LEMMA TakeNftTells == ASSUME FollowInv, TakeNft PROVE IsTransaction
<1>1. PICK u \in Users, v \in UserVaults :
        /\ Open(v) /\ onchain[v].nft
        /\ onchain' = [onchain EXCEPT ![v].nft = FALSE]
        /\ Mine(u, 0, <<OnVault("WithdrawNft", v, u, 0)>>)
        /\ NoShares /\ UNCHANGED <<unseen, batched>>
  BY DEF TakeNft
<1>2. v \in VaultIds /\ onchain[v].open /\ supply' = supply /\ batched' = batched /\ unseen' = unseen
  BY <1>1, Vaults DEF Open, NoShares
<1>3. NftRow(onchain, onchain', v, FALSE)
  BY <1>1, <1>2, Vaults, NftIsSet
<1>4. NftRow(unseen, unseen', v, FALSE)
  <2>1. unseen[v].nft = FALSE
    BY <1>1, <1>2, Vaults DEF FollowInv, ChainOK, VaultRow
  <2> QED
    BY <1>2, <2>1, Vaults DEF NftRow
<1> DEFINE e == OnVault("WithdrawNft", v, u, 0)
<1>5. Raw(e) /\ e.ev = "WithdrawNft" /\ e.vault = v
  BY <1>2, OnVaultIsRaw DEF OnVaultNames
<1>6. \A kind \in Kinds : \A x : Effect(kind, x, e) = 0
  BY <1>5 DEF Effect, ShortMove, CollMove, SharesMove, Moves, Shorts
<1> HIDE DEF e
<1>7. e.ev \in NftMoves /\ (e.ev = "DepositNft") = (FALSE \/ FALSE)
  BY <1>5 DEF NftMoves
<1>8. Transaction(<<e>>)
  BY <1>2, <1>3, <1>4, <1>5, <1>6, <1>7, NftIsTransaction
<1> QED
  BY <1>1, <1>8 DEF IsTransaction, e

\* The position is redeemed to save the vault: what it repays goes with it, unread.
LEMMA LiquidateSavedTells == ASSUME FollowInv, LiquidateSaved PROVE IsTransaction
<1>1. PICK u \in Users, v \in UserVaults, burnt \in Amounts, eth \in Amounts :
        /\ Open(v) /\ onchain[v].nft
        /\ Reduced(v, burnt, eth)
        /\ Mine(u, 0, <<OnVault("ReduceDebt", v, u, burnt)>>)
        /\ NoShares /\ UNCHANGED batched
  BY DEF LiquidateSaved
<1>2. /\ burnt \in Int /\ eth \in Int /\ -burnt \in Int /\ -eth \in Int /\ v \in VaultIds /\ onchain[v].open
      /\ supply' = supply /\ batched' = batched /\ supply \in Int /\ batched \in BOOLEAN
      /\ onchain[v] \in VaultRow /\ unseen[v] \in VaultRow
  BY <1>1, Vaults DEF Open, NoShares, FollowInv, ChainOK
<1> DEFINE f == Moved(onchain, v, -burnt, eth)
           g == Moved(unseen, v, burnt, -eth)
<1>3. MovesRow(onchain, f, v, -burnt, eth) /\ MovesRow(unseen, g, v, burnt, -eth)
  BY <1>2, Vaults, MovedMoves
<1>4. f \in [VaultIds -> VaultRow] /\ g \in [VaultIds -> VaultRow]
  BY <1>3 DEF MovesRow
<1>5. onchain' = [f EXCEPT ![v].nft = FALSE] /\ unseen' = [g EXCEPT ![v].nft = TRUE]
  BY <1>1 DEF Reduced
<1> HIDE DEF f, g
<1>6. NftRow(f, onchain', v, FALSE) /\ NftRow(g, unseen', v, TRUE)
  BY <1>2, <1>4, <1>5, NftIsSet
<1>7. onchain' \in [VaultIds -> VaultRow] /\ unseen' \in [VaultIds -> VaultRow]
  BY <1>6 DEF NftRow
<1>8. /\ onchain'[v].short = onchain[v].short + (-burnt) /\ onchain'[v].coll = onchain[v].coll + eth
      /\ unseen'[v].short = unseen[v].short + burnt /\ unseen'[v].coll = unseen[v].coll + (-eth)
      /\ onchain'[v].open = onchain[v].open /\ onchain'[v].nft = FALSE /\ unseen'[v].nft = TRUE
      /\ \A x \in VaultIds : x # v => onchain'[x] = onchain[x] /\ unseen'[x] = unseen[x]
  BY <1>3, <1>6 DEF MovesRow, NftRow
<1>9. Differ(onchain, unseen, onchain', unseen', v, 0, 0)
  BY <1>2, <1>7, <1>8, Vaults DEF Differ, VaultRow
<1>10. Quiets(<<OnVault("ReduceDebt", v, u, burnt)>>)
  BY <1>2, MuteOnVault, QuietList
<1>11. Tells(<<OnVault("ReduceDebt", v, u, burnt)>>, v, 0, 0, 0)
  BY <1>10, QuietTells
<1>12. \A kind \in Kinds, x \in VaultIds :
         Truth(kind, x, onchain', unseen', supply') =
           Truth(kind, x, onchain, unseen, supply) + Effects(kind, x, <<OnVault("ReduceDebt", v, u, burnt)>>)
  BY <1>2, <1>9, <1>11, TruthAfter DEF Tells
<1>13. ASSUME NEW x \in VaultIds
       PROVE  /\ onchain'[x].open = onchain[x].open /\ There(x)' = There(x)
              /\ ~(onchain'[x].nft /\ unseen'[x].nft)
              /\ ~onchain[x].open => onchain'[x] = onchain[x] /\ unseen'[x] = unseen[x]
  <2>1. CASE x = v
    <3>1. onchain[v].nft = TRUE
      BY <1>1, <1>2 DEF VaultRow
    <3> QED
      BY <1>2, <1>8, <2>1, <3>1 DEF There
  <2>2. CASE x # v
    BY <1>8, <2>2 DEF There, FollowInv, ChainOK
  <2> QED
    BY <2>1, <2>2
<1>14. Transaction(<<OnVault("ReduceDebt", v, u, burnt)>>)
  BY <1>2, <1>7, <1>11, <1>12, <1>13, UsualIsTransaction DEF Tells
<1> QED
  BY <1>1, <1>14 DEF IsTransaction

\* Of vault v if of any, and neither opens it nor moves its position.
Plain(e, v) == e.ev # "OpenVault" /\ e.ev \notin NftMoves /\ (e.ev \in OfVaults => e.vault = v)

\* A vault is opened, and the first event of it says so.
LEMMA OpenShortTells == ASSUME FollowInv, OpenShort PROVE IsTransaction
<1> DEFINE o(v) == Event("OpenVault", [vault |-> v])
           n(v, who) == OnVault("NormUpdated", v, who, 0)
           s(v, who, m) == OnVault("MintShort", v, who, m)
           d(v, who, a) == OnVault("DepositCollateral", v, who, a)
           row(m, a) == [Empty EXCEPT !.short = m, !.coll = a]
<1>1. PICK u \in Users, v \in UserVaults, a \in Amounts, m \in Amounts : \E who \in {u, ShortHelper} :
        /\ ~Open(v)
        /\ onchain' = [onchain EXCEPT ![v] = row(m, a)]
        /\ Mine(u, a, <<n(v, who), o(v), s(v, who, m), d(v, who, a)>>)
        /\ NoShares /\ UNCHANGED <<unseen, batched>>
  BY DEF OpenShort
<1>2. PICK who \in {u, ShortHelper} :
        /\ ~Open(v)
        /\ onchain' = [onchain EXCEPT ![v] = row(m, a)]
        /\ Mine(u, a, <<n(v, who), o(v), s(v, who, m), d(v, who, a)>>)
        /\ NoShares /\ UNCHANGED <<unseen, batched>>
  BY <1>1
<1>3. /\ m \in Int /\ a \in Int /\ v \in VaultIds /\ ~onchain[v].open
      /\ supply' = supply /\ supply \in Int /\ batched' = batched /\ batched \in BOOLEAN /\ unseen' = unseen
      /\ onchain \in [VaultIds -> VaultRow] /\ unseen \in [VaultIds -> VaultRow]
  BY <1>2, Vaults DEF Open, NoShares, FollowInv, ChainOK
<1>4. /\ row(m, a) \in VaultRow /\ row(m, a).open = TRUE /\ row(m, a).nft = FALSE
      /\ row(m, a).short = m /\ row(m, a).coll = a
  <2> DEFINE r == [Empty EXCEPT !.short = m]
  <2>1. r \in VaultRow /\ r.open = TRUE /\ r.nft = FALSE /\ r.short = m
    BY <1>3, EmptyRow DEF VaultRow
  <2>2. row(m, a) = [r EXCEPT !.coll = a]
    OBVIOUS
  <2> HIDE DEF r
  <2> QED
    BY <1>3, <2>1, <2>2 DEF VaultRow
<1>5. /\ Raw(o(v)) /\ o(v).ev = "OpenVault" /\ o(v).vault = v
      /\ \A kind \in Kinds : \A x : Effect(kind, x, o(v)) = 0
  <2>1. \A kind \in Kinds : \A x : Raw(o(v)) /\ o(v).ev = "OpenVault" /\ o(v).vault = v /\ Effect(kind, x, o(v)) = 0
    BY <1>3, OpenVaultMoves
  <2> QED
    BY <2>1 DEF Kinds
<1>6. Raw(n(v, who)) /\ n(v, who).ev \notin Telling
  BY <1>3, MuteOnVault DEF Mute
<1>7. /\ Raw(s(v, who, m)) /\ s(v, who, m).ev = "MintShort" /\ s(v, who, m).vault = v
      /\ Raw(d(v, who, a)) /\ d(v, who, a).ev = "DepositCollateral" /\ d(v, who, a).vault = v
  BY <1>3, OnVaultIsRaw DEF OnVaultNames
<1>8. \A kind \in Kinds : \A x :
        /\ Effect(kind, x, n(v, who)) = 0
        /\ Effect(kind, x, s(v, who, m)) = Shift(kind, x, v, m, 0, 0)
        /\ Effect(kind, x, d(v, who, a)) = Shift(kind, x, v, 0, a, 0)
  BY <1>3, <1>6, QuietMovesNothing, OnVaultMoves DEF OnVaultNames
<1> DEFINE e1 == n(v, who)
           e2 == o(v)
           e3 == s(v, who, m)
           e4 == d(v, who, a)
           events == <<e1, e2, e3, e4>>
           new == row(m, a)
<1>9. /\ Len(events) = 4 /\ events[1] = e1 /\ events[2] = e2 /\ events[3] = e3 /\ events[4] = e4
  OBVIOUS
<1>a. Mine(u, a, events) /\ onchain' = [onchain EXCEPT ![v] = new]
  BY <1>2
<1>b. /\ new \in VaultRow /\ new.open = TRUE /\ new.nft = FALSE /\ new.short = m /\ new.coll = a
  BY <1>4
<1>c. /\ Raw(e1) /\ e1.ev \notin Telling /\ Raw(e2) /\ e2.ev = "OpenVault" /\ e2.vault = v
      /\ Raw(e3) /\ e3.ev = "MintShort" /\ e3.vault = v /\ Raw(e4) /\ e4.ev = "DepositCollateral" /\ e4.vault = v
  BY <1>5, <1>6, <1>7
<1>d. \A kind \in Kinds : \A x :
        /\ Effect(kind, x, e1) = 0 /\ Effect(kind, x, e2) = 0
        /\ Effect(kind, x, e3) = Shift(kind, x, v, m, 0, 0) /\ Effect(kind, x, e4) = Shift(kind, x, v, 0, a, 0)
  BY <1>5, <1>8
<1> HIDE DEF o, n, s, d, row, e1, e2, e3, e4, new
<1>10. Raws(events)
  BY <1>c, EffectsFour
<1>11. \A kind \in Kinds : \A x : Effects(kind, x, events) = Shift(kind, x, v, m, a, 0)
  <2> TAKE kind \in Kinds
  <2> TAKE x
  <2>1. Effects(kind, x, events) = Effect(kind, x, e1) + Effect(kind, x, e2) + Effect(kind, x, e3) + Effect(kind, x, e4)
    BY <1>c, EffectsFour
  <2> QED
    BY <2>1, <1>3, <1>d DEF Shift
<1>e. /\ Len(events) = 4
      /\ \A i \in 1 .. Len(events) : i = 2 \/ Plain(events[i], v)
      /\ \A i \in 1 .. Len(events) : events[i].ev \in Moves => i = 4
  <2>1. \A i \in 1 .. 4 : i = 1 \/ i = 2 \/ i = 3 \/ i = 4
    OBVIOUS
  <2>2. Plain(e1, v) /\ Plain(e3, v) /\ Plain(e4, v)
    BY <1>c DEF Plain, Telling, OfVaults, NftMoves, Moves
  <2>3. e1.ev \notin Moves /\ e2.ev \notin Moves /\ e3.ev \notin Moves
    BY <1>c DEF Telling, OfVaults, Moves
  <2> QED
    BY <1>9, <2>1, <2>2, <2>3
<1>f. events[2].ev = "OpenVault" /\ events[2].vault = v
      /\ ~On(events[1], v)
  BY <1>9, <1>c DEF On, Telling
<1> HIDE DEF events
<1>12. onchain[v] = None /\ unseen[v] = Empty
  BY <1>3 DEF FollowInv, ChainOK
<1>13. onchain' \in [VaultIds -> VaultRow] /\ unseen' \in [VaultIds -> VaultRow]
  BY <1>3, <1>a, <1>b
<1>14. onchain'[v] = new /\ \A x \in VaultIds : x # v => onchain'[x] = onchain[x]
  BY <1>3, <1>a
<1>15. Differ(onchain, unseen, onchain', unseen', v, m, a)
  <2>1. None.short = 0 /\ None.coll = 0
    BY DEF None
  <2>2. /\ onchain'[v].short + unseen'[v].short = onchain[v].short + unseen[v].short + m
        /\ onchain'[v].coll + unseen'[v].coll = onchain[v].coll + unseen[v].coll + a
    BY <1>3, <1>b, <1>12, <1>14, <2>1, EmptyRow
  <2> QED
    BY <1>3, <1>13, <1>14, <2>2 DEF Differ
<1>16. \A kind \in Kinds, x \in VaultIds :
         Truth(kind, x, onchain', unseen', supply') = Truth(kind, x, onchain, unseen, supply) + Effects(kind, x, events)
  BY <1>3, <1>11, <1>15, TruthAfter
<1>17. \A x \in VaultIds :
         /\ ~onchain'[x].open => onchain'[x] = None /\ unseen'[x] = Empty
         /\ ~(onchain'[x].nft /\ unseen'[x].nft)
         /\ onchain[x].open => onchain'[x].open
         /\ There(x)' = There(x)
  <2> TAKE x \in VaultIds
  <2>1. CASE x = v
    <3>1. onchain'[v].open /\ ~onchain'[v].nft /\ ~unseen'[v].nft
      BY <1>3, <1>b, <1>12, <1>14, EmptyRow
    <3>2. ~onchain[v].nft /\ ~unseen[v].nft
      BY <1>12, EmptyRow DEF None
    <3> QED
      BY <2>1, <3>1, <3>2 DEF There
  <2>2. CASE x # v
    <3>1. onchain'[x] = onchain[x] /\ unseen'[x] = unseen[x]
      BY <1>3, <1>14, <2>2
    <3> QED
      BY <3>1 DEF There, FollowInv, ChainOK
  <2> QED
    BY <2>1, <2>2
<1>18. ASSUME NEW x \in VaultIds
       PROVE  \/ /\ ~onchain[x].open /\ onchain'[x].open
                 /\ \E k \in 1 .. Len(events) : OpensAt(events, k, x)
              \/ /\ onchain'[x].open = onchain[x].open
                 /\ \A i \in 1 .. Len(events) : ~Opens(events[i], x) /\ (On(events[i], x) => onchain[x].open)
  <2>1. CASE x = v
    <3>1. \A i \in 1 .. Len(events) : i < 2 => i = 1
      BY <1>e
    <3>2. OpensAt(events, 2, v) /\ 2 \in 1 .. Len(events)
      BY <1>e, <1>f, <3>1 DEF OpensAt, Opens, Plain
    <3> QED
      BY <1>3, <1>b, <1>14, <2>1, <3>2
  <2>2. CASE x # v
    <3>1. \A i \in 1 .. Len(events) : ~Opens(events[i], x) /\ ~On(events[i], x)
      BY <1>e, <1>f, <2>2 DEF Opens, On, Plain
    <3> QED
      BY <1>14, <2>2, <3>1
  <2> QED
    BY <2>1, <2>2
<1>19. \A x \in VaultIds, i \in 1 .. Len(events) : ~OnNft(events[i], x)
  BY <1>e, <1>f DEF OnNft, NftMoves, Plain
<1>20. \A i, j \in 1 .. Len(events) : events[i].ev \in Moves /\ events[j].ev = events[i].ev => i = j
  BY <1>e
<1>21. supply' \in Int /\ batched' \in BOOLEAN /\ (batched => batched')
  BY <1>3
<1>22. Transaction(events)
  BY <1>10, <1>13, <1>16, <1>17, <1>18, <1>19, <1>20, <1>21 DEF Transaction
<1> QED
  BY <1>a, <1>22 DEF IsTransaction

-----------------------------------------------------------------------------
(* The chain keeps the invariant. *)

LEMMA ChainKeepsInv ==
  ASSUME FollowInv, VaultTransaction \/ StrategyTransaction PROVE FollowInv' /\ IsTransaction
<1>1. TotalsMove
  BY DEF VaultTransaction, StrategyTransaction
<1>2. IsTransaction
  <2>1. CASE VaultTransaction
    BY <2>1, OpenShortTells, MintWithFeeTells, BurnAndWithdrawTells, DepositTwiceTells, AddNftTells, TakeNftTells,
       LiquidateSavedTells, LiquidateTells, RedeemShortTells DEF VaultTransaction
  <2>2. CASE StrategyTransaction
    BY <2>2, CrabDepositTells, CrabFlashDepositTells, CrabFlashDepositERC20Tells, CrabWithdrawTells,
       CrabFlashWithdrawTells, CrabWithdrawShutdownTells, BullFlashDepositTells, BullFlashWithdrawTells,
       V1FlowsTell, QuietsTell DEF StrategyTransaction
  <2> QED
    BY <2>1, <2>2
<1> QED
  BY <1>1, <1>2, TransactionKeepsInv DEF IsTransaction

-----------------------------------------------------------------------------
(* The indexing node: snapshots. *)

LEMMA StartOfPeriod ==
  ASSUME NEW time \in Nat, NEW period \in Nat \ {0}
  PROVE  \E q \in Nat : /\ (time \div period) * period = q * period
                        /\ q * period \in Nat /\ q * period <= time /\ time < q * period + period
<1> DEFINE q == time \div period
<1>1. q \in Nat /\ time = period * q + (time % period) /\ time % period \in 0 .. period - 1
  OBVIOUS
<1>2. q * period = period * q
  BY <1>1
<1> HIDE DEF q
<1>3. q * period \in Nat
  BY <1>1, ProductIsNat
<1>4. q * period <= time /\ time < q * period + period
  BY <1>1, <1>2, <1>3
<1> QED
  BY <1>1, <1>3, <1>4 DEF q

\* Two periods are the same, or one is over when the other starts.
LEMMA PeriodsApart ==
  ASSUME NEW m \in Nat, NEW n \in Nat, NEW period \in Nat \ {0}, m * period < n * period + period
  PROVE  m * period = n * period \/ m * period + period <= n * period
<1>1. m * period \in Nat /\ n * period \in Nat
  BY ProductIsNat
<1>2. CASE m = n
  BY <1>2
<1>3. CASE m > n
  <2>1. PICK k \in Nat : m = n + 1 + k
    <3>1. m - n - 1 \in Nat /\ m = n + 1 + (m - n - 1)
      BY <1>3
    <3> QED
      BY <3>1
  <2>2. k * period \in Nat
    BY ProductIsNat
  <2>3. m * period = n * period + period + k * period
    BY <2>1
  <2> QED
    BY <1>1, <2>2, <2>3
<1>4. CASE m < n
  <2>1. PICK k \in Nat : n = m + 1 + k
    <3>1. n - m - 1 \in Nat /\ n = m + 1 + (n - m - 1)
      BY <1>4
    <3> QED
      BY <3>1
  <2>2. k * period \in Nat
    BY ProductIsNat
  <2>3. n * period = m * period + period + k * period
    BY <2>1
  <2> QED
    BY <1>1, <2>2, <2>3
<1> QED
  BY <1>2, <1>3, <1>4

\* The log after the handler of its first event.
LEMMA Handling ==
  ASSUME LogOK, now \in Times, pending # <<>>
  PROVE  /\ Len(pending) \in Nat \ {0} /\ Head(pending) = pending[1] /\ Fit(pending[1])
         /\ pending[1].time \in 0 .. now
         /\ IsLog(Tail(pending)) /\ Len(Tail(pending)) = Len(pending) - 1
         /\ \A i \in 1 .. Len(Tail(pending)) :
              Tail(pending)[i] = pending[i + 1] /\ i + 1 \in 1 .. Len(pending) /\ pending[1].time <= pending[i + 1].time
         /\ \A i \in 1 .. Len(pending) : pending[i].time \in 0 .. now /\ pending[1].time <= pending[i].time
         /\ \A i \in 2 .. Len(pending) : i - 1 \in 1 .. Len(Tail(pending)) /\ Tail(pending)[i - 1] = pending[i]
<1>1. /\ Len(pending) \in Nat \ {0} /\ Head(pending) = pending[1]
      /\ IsLog(Tail(pending)) /\ Len(Tail(pending)) = Len(pending) - 1
      /\ \A i \in 1 .. Len(pending) - 1 : Tail(pending)[i] = pending[i + 1]
  BY LogTail DEF LogOK
<1>2. 1 \in 1 .. Len(pending)
  BY <1>1
<1>3. Fit(pending[1]) /\ \A i \in 1 .. Len(pending) : pending[i].time \in 0 .. now /\ pending[1].time <= pending[i].time
  BY <1>1, <1>2 DEF LogOK
<1>4. \A i \in 1 .. Len(Tail(pending)) : i + 1 \in 1 .. Len(pending) /\ Tail(pending)[i] = pending[i + 1]
  BY <1>1
<1>5. \A i \in 2 .. Len(pending) : i - 1 \in 1 .. Len(Tail(pending)) /\ Tail(pending)[i - 1] = pending[i]
  <2> TAKE i \in 2 .. Len(pending)
  <2>1. i - 1 \in 1 .. Len(pending) - 1 /\ (i - 1) + 1 = i
    BY <1>1
  <2> QED
    BY <1>1, <2>1
<1> QED
  BY <1>1, <1>2, <1>3, <1>4, <1>5

\* A handler that moves no collateral leaves the snapshots.
LEMMA SnapRests ==
  ASSUME LogOK, now \in Times, pending # <<>>, NEW snap, NEW period, NEW held \in Int,
         SnapOK(snap, period, held, pending, totalAt, now), Effect("total", CrabVault, pending[1]) = 0
  PROVE  SnapOK(snap, period, held, Tail(pending), totalAt, now)
<1>1. \A t : Rest("total", CrabVault, Tail(pending), t) = Rest("total", CrabVault, pending, t)
  <2> TAKE t
  <2>1. \A i \in 1 .. Len(pending) : Fit(pending[i])
    BY DEF LogOK
  <2>2. /\ Rest("total", CrabVault, pending, t) =
             (IF pending[1].time <= t THEN Effect("total", CrabVault, pending[1]) ELSE 0)
               + Rest("total", CrabVault, Tail(pending), t)
        /\ Rest("total", CrabVault, Tail(pending), t) \in Int
    BY <2>1, RestOfTail DEF LogOK
  <2> QED
    BY <2>2
<1>2. \A i \in 1 .. Len(Tail(pending)) : snap.start <= Tail(pending)[i].time
  BY Handling DEF SnapOK
<1> QED
  BY <1>1, <1>2 DEF SnapOK

\* One that moves some adds it to the period of the event, after filing away the last.
LEMMA SnapMoves ==
  ASSUME LogOK, now \in Times, totalAt \in [Times -> Int], pending # <<>>,
         NEW snap, NEW period \in Nat \ {0}, NEW held \in Int, NEW amount \in Int,
         SnapOK(snap, period, held, pending, totalAt, now), Effect("total", CrabVault, pending[1]) = amount
  PROVE  SnapOK([Snapshot(snap, pending[1].time, period) EXCEPT !.total = @ + amount],
                period, held + amount, Tail(pending), totalAt, now)
<1> DEFINE time == pending[1].time
           log == Tail(pending)
<1>1. time \in Nat /\ time <= now /\ now \in Nat /\ now <= MaxTime /\ MaxTime \in Nat
  BY Handling, SubgraphAssumption DEF Times
<1>2. \A t : /\ Rest("total", CrabVault, pending, t) = (IF time <= t THEN amount ELSE 0) + Rest("total", CrabVault, log, t)
             /\ Rest("total", CrabVault, log, t) \in Int
  BY RestOfTail DEF LogOK
<1>3. \A i \in 1 .. Len(pending) : time <= pending[i].time /\ pending[i].time \in Nat
  BY Handling
<1>4. \A i \in 1 .. Len(log) : time <= log[i].time /\ log[i].time \in Nat
  BY Handling
<1>5. PICK q \in Nat : /\ (time \div period) * period = q * period
                       /\ q * period \in Nat /\ q * period <= time /\ time < q * period + period
  BY <1>1, StartOfPeriod
<1> DEFINE start == q * period
<1>6. start \in Nat /\ start <= time /\ time < start + period /\ (time \div period) * period = start
  BY <1>5
<1>7. /\ {"start", "total", "past"} \subseteq DOMAIN snap /\ snap.total = held
      /\ snap.start = -1 \/ \E n \in Nat : snap.start = n * period
      /\ snap.start <= time
      /\ \A t \in Times : snap.start + period - 1 <= t => held + Rest("total", CrabVault, pending, t) = totalAt[t]
      /\ \A h \in DOMAIN snap.past : h \in Nat /\ h + period - 1 < now /\ snap.past[h] = totalAt[h + period - 1]
  <2>1. 1 \in 1 .. Len(pending)
    BY Handling
  <2> QED
    BY <2>1 DEF SnapOK
<1>8. \/ snap.start = start
      \/ snap.start = -1
      \/ snap.start \in Nat /\ snap.start # start /\ snap.start + period <= start
  <2>1. ASSUME NEW n \in Nat, snap.start = n * period
        PROVE  snap.start \in Nat /\ (snap.start = start \/ snap.start + period <= start)
    <3>a. n * period \in Nat
      BY ProductIsNat
    <3>b. snap.start < start + period /\ snap.start <= time
      BY ONLY <1>1, <1>6, <1>7, <2>1, <3>a, period \in Nat \ {0}
    <3>1. n * period < q * period + period
      BY ONLY <2>1, <3>b
    <3> QED
      BY <2>1, <3>1, PeriodsApart
  <2> QED
    BY <1>7, <2>1
<1> HIDE DEF start
<1> DEFINE filed == Snapshot(snap, time, period)
<1>9. /\ {"start", "total", "past"} \subseteq DOMAIN filed /\ filed.total = held /\ filed.start = start
      /\ \/ filed.past = snap.past
         \/ /\ filed.past = Put(snap.past, snap.start, held)
            /\ snap.start \in Nat /\ snap.start + period <= start
  <2>1. CASE snap.start = start
    BY <1>6, <1>7, <2>1 DEF Snapshot
  <2>2. CASE snap.start # start /\ snap.start = -1
    BY <1>6, <1>7, <2>2 DEF Snapshot
  <2>3. CASE snap.start # start /\ snap.start # -1
    BY <1>6, <1>7, <1>8, <2>3 DEF Snapshot
  <2> QED
    BY <2>1, <2>2, <2>3
<1>10. ASSUME NEW t \in Times, start + period - 1 <= t
       PROVE  held + amount + Rest("total", CrabVault, log, t) = totalAt[t]
  <2>1. t \in Nat
    BY <1>1 DEF Times
  <2>a. time <= t /\ snap.start + period - 1 <= t
    BY ONLY <1>1, <1>6, <1>8, <1>10, <2>1, period \in Nat \ {0}
  <2>2. held + Rest("total", CrabVault, pending, t) = totalAt[t]
    BY <1>7, <2>a
  <2> QED
    BY <1>2, <2>a, <2>2
<1>11. ASSUME snap.start \in Nat, snap.start + period <= start
       PROVE  snap.start + period - 1 < now /\ held = totalAt[snap.start + period - 1]
  <2> DEFINE t == snap.start + period - 1
  <2>1. t \in Nat /\ t < time
    BY ONLY <1>1, <1>6, <1>11, period \in Nat \ {0}
  <2>a. t \in Times
    BY <1>1, <2>1 DEF Times
  <2>2. \A i \in 1 .. Len(pending) : ~(pending[i].time <= t)
    BY <1>3, <1>1, <2>1
  <2>3. held + Rest("total", CrabVault, pending, t) = totalAt[t]
    BY <1>7, <2>a
  <2> HIDE DEF t
  <2>4. Rest("total", CrabVault, pending, t) = 0
    BY <2>2, RestOfLater DEF LogOK
  <2>5. t < now /\ held = totalAt[t]
    BY <1>1, <2>1, <2>3, <2>4
  <2> QED
    BY <2>5 DEF t
<1>12. \A h \in DOMAIN filed.past : h \in Nat /\ h + period - 1 < now /\ filed.past[h] = totalAt[h + period - 1]
  BY <1>7, <1>9, <1>11 DEF Put
<1> HIDE DEF filed, log, time
<1> DEFINE next == [filed EXCEPT !.total = @ + amount]
<1>13. /\ {"start", "total", "past"} \subseteq DOMAIN next /\ next.total = held + amount
       /\ next.start = start /\ next.past = filed.past
  BY <1>9
<1> HIDE DEF next
<1>14. SnapOK(next, period, held + amount, log, totalAt, now)
  <2>a. start <= now
    BY ONLY <1>1, <1>6
  <2>b. ASSUME NEW i \in 1 .. Len(log) PROVE start <= log[i].time
    <3>1. time <= log[i].time /\ log[i].time \in Nat
      BY <1>4
    <3> QED
      BY ONLY <1>1, <1>6, <3>1
  <2>1. next.start <= now /\ \A i \in 1 .. Len(log) : next.start <= log[i].time
    BY <1>13, <2>a, <2>b
  <2>2. \E n \in Nat : next.start = n * period
    BY <1>13 DEF start
  <2>3. \A t \in Times : next.start + period - 1 <= t =>
          held + amount + Rest("total", CrabVault, log, t) = totalAt[t]
    BY <1>10, <1>13
  <2> QED
    BY <1>12, <1>13, <2>1, <2>2, <2>3 DEF SnapOK
<1> QED
  BY <1>14 DEF next, filed, log, time

-----------------------------------------------------------------------------
(* The indexing node: what its handlers keep. *)

\* What a handler does to the snapshots and to the entities, for the event it handles.
SnapsMove(s, e, s2) ==
  \/ CollMove(e) = 0 /\ s2.hour = s.hour /\ s2.day = s.day
  \/ /\ s2.hour = [Snapshot(s.hour, e.time, HOUR) EXCEPT !.total = @ + CollMove(e)]
     /\ s2.day = [Snapshot(s.day, e.time, DAY) EXCEPT !.total = @ + CollMove(e)]

Handles(s, e, s2) ==
  /\ StoreOK(s2)
  /\ \A kind \in Kinds, v \in VaultIds : Held(kind, v, s2) = Held(kind, v, s) + Effect(kind, v, e)
  /\ \A v \in VaultIds :
       /\ s2.vaults[v].open = (s.vaults[v].open \/ Opens(e, v))
       /\ ~OnNft(e, v) => s2.vaults[v].nft = s.vaults[v].nft
       /\ OnNft(e, v) => s2.vaults[v].nft = (e.ev = "DepositNft")
  /\ SnapsMove(s, e, s2)

HandlesNext ==
  /\ pending # <<>> /\ pending' = Tail(pending) /\ Handles(store, pending[1], store')
  /\ UNCHANGED <<now, txs, onchain, unseen, supply, totalAt, truth, batched>>

LEMMA HeldInt ==
  ASSUME NEW s, StoreOK(s), NEW kind \in Kinds, NEW v \in VaultIds PROVE Held(kind, v, s) \in Int
<1>1. HeldColl(s.vaults) \in Int
  <2> DEFINE f == [x \in VaultIds |-> s.vaults[x].coll]
  <2>1. \A x \in VaultIds : f[x] \in Int
    BY DEF StoreOK, VaultRow
  <2>2. DOMAIN f = VaultIds
    OBVIOUS
  <2> HIDE DEF f
  <2>3. SumOver(f, VaultIds) \in Int
    BY <2>1, VaultsAreFinite, SumInt
  <2> QED
    BY <2>2, <2>3 DEF HeldColl, SumOf, f
<1> QED
  BY <1>1 DEF Held, Kinds, StoreOK, VaultRow

LEMMA IndexKeepsLog == ASSUME FollowInv, HandlesNext PROVE ChainOK' /\ LogOK'
<1>1. ChainOK'
  BY DEF FollowInv, ChainOK, HandlesNext
<1>2. /\ IsLog(pending') /\ Len(pending) \in Nat /\ Len(pending') = Len(pending) - 1
      /\ \A i \in 1 .. Len(pending') : pending'[i] = pending[i + 1] /\ i + 1 \in 1 .. Len(pending)
  BY Handling DEF FollowInv, HandlesNext, LogOK, ChainOK
<1>3. ASSUME NEW i \in 1 .. Len(pending')
      PROVE  /\ Fit(pending'[i]) /\ {"tx", "time"} \subseteq DOMAIN pending'[i]
             /\ pending'[i].tx \in 1 .. txs' /\ pending'[i].time \in 0 .. now'
  BY <1>2, <1>3 DEF FollowInv, LogOK, HandlesNext
<1>4. ASSUME NEW i \in 1 .. Len(pending'), NEW j \in 1 .. Len(pending'), i <= j
      PROVE  pending'[i].time <= pending'[j].time
  <2>1. i + 1 <= j + 1
    BY <1>2, <1>4
  <2> QED
    BY <1>2, <2>1 DEF FollowInv, LogOK
<1> QED
  BY <1>1, <1>2, <1>3, <1>4 DEF LogOK

LEMMA IndexKeepsOrder == ASSUME FollowInv, HandlesNext PROVE OpenedInOrder'
<1>1. /\ Len(pending) \in Nat \ {0} /\ Len(pending') = Len(pending) - 1
      /\ \A i \in 1 .. Len(pending') : pending'[i] = pending[i + 1] /\ i + 1 \in 1 .. Len(pending)
      /\ \A i \in 2 .. Len(pending) : i - 1 \in 1 .. Len(pending') /\ pending'[i - 1] = pending[i]
  BY Handling DEF FollowInv, HandlesNext, LogOK, ChainOK
<1>2. \A v \in VaultIds : store'.vaults[v].open = (store.vaults[v].open \/ Opens(pending[1], v)) /\ onchain'[v] = onchain[v]
  BY DEF HandlesNext, Handles
<1>3. \A e, v : Opens(e, v) => On(e, v)
  BY DEF On, Opens, OfVaults
<1> SUFFICES ASSUME NEW v \in VaultIds
             PROVE  /\ store'.vaults[v].open => onchain[v].open
                    /\ ~onchain[v].open => \A i \in 1 .. Len(pending') : ~On(pending'[i], v)
                    /\ ~store'.vaults[v].open =>
                         /\ onchain[v].open => \E i \in 1 .. Len(pending') : Opens(pending'[i], v)
                         /\ \A i \in 1 .. Len(pending') : On(pending'[i], v) => \E j \in 1 .. i : Opens(pending'[j], v)
                    /\ \A i \in 1 .. Len(pending') : Opens(pending'[i], v) =>
                         ~store'.vaults[v].open /\ \A j \in 1 .. Len(pending') : Opens(pending'[j], v) => j = i
  BY <1>2 DEF OpenedInOrder
<1>4. /\ store.vaults[v].open => onchain[v].open
      /\ ~onchain[v].open => \A i \in 1 .. Len(pending) : ~On(pending[i], v)
      /\ ~store.vaults[v].open =>
           /\ onchain[v].open => \E i \in 1 .. Len(pending) : Opens(pending[i], v)
           /\ \A i \in 1 .. Len(pending) : On(pending[i], v) => \E j \in 1 .. i : Opens(pending[j], v)
      /\ \A i \in 1 .. Len(pending) : Opens(pending[i], v) =>
           ~store.vaults[v].open /\ \A j \in 1 .. Len(pending) : Opens(pending[j], v) => j = i
  BY DEF FollowInv, OpenedInOrder
<1> HIDE DEF Opens, On
<1>5. 1 \in 1 .. Len(pending)
  BY <1>1
<1>6. store'.vaults[v].open => onchain[v].open
  BY <1>2, <1>3, <1>4, <1>5
<1>7. ~onchain[v].open => \A i \in 1 .. Len(pending') : ~On(pending'[i], v)
  BY <1>1, <1>4
<1>8. ASSUME ~store'.vaults[v].open, onchain[v].open PROVE \E i \in 1 .. Len(pending') : Opens(pending'[i], v)
  <2>1. PICK i \in 1 .. Len(pending) : Opens(pending[i], v)
    BY <1>2, <1>4, <1>8
  <2>2. i # 1
    BY <1>2, <1>8, <2>1
  <2>3. i \in 2 .. Len(pending)
    BY <1>1, <2>2
  <2> QED
    BY <1>1, <2>1, <2>3
<1>9. ASSUME ~store'.vaults[v].open, NEW i \in 1 .. Len(pending'), On(pending'[i], v)
      PROVE  \E j \in 1 .. i : Opens(pending'[j], v)
  <2>1. PICK j \in 1 .. i + 1 : Opens(pending[j], v)
    BY <1>1, <1>2, <1>4, <1>9
  <2>2. j # 1
    BY <1>2, <1>9, <2>1
  <2>3. j \in 2 .. Len(pending) /\ j - 1 \in 1 .. i
    BY <1>1, <2>2
  <2>4. Opens(pending'[j - 1], v)
    BY <1>1, <2>1, <2>3
  <2> QED
    BY <2>3, <2>4
<1>10. ASSUME NEW i \in 1 .. Len(pending'), Opens(pending'[i], v)
       PROVE  ~store'.vaults[v].open /\ \A j \in 1 .. Len(pending') : Opens(pending'[j], v) => j = i
  <2>1. i + 1 \in 1 .. Len(pending) /\ Opens(pending[i + 1], v) /\ i + 1 # 1
    BY <1>1, <1>10
  <2>2. ~store.vaults[v].open /\ \A j \in 1 .. Len(pending) : Opens(pending[j], v) => j = i + 1
    BY <1>4, <2>1
  <2>3. ~Opens(pending[1], v)
    BY <1>5, <2>1, <2>2
  <2>4. ASSUME NEW j \in 1 .. Len(pending'), Opens(pending'[j], v) PROVE j = i
    <3>1. j + 1 = i + 1
      BY <1>1, <2>2, <2>4
    <3> QED
      BY <3>1
  <2> QED
    BY <1>2, <2>2, <2>3, <2>4
<1> QED
  BY <1>6, <1>7, <1>8, <1>9, <1>10

LEMMA IndexKeepsBalance == ASSUME FollowInv, HandlesNext PROVE Balanced'
<1> SUFFICES ASSUME NEW kind \in Kinds, NEW v \in VaultIds
             PROVE  Held(kind, v, store') + Rest(kind, v, pending', MaxTime) = Truth(kind, v, onchain, unseen, supply)
  BY DEF Balanced, HandlesNext
<1>1. 1 \in 1 .. Len(pending) /\ pending[1].time \in 0 .. now /\ now <= MaxTime /\ MaxTime \in Nat /\ now \in Nat
  BY Handling, SubgraphAssumption DEF FollowInv, HandlesNext, LogOK, ChainOK, Times
<1>2. pending[1].time <= MaxTime
  BY <1>1
<1>3. /\ Rest(kind, v, pending, MaxTime) = Effect(kind, v, pending[1]) + Rest(kind, v, pending', MaxTime)
      /\ Rest(kind, v, pending', MaxTime) \in Int
  BY <1>2, RestOfTail DEF FollowInv, LogOK, HandlesNext
<1>4. Effect(kind, v, pending[1]) \in Int /\ Held(kind, v, store) \in Int
  BY <1>1, EffectIsInt, HeldInt DEF FollowInv, LogOK
<1>5. Held(kind, v, store') = Held(kind, v, store) + Effect(kind, v, pending[1])
  BY DEF HandlesNext, Handles
<1>6. Held(kind, v, store) + Rest(kind, v, pending, MaxTime) = Truth(kind, v, onchain, unseen, supply)
  BY DEF FollowInv, Balanced
<1> QED
  BY ONLY <1>3, <1>4, <1>5, <1>6

LEMMA IndexKeepsNft == ASSUME FollowInv, HandlesNext PROVE NftFollows'
<1>1. /\ Len(pending) \in Nat \ {0} /\ Len(pending') = Len(pending) - 1
      /\ \A i \in 1 .. Len(pending') : pending'[i] = pending[i + 1] /\ i + 1 \in 1 .. Len(pending)
      /\ \A i \in 2 .. Len(pending) : i - 1 \in 1 .. Len(pending') /\ pending'[i - 1] = pending[i]
  BY Handling DEF FollowInv, HandlesNext, LogOK, ChainOK
<1> SUFFICES ASSUME NEW v \in VaultIds
             PROVE  /\ \A i \in 1 .. Len(pending') :
                         OnNft(pending'[i], v) /\ (\A j \in i + 1 .. Len(pending') : ~OnNft(pending'[j], v)) =>
                           (pending'[i].ev = "DepositNft") = There(v)
                    /\ (\A i \in 1 .. Len(pending') : ~OnNft(pending'[i], v)) => store'.vaults[v].nft = There(v)
  BY DEF NftFollows, There, HandlesNext
<1>2. /\ \A i \in 1 .. Len(pending) :
           OnNft(pending[i], v) /\ (\A j \in i + 1 .. Len(pending) : ~OnNft(pending[j], v)) =>
             (pending[i].ev = "DepositNft") = There(v)
      /\ (\A i \in 1 .. Len(pending) : ~OnNft(pending[i], v)) => store.vaults[v].nft = There(v)
  BY DEF FollowInv, NftFollows, There
<1>3. /\ ~OnNft(pending[1], v) => store'.vaults[v].nft = store.vaults[v].nft
      /\ OnNft(pending[1], v) => store'.vaults[v].nft = (pending[1].ev = "DepositNft")
  BY DEF HandlesNext, Handles
<1> HIDE DEF OnNft, There
<1>4. ASSUME NEW i \in 1 .. Len(pending'), OnNft(pending'[i], v),
             \A j \in i + 1 .. Len(pending') : ~OnNft(pending'[j], v)
      PROVE  (pending'[i].ev = "DepositNft") = There(v)
  <2>1. i + 1 \in 1 .. Len(pending) /\ OnNft(pending[i + 1], v) /\ pending'[i] = pending[i + 1]
    BY <1>1, <1>4
  <2>2. ASSUME NEW j \in (i + 1) + 1 .. Len(pending) PROVE ~OnNft(pending[j], v)
    <3>1. j \in 2 .. Len(pending) /\ j - 1 \in i + 1 .. Len(pending')
      BY <1>1
    <3> QED
      BY <1>1, <1>4, <3>1
  <2> QED
    BY <1>2, <2>1, <2>2
<1>5. ASSUME \A i \in 1 .. Len(pending') : ~OnNft(pending'[i], v) PROVE store'.vaults[v].nft = There(v)
  <2>1. \A i \in 2 .. Len(pending) : ~OnNft(pending[i], v)
    BY <1>1, <1>5
  <2>2. \A i \in 1 .. Len(pending) : i = 1 \/ i \in 2 .. Len(pending)
    BY <1>1
  <2>3. CASE OnNft(pending[1], v)
    <3>1. 1 \in 1 .. Len(pending) /\ \A j \in 1 + 1 .. Len(pending) : ~OnNft(pending[j], v)
      BY <1>1, <2>1
    <3> QED
      BY <1>2, <1>3, <2>3, <3>1
  <2>4. CASE ~OnNft(pending[1], v)
    BY <1>2, <1>3, <2>1, <2>2, <2>4
  <2> QED
    BY <2>3, <2>4
<1> QED
  BY <1>4, <1>5

LEMMA IndexKeepsSnaps == ASSUME FollowInv, HandlesNext PROVE SnapsOK'
<1> DEFINE e == pending[1]
           held == HeldColl(store.vaults)
<1>1. e = pending[1] /\ 1 \in 1 .. Len(pending) /\ Fit(e) /\ CrabVault \in VaultIds
  BY Handling DEF FollowInv, HandlesNext, LogOK, ChainOK, VaultIds
<1>2. Effect("total", CrabVault, e) = CollMove(e) /\ CollMove(e) \in Int
  BY <1>1, EffectIsInt DEF Effect
<1>3. HeldColl(store'.vaults) = held + CollMove(e) /\ held \in Int
  BY <1>1, <1>2, HeldInt DEF HandlesNext, Handles, Held, Kinds, FollowInv
<1>4. /\ LogOK /\ now \in Times /\ totalAt \in [Times -> Int] /\ pending # <<>> /\ HOUR \in Nat \ {0} /\ DAY \in Nat \ {0}
      /\ SnapOK(store.hour, HOUR, held, pending, totalAt, now) /\ SnapOK(store.day, DAY, held, pending, totalAt, now)
      /\ pending' = Tail(pending) /\ now' = now /\ totalAt' = totalAt
  BY SubgraphAssumption DEF FollowInv, SnapsOK, ChainOK, HandlesNext
<1> HIDE DEF e, held
<1>5. CASE CollMove(e) = 0 /\ store'.hour = store.hour /\ store'.day = store.day
  <2>1. HeldColl(store'.vaults) = held
    BY <1>3, <1>5
  <2>2. /\ SnapOK(store.hour, HOUR, held, Tail(pending), totalAt, now)
        /\ SnapOK(store.day, DAY, held, Tail(pending), totalAt, now)
    BY <1>1, <1>2, <1>3, <1>4, <1>5, SnapRests
  <2> QED
    BY <1>4, <1>5, <2>1, <2>2 DEF SnapsOK
<1>6. CASE /\ store'.hour = [Snapshot(store.hour, e.time, HOUR) EXCEPT !.total = @ + CollMove(e)]
           /\ store'.day = [Snapshot(store.day, e.time, DAY) EXCEPT !.total = @ + CollMove(e)]
  <2>1. SnapOK([Snapshot(store.hour, e.time, HOUR) EXCEPT !.total = @ + CollMove(e)],
               HOUR, held + CollMove(e), Tail(pending), totalAt, now)
    BY <1>1, <1>2, <1>3, <1>4, SnapMoves
  <2>2. SnapOK([Snapshot(store.day, e.time, DAY) EXCEPT !.total = @ + CollMove(e)],
               DAY, held + CollMove(e), Tail(pending), totalAt, now)
    BY <1>1, <1>2, <1>3, <1>4, SnapMoves
  <2> QED
    BY <1>3, <1>4, <1>6, <2>1, <2>2 DEF SnapsOK
<1> QED
  BY <1>1, <1>5, <1>6 DEF HandlesNext, Handles, SnapsMove, e

LEMMA IndexKeepsInv == ASSUME FollowInv, HandlesNext PROVE FollowInv'
<1>1. StoreOK(store')
  BY DEF HandlesNext, Handles
<1> QED
  BY <1>1, IndexKeepsLog, IndexKeepsOrder, IndexKeepsBalance, IndexKeepsNft, IndexKeepsSnaps DEF FollowInv

-----------------------------------------------------------------------------
(* The handlers of the controller's events. *)

\* What a handler writes into the history, for the event it handles.
Writes(s, e, s2) ==
  \/ /\ e.ev \in Moves
     /\ \E row : /\ row.vault = e.vault /\ row.eth = (IF e.ev = "Liquidate" THEN e.paid ELSE e.amount)
                 /\ s2.history = Put(s.history, <<e.tx, ActionOf(e)>>, row)
  \/ /\ e.ev \notin Moves
     /\ \/ s2.history = s.history
        \/ \E action, row : action \notin Told /\ row.eth = 0 /\ s2.history = Put(s.history, <<e.tx, action>>, row)

\* Vault w moves by a debt and by collateral, no other one.
LEMMA StoreMoves ==
  ASSUME NEW s, StoreOK(s), NEW s2, Fields \subseteq DOMAIN s2, s2.strategies = s.strategies,
         NEW w \in VaultIds, s.vaults[w].open, NEW a \in Int, NEW b \in Int, MovesRow(s.vaults, s2.vaults, w, a, b)
  PROVE  /\ StoreOK(s2)
         /\ \A kind \in Kinds, v \in VaultIds : Held(kind, v, s2) = Held(kind, v, s) + Shift(kind, v, w, a, b, 0)
         /\ \A v \in VaultIds : s2.vaults[v].open = s.vaults[v].open /\ s2.vaults[v].nft = s.vaults[v].nft
<1>1. \A v \in VaultIds : /\ s.vaults[v] \in VaultRow /\ s2.vaults[v] \in VaultRow
                          /\ s2.vaults[v].open = s.vaults[v].open /\ s2.vaults[v].nft = s.vaults[v].nft
  BY DEF StoreOK, MovesRow
<1>2. StoreOK(s2)
  BY <1>1 DEF StoreOK, MovesRow, Shares, loadOrCreateStrategy
<1> DEFINE f == [v \in VaultIds |-> s.vaults[v].coll]
           g == [v \in VaultIds |-> s2.vaults[v].coll]
<1>3. /\ \A v \in VaultIds : f[v] \in Int /\ g[v] \in Int /\ (v # w => g[v] = f[v])
      /\ g[w] = f[w] + b
  BY <1>1 DEF MovesRow, VaultRow
<1>4. HeldColl(s.vaults) = SumOver(f, VaultIds) /\ HeldColl(s2.vaults) = SumOver(g, VaultIds)
  BY DEF HeldColl, SumOf
<1> HIDE DEF f, g
<1>5. SumOver(g, VaultIds) = SumOver(f, VaultIds) - f[w] + g[w]
  BY <1>3, VaultsAreFinite, SumUpdate
<1>6. SumOver(f, VaultIds) \in Int
  BY <1>3, VaultsAreFinite, SumInt
<1>7. HeldColl(s2.vaults) = HeldColl(s.vaults) + b /\ HeldColl(s.vaults) \in Int
  BY <1>3, <1>4, <1>5, <1>6
<1>8. Shares(s2) = Shares(s) /\ Shares(s) \in Int
  BY DEF Shares, loadOrCreateStrategy, StoreOK
<1>9. ASSUME NEW kind \in Kinds, NEW v \in VaultIds
      PROVE  Held(kind, v, s2) = Held(kind, v, s) + Shift(kind, v, w, a, b, 0)
  <2>1. CASE kind = "short"
    BY <1>1, <2>1 DEF Held, Shift, MovesRow, VaultRow
  <2>2. CASE kind = "coll"
    BY <1>1, <2>2 DEF Held, Shift, MovesRow, VaultRow
  <2>3. CASE kind = "total"
    BY <1>7, <2>3 DEF Held, Shift
  <2>4. CASE kind = "shares"
    BY <1>8, <2>4 DEF Held, Shift
  <2> QED
    BY <2>1, <2>2, <2>3, <2>4 DEF Kinds
<1> QED
  BY <1>1, <1>2, <1>9

LEMMA MoveIsHandled ==
  ASSUME NEW s, StoreOK(s), NEW s2, StoreOK(s2), NEW e,
         \A kind \in Kinds, v \in VaultIds : Held(kind, v, s2) = Held(kind, v, s) + Effect(kind, v, e),
         \A v \in VaultIds : s2.vaults[v].open = s.vaults[v].open /\ s2.vaults[v].nft = s.vaults[v].nft,
         \A v : ~Opens(e, v) /\ ~OnNft(e, v), SnapsMove(s, e, s2)
  PROVE  Handles(s, e, s2)
<1>1. ASSUME NEW v \in VaultIds PROVE s2.vaults[v].open = (s.vaults[v].open \/ Opens(e, v))
  <2>1. s.vaults[v].open \in BOOLEAN /\ s2.vaults[v].open = s.vaults[v].open /\ ~Opens(e, v)
    BY DEF StoreOK, VaultRow
  <2> QED
    BY ONLY <2>1
<1> QED
  BY <1>1 DEF Handles

\* One field of a row moves.
LEMMA RowMoves ==
  ASSUME NEW f \in [VaultIds -> VaultRow], NEW w \in VaultIds, NEW a \in Int
  PROVE  /\ MovesRow(f, [f EXCEPT ![w].short = @ + a], w, a, 0)
         /\ MovesRow(f, [f EXCEPT ![w].coll = @ + a], w, 0, a)
<1> DEFINE r == [f[w] EXCEPT !.short = @ + a]
           q == [f[w] EXCEPT !.coll = @ + a]
<1>1. f[w] \in VaultRow
  OBVIOUS
<1>2. /\ r \in VaultRow /\ r.short = f[w].short + a /\ r.coll = f[w].coll
      /\ r.open = f[w].open /\ r.nft = f[w].nft
  BY <1>1 DEF VaultRow
<1>3. /\ q \in VaultRow /\ q.short = f[w].short /\ q.coll = f[w].coll + a
      /\ q.open = f[w].open /\ q.nft = f[w].nft
  BY <1>1 DEF VaultRow
<1>4. [f EXCEPT ![w].short = @ + a] = [f EXCEPT ![w] = r] /\ [f EXCEPT ![w].coll = @ + a] = [f EXCEPT ![w] = q]
  OBVIOUS
<1>5. f[w].short \in Int /\ f[w].coll \in Int
  BY <1>1 DEF VaultRow
<1> HIDE DEF r, q
<1> QED
  BY <1>2, <1>3, <1>4, <1>5 DEF MovesRow

\* A row of the history is one field; a snapshot is another.
LEMMA HistoryWritten ==
  ASSUME NEW s, Fields \subseteq DOMAIN s, NEW e, NEW action, NEW amount, NEW debt
  PROVE  LET t == WithHistory(s, e, action, amount, debt) IN
         /\ Fields \subseteq DOMAIN t /\ t.vaults = s.vaults /\ t.strategies = s.strategies
         /\ t.hour = s.hour /\ t.day = s.day
         /\ t.history = Put(s.history, <<e.tx, action>>, getTransactionDetail(e, action, amount, debt))
BY DEF WithHistory, Fields

LEMMA TotalsKeep ==
  ASSUME NEW s, Fields \subseteq DOMAIN s, NEW e, NEW amount
  PROVE  LET t == AddToTotals(s, e, amount) IN
         Fields \subseteq DOMAIN t /\ t.vaults = s.vaults /\ t.strategies = s.strategies /\ t.history = s.history
BY DEF AddToTotals, getHourStatSnapshot, getDayStatSnapshot, Fields

LEMMA TotalsWritten ==
  ASSUME NEW s, Fields \subseteq DOMAIN s, NEW e, NEW amount
  PROVE  LET t == AddToTotals(s, e, amount) IN
         /\ t.hour = [Snapshot(s.hour, e.time, HOUR) EXCEPT !.total = @ + amount]
         /\ t.day = [Snapshot(s.day, e.time, DAY) EXCEPT !.total = @ + amount]
BY DEF AddToTotals, getHourStatSnapshot, getDayStatSnapshot, Fields

\* The rows the handlers write.
LEMMA DetailWritten ==
  ASSUME NEW e, NEW action, NEW amount, NEW debt
  PROVE  LET row == getTransactionDetail(e, action, amount, debt) IN
         row.vault = e.vault /\ row.eth = (IF action \in Told THEN amount ELSE 0)
BY DEF getTransactionDetail, Told

LEMMA MintShortHandled ==
  ASSUME NEW s, StoreOK(s), NEW e, Fit(e), Known(s, e), e.ev = "MintShort"
  PROVE  Handles(s, e, handleMintShort(s, e)) /\ Writes(s, e, handleMintShort(s, e))
<1> DEFINE t == [s EXCEPT !.vaults[e.vault].short = @ + e.amount]
           action == IF e.sender = ShortHelper THEN "OPEN_SHORT" ELSE "MINT"
           u == WithHistory(t, e, action, e.amount, 0)
<1>1. e.vault \in VaultIds /\ e.amount \in Int /\ s.vaults[e.vault].open
  BY DEF Fit, OfVaults, Shorts, Known
<1>2. /\ Fields \subseteq DOMAIN t /\ t.vaults = [s.vaults EXCEPT ![e.vault].short = @ + e.amount]
      /\ t.strategies = s.strategies /\ t.hour = s.hour /\ t.day = s.day /\ t.history = s.history
  BY DEF StoreOK, Fields
<1>3. action \notin Told /\ handleMintShort(s, e) = u
  BY DEF handleMintShort, Told
<1> HIDE DEF t, action
<1>4. /\ Fields \subseteq DOMAIN u /\ u.vaults = t.vaults /\ u.strategies = s.strategies
      /\ u.hour = s.hour /\ u.day = s.day
      /\ u.history = Put(s.history, <<e.tx, action>>, getTransactionDetail(e, action, e.amount, 0))
  BY <1>2, HistoryWritten
<1> HIDE DEF u
<1>5. s.vaults \in [VaultIds -> VaultRow]
  BY DEF StoreOK
<1>b. MovesRow(s.vaults, [s.vaults EXCEPT ![e.vault].short = @ + e.amount], e.vault, e.amount, 0)
  BY <1>1, <1>5, RowMoves
<1>6. MovesRow(s.vaults, u.vaults, e.vault, e.amount, 0)
  BY <1>2, <1>4, <1>b
<1>7. /\ StoreOK(u)
      /\ \A kind \in Kinds, v \in VaultIds : Held(kind, v, u) = Held(kind, v, s) + Shift(kind, v, e.vault, e.amount, 0, 0)
      /\ \A v \in VaultIds : u.vaults[v].open = s.vaults[v].open /\ u.vaults[v].nft = s.vaults[v].nft
  BY <1>1, <1>4, <1>6, StoreMoves
<1>8. \A kind \in Kinds, v \in VaultIds : Effect(kind, v, e) = Shift(kind, v, e.vault, e.amount, 0, 0)
  BY DEF Effect, Shift, ShortMove, CollMove, SharesMove, Shorts, Moves, Kinds
<1>9. CollMove(e) = 0 /\ \A v : ~Opens(e, v) /\ ~OnNft(e, v)
  BY DEF CollMove, Opens, OnNft, NftMoves
<1>c. SnapsMove(s, e, u)
  BY <1>4, <1>9 DEF SnapsMove
<1>10. Handles(s, e, u)
  BY <1>7, <1>8, <1>9, <1>c, MoveIsHandled
<1>11. Writes(s, e, u)
  <2>1. e.ev \notin Moves
    BY DEF Moves
  <2> QED
    BY <1>3, <1>4, <2>1, DetailWritten DEF Writes
<1> QED
  BY <1>3, <1>10, <1>11

LEMMA BurnShortHandled ==
  ASSUME NEW s, StoreOK(s), NEW e, Fit(e), Known(s, e), e.ev = "BurnShort"
  PROVE  Handles(s, e, handleBurnShort(s, e)) /\ Writes(s, e, handleBurnShort(s, e))
<1> DEFINE t == [s EXCEPT !.vaults[e.vault].short = @ - e.amount]
           action == IF e.sender = ShortHelper THEN "CLOSE_SHORT" ELSE "BURN"
           u == WithHistory(t, e, action, e.amount, 0)
<1>1. e.vault \in VaultIds /\ e.amount \in Int /\ s.vaults[e.vault].open
  BY DEF Fit, OfVaults, Shorts, Known
<1>2. /\ Fields \subseteq DOMAIN t /\ t.vaults = [s.vaults EXCEPT ![e.vault].short = @ - e.amount]
      /\ t.strategies = s.strategies /\ t.hour = s.hour /\ t.day = s.day /\ t.history = s.history
  BY DEF StoreOK, Fields
<1>3. action \notin Told /\ handleBurnShort(s, e) = u
  BY DEF handleBurnShort, Told
<1> HIDE DEF t, action
<1>4. /\ Fields \subseteq DOMAIN u /\ u.vaults = t.vaults /\ u.strategies = s.strategies
      /\ u.hour = s.hour /\ u.day = s.day
      /\ u.history = Put(s.history, <<e.tx, action>>, getTransactionDetail(e, action, e.amount, 0))
  BY <1>2, HistoryWritten
<1> HIDE DEF u
<1>5. s.vaults \in [VaultIds -> VaultRow]
  BY DEF StoreOK
<1>a. [s.vaults EXCEPT ![e.vault].short = @ - e.amount] = [s.vaults EXCEPT ![e.vault].short = @ + (-e.amount)]
  BY <1>1, <1>5 DEF VaultRow
<1>b. MovesRow(s.vaults, [s.vaults EXCEPT ![e.vault].short = @ + (-e.amount)], e.vault, -e.amount, 0)
  <2>1. -e.amount \in Int
    BY <1>1
  <2> QED
    BY <1>1, <1>5, <2>1, RowMoves
<1>6. MovesRow(s.vaults, u.vaults, e.vault, -e.amount, 0)
  BY <1>2, <1>4, <1>a, <1>b
<1>7. /\ StoreOK(u)
      /\ \A kind \in Kinds, v \in VaultIds : Held(kind, v, u) = Held(kind, v, s) + Shift(kind, v, e.vault, -e.amount, 0, 0)
      /\ \A v \in VaultIds : u.vaults[v].open = s.vaults[v].open /\ u.vaults[v].nft = s.vaults[v].nft
  BY <1>1, <1>4, <1>6, StoreMoves
<1>8. \A kind \in Kinds, v \in VaultIds : Effect(kind, v, e) = Shift(kind, v, e.vault, -e.amount, 0, 0)
  BY DEF Effect, Shift, ShortMove, CollMove, SharesMove, Shorts, Moves, Kinds
<1>9. CollMove(e) = 0 /\ \A v : ~Opens(e, v) /\ ~OnNft(e, v)
  BY DEF CollMove, Opens, OnNft, NftMoves
<1>c. SnapsMove(s, e, u)
  BY <1>4, <1>9 DEF SnapsMove
<1>10. Handles(s, e, u)
  BY <1>7, <1>8, <1>9, <1>c, MoveIsHandled
<1>11. Writes(s, e, u)
  <2>1. e.ev \notin Moves
    BY DEF Moves
  <2> QED
    BY <1>3, <1>4, <2>1, DetailWritten DEF Writes
<1> QED
  BY <1>3, <1>10, <1>11

-----------------------------------------------------------------------------
(* Handlers that move collateral. *)

\* What they share: the vault moves, its history gets a row, the snapshots
\* move by the collateral.
LEMMA CollateralHandled ==
  ASSUME NEW s, StoreOK(s), NEW e, Fit(e), e.ev \in Moves, Known(s, e),
         NEW t, Fields \subseteq DOMAIN t, t.strategies = s.strategies, t.history = s.history,
         t.hour = s.hour, t.day = s.day, NEW a \in Int, NEW b \in Int, MovesRow(s.vaults, t.vaults, e.vault, a, b),
         a = (IF e.ev \in Shorts THEN ShortMove(e) ELSE 0), b = CollMove(e), NEW debt,
         NEW amount, amount = (IF e.ev = "Liquidate" THEN e.paid ELSE e.amount)
  PROVE  LET u == AddToTotals(WithHistory(t, e, ActionOf(e), amount, debt), e, b) IN
         Fields \subseteq DOMAIN u /\ Handles(s, e, u) /\ Writes(s, e, u)
<1> DEFINE row == getTransactionDetail(e, ActionOf(e), amount, debt)
           w == WithHistory(t, e, ActionOf(e), amount, debt)
           u == AddToTotals(w, e, b)
<1>1. e.vault \in VaultIds /\ s.vaults[e.vault].open
  BY DEF Fit, OfVaults, Known
<1>2. /\ Fields \subseteq DOMAIN w /\ w.vaults = t.vaults /\ w.strategies = s.strategies
      /\ w.hour = s.hour /\ w.day = s.day /\ w.history = Put(s.history, <<e.tx, ActionOf(e)>>, row)
  BY HistoryWritten
<1>3. row.vault = e.vault /\ row.eth = amount
  BY DetailWritten DEF ActionOf, Told
<1> HIDE DEF row, w
<1>a. Fields \subseteq DOMAIN u /\ u.vaults = w.vaults /\ u.history = w.history /\ u.strategies = w.strategies
  BY <1>2, TotalsKeep
<1>5. SnapsMove(s, e, u)
  <2>1. /\ u.hour = [Snapshot(w.hour, e.time, HOUR) EXCEPT !.total = @ + b]
        /\ u.day = [Snapshot(w.day, e.time, DAY) EXCEPT !.total = @ + b]
    BY <1>2, TotalsWritten
  <2> QED
    BY <1>2, <2>1 DEF SnapsMove
<1> HIDE DEF u
<1>4. /\ Fields \subseteq DOMAIN u /\ u.vaults = t.vaults /\ u.strategies = s.strategies
      /\ u.history = Put(s.history, <<e.tx, ActionOf(e)>>, row)
  BY ONLY <1>2, <1>a
<1>6. MovesRow(s.vaults, u.vaults, e.vault, a, b)
  BY <1>4
<1>7. /\ StoreOK(u)
      /\ \A kind \in Kinds, v \in VaultIds : Held(kind, v, u) = Held(kind, v, s) + Shift(kind, v, e.vault, a, b, 0)
      /\ \A v \in VaultIds : u.vaults[v].open = s.vaults[v].open /\ u.vaults[v].nft = s.vaults[v].nft
  BY <1>1, <1>4, <1>6, StoreMoves
<1>8. \A kind \in Kinds, v \in VaultIds : Effect(kind, v, e) = Shift(kind, v, e.vault, a, b, 0)
  BY DEF Effect, Shift, SharesMove, Shorts, Moves, Kinds
<1>9. \A v : ~Opens(e, v) /\ ~OnNft(e, v)
  BY DEF Opens, OnNft, NftMoves, Moves
<1>10. Handles(s, e, u)
  BY <1>5, <1>7, <1>8, <1>9, MoveIsHandled
<1>11. Writes(s, e, u)
  BY <1>3, <1>4 DEF Writes
<1> QED
  BY <1>4, <1>10, <1>11 DEF u, w

\* The entities the invariant is about stay as they are.
Keeps(s, s2) ==
  /\ Fields \subseteq DOMAIN s2 /\ s2.vaults = s.vaults /\ s2.hour = s.hour /\ s2.day = s.day
  /\ s2.history = s.history
  /\ "supply" \in DOMAIN loadOrCreateStrategy(s2, "crabV2") /\ Shares(s2) = Shares(s)

LEMMA KeepsHeld ==
  ASSUME NEW s, StoreOK(s), NEW s2, Keeps(s, s2)
  PROVE  StoreOK(s2) /\ \A kind \in Kinds, v \in VaultIds : Held(kind, v, s2) = Held(kind, v, s)
BY DEF StoreOK, Keeps, Held

LEMMA SameForTotals ==
  ASSUME NEW s, NEW e, NEW u, Handles(s, e, u), Writes(s, e, u),
         NEW x, Fields \subseteq DOMAIN x, x.vaults = u.vaults, x.strategies = u.strategies,
         x.hour = u.hour, x.day = u.day, x.history = u.history
  PROVE  Handles(s, e, x) /\ Writes(s, e, x)
<1>1. StoreOK(u) /\ loadOrCreateStrategy(x, "crabV2") = loadOrCreateStrategy(u, "crabV2")
  BY DEF Handles, loadOrCreateStrategy
<1>2. Keeps(u, x)
  BY <1>1 DEF Keeps, Shares, StoreOK
<1>3. StoreOK(x) /\ \A kind \in Kinds, v \in VaultIds : Held(kind, v, x) = Held(kind, v, u)
  BY <1>1, <1>2, KeepsHeld
<1>4. SnapsMove(s, e, x)
  BY DEF Handles, SnapsMove
<1>5. Handles(s, e, x)
  BY <1>3, <1>4 DEF Handles
<1>6. Writes(s, e, x)
  BY DEF Writes
<1> QED
  BY <1>5, <1>6

LEMMA DepositCollateralHandled ==
  ASSUME NEW s, StoreOK(s), NEW e, Fit(e), Known(s, e), e.ev = "DepositCollateral"
  PROVE  Handles(s, e, handleDepositCollateral(s, e)) /\ Writes(s, e, handleDepositCollateral(s, e))
<1> DEFINE t == [s EXCEPT !.vaults[e.vault].coll = @ + e.amount]
<1>1. e.vault \in VaultIds /\ e.amount \in Int /\ e.amount \in Int /\ e.ev \in Moves
  BY DEF Fit, OfVaults, Moves
<1>2. /\ Fields \subseteq DOMAIN t /\ t.vaults = [s.vaults EXCEPT ![e.vault].coll = @ + e.amount]
      /\ t.strategies = s.strategies /\ t.hour = s.hour /\ t.day = s.day /\ t.history = s.history
  BY DEF StoreOK, Fields
<1>3. s.vaults \in [VaultIds -> VaultRow]
  BY DEF StoreOK
<1>4. [s.vaults EXCEPT ![e.vault].coll = @ + e.amount] = [s.vaults EXCEPT ![e.vault].coll = @ + (e.amount)]
  BY <1>1, <1>3 DEF VaultRow
<1>5. MovesRow(s.vaults, [s.vaults EXCEPT ![e.vault].coll = @ + (e.amount)], e.vault, 0, e.amount)
  BY <1>1, <1>3, RowMoves
<1>6. handleDepositCollateral(s, e) = AddToTotals(WithHistory(t, e, ActionOf(e), e.amount, 0), e, e.amount)
  BY DEF handleDepositCollateral, ActionOf
<1>7. (IF e.ev \in Shorts THEN ShortMove(e) ELSE 0) = 0 /\ CollMove(e) = e.amount
  BY DEF Shorts, CollMove
<1> HIDE DEF t
<1>8. MovesRow(s.vaults, t.vaults, e.vault, 0, e.amount)
  BY <1>2, <1>4, <1>5
<1>9. e.amount = (IF e.ev = "Liquidate" THEN e.paid ELSE e.amount) /\ 0 \in Int
  OBVIOUS
<1>10. /\ Handles(s, e, AddToTotals(WithHistory(t, e, ActionOf(e), e.amount, 0), e, e.amount))
       /\ Writes(s, e, AddToTotals(WithHistory(t, e, ActionOf(e), e.amount, 0), e, e.amount))
  BY ONLY StoreOK(s), Fit(e), Known(s, e), <1>1, <1>2, <1>7, <1>8, <1>9, CollateralHandled
<1> QED
  BY ONLY <1>6, <1>10

LEMMA WithdrawCollateralHandled ==
  ASSUME NEW s, StoreOK(s), NEW e, Fit(e), Known(s, e), e.ev = "WithdrawCollateral"
  PROVE  Handles(s, e, handleWithdrawCollateral(s, e)) /\ Writes(s, e, handleWithdrawCollateral(s, e))
<1> DEFINE t == [s EXCEPT !.vaults[e.vault].coll = @ - e.amount]
<1>1. e.vault \in VaultIds /\ e.amount \in Int /\ -e.amount \in Int /\ e.ev \in Moves
  BY DEF Fit, OfVaults, Moves
<1>2. /\ Fields \subseteq DOMAIN t /\ t.vaults = [s.vaults EXCEPT ![e.vault].coll = @ - e.amount]
      /\ t.strategies = s.strategies /\ t.hour = s.hour /\ t.day = s.day /\ t.history = s.history
  BY DEF StoreOK, Fields
<1>3. s.vaults \in [VaultIds -> VaultRow]
  BY DEF StoreOK
<1>4. [s.vaults EXCEPT ![e.vault].coll = @ - e.amount] = [s.vaults EXCEPT ![e.vault].coll = @ + (-e.amount)]
  BY <1>1, <1>3 DEF VaultRow
<1>5. MovesRow(s.vaults, [s.vaults EXCEPT ![e.vault].coll = @ + (-e.amount)], e.vault, 0, -e.amount)
  BY <1>1, <1>3, RowMoves
<1>6. handleWithdrawCollateral(s, e) = AddToTotals(WithHistory(t, e, ActionOf(e), e.amount, 0), e, -e.amount)
  BY DEF handleWithdrawCollateral, ActionOf
<1>7. (IF e.ev \in Shorts THEN ShortMove(e) ELSE 0) = 0 /\ CollMove(e) = -e.amount
  BY DEF Shorts, CollMove
<1> HIDE DEF t
<1>8. MovesRow(s.vaults, t.vaults, e.vault, 0, -e.amount)
  BY <1>2, <1>4, <1>5
<1>9. e.amount = (IF e.ev = "Liquidate" THEN e.paid ELSE e.amount) /\ 0 \in Int
  OBVIOUS
<1>10. /\ Handles(s, e, AddToTotals(WithHistory(t, e, ActionOf(e), e.amount, 0), e, -e.amount))
       /\ Writes(s, e, AddToTotals(WithHistory(t, e, ActionOf(e), e.amount, 0), e, -e.amount))
  BY ONLY StoreOK(s), Fit(e), Known(s, e), <1>1, <1>2, <1>7, <1>8, <1>9, CollateralHandled
<1> QED
  BY ONLY <1>6, <1>10

LEMMA LiquidateHandled ==
  ASSUME NEW s, StoreOK(s), NEW e, Fit(e), Known(s, e), e.ev = "Liquidate"
  PROVE  Handles(s, e, handleLiquidate(s, e)) /\ Writes(s, e, handleLiquidate(s, e))
<1> DEFINE r == [s.vaults EXCEPT ![e.vault].short = @ - e.debt]
           t == [s EXCEPT !.vaults[e.vault].short = @ - e.debt, !.vaults[e.vault].coll = @ - e.paid]
           u == AddToTotals(WithHistory(t, e, ActionOf(e), e.paid, e.debt), e, -e.paid)
           x == [u EXCEPT !.liquidations = Put(@, <<e.tx, e.log>>, [vault |-> e.vault, paid |-> e.paid])]
<1>1. /\ e.vault \in VaultIds /\ e.debt \in Int /\ e.paid \in Int /\ -e.debt \in Int /\ -e.paid \in Int
      /\ e.ev \in Moves
  BY DEF Fit, OfVaults, Moves
<1>2. /\ Fields \subseteq DOMAIN t /\ t.vaults = [r EXCEPT ![e.vault].coll = @ - e.paid]
      /\ t.strategies = s.strategies /\ t.hour = s.hour /\ t.day = s.day /\ t.history = s.history
  BY DEF StoreOK, Fields
<1>3. s.vaults \in [VaultIds -> VaultRow]
  BY DEF StoreOK
<1>4. r = [s.vaults EXCEPT ![e.vault].short = @ + (-e.debt)]
  BY <1>1, <1>3 DEF VaultRow
<1>5. MovesRow(s.vaults, [s.vaults EXCEPT ![e.vault].short = @ + (-e.debt)], e.vault, -e.debt, 0)
  BY <1>1, <1>3, RowMoves
<1>6. handleLiquidate(s, e) = x
  BY DEF handleLiquidate, ActionOf
<1>7. (IF e.ev \in Shorts THEN ShortMove(e) ELSE 0) = -e.debt /\ CollMove(e) = -e.paid
  BY DEF Shorts, CollMove, ShortMove
<1> HIDE DEF r, t
<1>8. MovesRow(s.vaults, r, e.vault, -e.debt, 0)
  BY <1>4, <1>5
<1>9. r \in [VaultIds -> VaultRow]
  BY <1>8 DEF MovesRow
<1>10. [r EXCEPT ![e.vault].coll = @ - e.paid] = [r EXCEPT ![e.vault].coll = @ + (-e.paid)]
  BY <1>1, <1>9 DEF VaultRow
<1>11. MovesRow(r, [r EXCEPT ![e.vault].coll = @ + (-e.paid)], e.vault, 0, -e.paid)
  BY <1>1, <1>9, RowMoves
<1>12. MovesRow(r, t.vaults, e.vault, 0, -e.paid)
  BY <1>2, <1>10, <1>11
<1>13. MovesRow(s.vaults, t.vaults, e.vault, -e.debt, -e.paid)
  <2>1. s.vaults[e.vault].short \in Int /\ s.vaults[e.vault].coll \in Int
    BY <1>1, <1>3 DEF VaultRow
  <2> QED
    BY <1>1, <1>8, <1>12, <2>1 DEF MovesRow
<1>14. Fields \subseteq DOMAIN u /\ Handles(s, e, u) /\ Writes(s, e, u)
  BY <1>1, <1>2, <1>7, <1>13, CollateralHandled
<1> HIDE DEF u
<1>15. /\ Fields \subseteq DOMAIN x /\ x.vaults = u.vaults /\ x.strategies = u.strategies
       /\ x.hour = u.hour /\ x.day = u.day /\ x.history = u.history
  BY <1>14 DEF Fields
<1> HIDE DEF x
<1>16. Handles(s, e, x) /\ Writes(s, e, x)
  BY <1>14, <1>15, SameForTotals
<1> QED
  BY <1>6, <1>16

-----------------------------------------------------------------------------
(* Handlers of the other events. *)

\* Vaults are opened and positions set with no amount moved.
LEMMA AmountsStay ==
  ASSUME NEW s, StoreOK(s), NEW s2, Fields \subseteq DOMAIN s2, s2.strategies = s.strategies,
         s2.vaults \in [VaultIds -> VaultRow],
         \A v \in VaultIds : /\ s2.vaults[v].short = s.vaults[v].short /\ s2.vaults[v].coll = s.vaults[v].coll
                             /\ ~s2.vaults[v].open => s2.vaults[v] = None
  PROVE  StoreOK(s2) /\ \A kind \in Kinds, v \in VaultIds : Held(kind, v, s2) = Held(kind, v, s)
<1>1. loadOrCreateStrategy(s2, "crabV2") = loadOrCreateStrategy(s, "crabV2")
  BY DEF loadOrCreateStrategy
<1>2. StoreOK(s2) /\ Shares(s2) = Shares(s)
  BY <1>1 DEF StoreOK, Shares
<1>3. [v \in VaultIds |-> s2.vaults[v].coll] = [v \in VaultIds |-> s.vaults[v].coll]
  OBVIOUS
<1>4. HeldColl(s2.vaults) = HeldColl(s.vaults)
  BY <1>3 DEF HeldColl
<1>5. ASSUME NEW kind \in Kinds, NEW v \in VaultIds PROVE Held(kind, v, s2) = Held(kind, v, s)
  <2>1. s2.vaults[v].short = s.vaults[v].short /\ s2.vaults[v].coll = s.vaults[v].coll
    OBVIOUS
  <2> QED
    BY ONLY <1>2, <1>4, <2>1 DEF Held
<1> QED
  BY ONLY <1>2, <1>5

\* An event that tells nothing of an amount.
Still(e) == (\A kind \in Kinds : \A v : Effect(kind, v, e) = 0) /\ CollMove(e) = 0 /\ e.ev \notin Moves

LEMMA NftHandled ==
  ASSUME NEW s, StoreOK(s), NEW e, Fit(e), Known(s, e), e.ev \in NftMoves,
         NEW there, there = (e.ev = "DepositNft")
  PROVE  LET s2 == [s EXCEPT !.vaults[e.vault].nft = there] IN Handles(s, e, s2) /\ Writes(s, e, s2)
<1> DEFINE s2 == [s EXCEPT !.vaults[e.vault].nft = there]
<1>1. e.vault \in VaultIds /\ s.vaults[e.vault].open /\ there \in BOOLEAN
  BY DEF Fit, OfVaults, Known
<1>2. Still(e) /\ (\A v : ~Opens(e, v)) /\ (\A v : OnNft(e, v) <=> v = e.vault)
  BY DEF Still, Effect, ShortMove, CollMove, SharesMove, Moves, Shorts, NftMoves, Kinds, Opens, OnNft
<1>3. /\ Fields \subseteq DOMAIN s2 /\ s2.vaults = [s.vaults EXCEPT ![e.vault].nft = there]
      /\ s2.strategies = s.strategies /\ s2.hour = s.hour /\ s2.day = s.day /\ s2.history = s.history
  BY DEF StoreOK, Fields
<1> HIDE DEF s2
<1>4. s.vaults \in [VaultIds -> VaultRow] /\ \A v \in VaultIds : ~s.vaults[v].open => s.vaults[v] = None
  BY DEF StoreOK
<1>5. NftRow(s.vaults, [s.vaults EXCEPT ![e.vault].nft = there], e.vault, there)
  BY <1>1, <1>4, NftIsSet
<1>6. NftRow(s.vaults, s2.vaults, e.vault, there)
  BY <1>3, <1>5
<1>7. /\ s2.vaults \in [VaultIds -> VaultRow]
      /\ \A v \in VaultIds : /\ s2.vaults[v].short = s.vaults[v].short /\ s2.vaults[v].coll = s.vaults[v].coll
                             /\ s2.vaults[v].open = s.vaults[v].open
                             /\ v # e.vault => s2.vaults[v] = s.vaults[v]
      /\ s2.vaults[e.vault].nft = there
  BY <1>6 DEF NftRow
<1>8. \A v \in VaultIds : ~s2.vaults[v].open => s2.vaults[v] = None
  <2> TAKE v \in VaultIds
  <2>1. CASE v = e.vault
    BY <1>1, <1>7, <2>1
  <2>2. CASE v # e.vault
    BY <1>4, <1>7, <2>2
  <2> QED
    BY <2>1, <2>2
<1>a. /\ s2.vaults \in [VaultIds -> VaultRow]
      /\ \A v \in VaultIds : /\ s2.vaults[v].short = s.vaults[v].short /\ s2.vaults[v].coll = s.vaults[v].coll
                             /\ ~s2.vaults[v].open => s2.vaults[v] = None
  BY ONLY <1>7, <1>8
<1>9. StoreOK(s2) /\ \A kind \in Kinds, v \in VaultIds : Held(kind, v, s2) = Held(kind, v, s)
  BY ONLY StoreOK(s), <1>3, <1>a, AmountsStay
<1>10. \A kind \in Kinds, v \in VaultIds : Held(kind, v, s2) = Held(kind, v, s) + Effect(kind, v, e)
  <2> TAKE kind \in Kinds, v \in VaultIds
  <2>1. Held(kind, v, s) \in Int /\ Effect(kind, v, e) = 0 /\ Held(kind, v, s2) = Held(kind, v, s)
    BY <1>2, <1>9, HeldInt DEF Still
  <2> QED
    BY ONLY <2>1
<1>11. ASSUME NEW v \in VaultIds
       PROVE  /\ s2.vaults[v].open = (s.vaults[v].open \/ Opens(e, v))
              /\ ~OnNft(e, v) => s2.vaults[v].nft = s.vaults[v].nft
              /\ OnNft(e, v) => s2.vaults[v].nft = (e.ev = "DepositNft")
  <2>1. s.vaults[v].open \in BOOLEAN /\ s2.vaults[v].open = s.vaults[v].open /\ ~Opens(e, v)
    BY <1>2, <1>4, <1>7 DEF VaultRow
  <2>2. s2.vaults[v].open = (s.vaults[v].open \/ Opens(e, v))
    BY ONLY <2>1
  <2> QED
    BY <1>2, <1>7, <2>2
<1>12. SnapsMove(s, e, s2)
  BY <1>2, <1>3 DEF SnapsMove, Still
<1>13. Handles(s, e, s2)
  BY <1>9, <1>10, <1>11, <1>12 DEF Handles
<1>14. Writes(s, e, s2)
  BY <1>2, <1>3 DEF Writes, Still
<1> QED
  BY <1>13, <1>14 DEF s2

LEMMA OpenVaultHandled ==
  ASSUME NEW s, StoreOK(s), NEW e, Fit(e), e.ev = "OpenVault", ~Known(s, e)
  PROVE  Handles(s, e, handleOpenVault(s, e)) /\ Writes(s, e, handleOpenVault(s, e))
<1> DEFINE s2 == handleOpenVault(s, e)
<1>1. e.vault \in VaultIds /\ s.vaults[e.vault] = None
  BY DEF Fit, OfVaults, Known, StoreOK
<1>2. Still(e) /\ (\A v : Opens(e, v) <=> v = e.vault) /\ (\A v : ~OnNft(e, v))
  BY DEF Still, Effect, ShortMove, CollMove, SharesMove, Moves, Shorts, NftMoves, Kinds, Opens, OnNft
<1>3. /\ Fields \subseteq DOMAIN s2 /\ s2.vaults = [s.vaults EXCEPT ![e.vault] = Empty]
      /\ s2.strategies = s.strategies /\ s2.hour = s.hour /\ s2.day = s.day /\ s2.history = s.history
  BY DEF handleOpenVault, StoreOK, Fields
<1> HIDE DEF s2
<1>4. s.vaults \in [VaultIds -> VaultRow] /\ \A v \in VaultIds : ~s.vaults[v].open => s.vaults[v] = None
  BY DEF StoreOK
<1>5. None.short = 0 /\ None.coll = 0 /\ None.nft = FALSE /\ None.open = FALSE
  BY DEF None
<1>6. /\ s2.vaults \in [VaultIds -> VaultRow]
      /\ \A v \in VaultIds : v # e.vault => s2.vaults[v] = s.vaults[v]
      /\ s2.vaults[e.vault] = Empty
  BY <1>1, <1>3, <1>4, EmptyRow
<1>7. ASSUME NEW v \in VaultIds
      PROVE  /\ s2.vaults[v].short = s.vaults[v].short /\ s2.vaults[v].coll = s.vaults[v].coll
             /\ s2.vaults[v].nft = s.vaults[v].nft
             /\ ~s2.vaults[v].open => s2.vaults[v] = None
             /\ s2.vaults[v].open = (s.vaults[v].open \/ Opens(e, v))
  <2>1. CASE v = e.vault
    <3>1. Opens(e, v) /\ s2.vaults[v] = Empty /\ s.vaults[v] = None
      BY <1>1, <1>2, <1>6, <2>1
    <3> QED
      BY <1>5, <3>1, EmptyRow
  <2>2. CASE v # e.vault
    <3>1. ~Opens(e, v) /\ s2.vaults[v] = s.vaults[v] /\ s.vaults[v].open \in BOOLEAN
      BY <1>2, <1>4, <1>6, <2>2 DEF VaultRow
    <3>2. s2.vaults[v].open = (s.vaults[v].open \/ Opens(e, v))
      BY ONLY <3>1
    <3> QED
      BY <1>4, <3>1, <3>2
  <2> QED
    BY <2>1, <2>2
<1>8. StoreOK(s2) /\ \A kind \in Kinds, v \in VaultIds : Held(kind, v, s2) = Held(kind, v, s)
  BY <1>3, <1>6, <1>7, AmountsStay
<1>9. \A kind \in Kinds, v \in VaultIds : Held(kind, v, s2) = Held(kind, v, s) + Effect(kind, v, e)
  <2> TAKE kind \in Kinds, v \in VaultIds
  <2>1. Held(kind, v, s) \in Int /\ Effect(kind, v, e) = 0 /\ Held(kind, v, s2) = Held(kind, v, s)
    BY <1>2, <1>8, HeldInt DEF Still
  <2> QED
    BY ONLY <2>1
<1>10. SnapsMove(s, e, s2)
  BY <1>2, <1>3 DEF SnapsMove, Still
<1>11. Handles(s, e, s2)
  BY <1>2, <1>7, <1>8, <1>9, <1>10 DEF Handles
<1>12. Writes(s, e, s2)
  BY <1>2, <1>3 DEF Writes, Still
<1> QED
  BY <1>11, <1>12 DEF s2

\* A handler of other entities.
LEMMA QuietHandled ==
  ASSUME NEW s, StoreOK(s), NEW e, Still(e), \A v : ~Opens(e, v) /\ ~OnNft(e, v), NEW s2, Keeps(s, s2)
  PROVE  Handles(s, e, s2) /\ Writes(s, e, s2)
<1>1. StoreOK(s2) /\ \A kind \in Kinds, v \in VaultIds : Held(kind, v, s2) = Held(kind, v, s)
  BY KeepsHeld
<1>2. \A kind \in Kinds, v \in VaultIds : Held(kind, v, s2) = Held(kind, v, s) + Effect(kind, v, e)
  <2> TAKE kind \in Kinds, v \in VaultIds
  <2>1. Held(kind, v, s) \in Int /\ Effect(kind, v, e) = 0 /\ Held(kind, v, s2) = Held(kind, v, s)
    BY <1>1, HeldInt DEF Still
  <2> QED
    BY ONLY <2>1
<1>3. \A v \in VaultIds : s2.vaults[v].open = s.vaults[v].open /\ s2.vaults[v].nft = s.vaults[v].nft
  BY DEF Keeps
<1>4. SnapsMove(s, e, s2)
  BY DEF SnapsMove, Keeps, Still
<1>5. Handles(s, e, s2)
  BY <1>1, <1>2, <1>3, <1>4, MoveIsHandled
<1>6. Writes(s, e, s2)
  BY DEF Writes, Keeps, Still
<1> QED
  BY <1>5, <1>6

LEMMA QuietIsStill ==
  ASSUME NEW e, e.ev \notin Telling PROVE Still(e) /\ \A v : ~Opens(e, v) /\ ~OnNft(e, v)
BY DEF Telling, OfVaults, Still, Effect, ShortMove, CollMove, SharesMove, Moves, Shorts, NftMoves, Kinds, Opens, OnNft

\* The strategy entity gets or loses shares.
LEMMA SupplyAdded ==
  ASSUME NEW s, StoreOK(s), NEW s1, Keeps(s, s1), NEW a \in Int, s1.strategies = s.strategies
  PROVE  LET s2 == AddSupply(s1, "crabV2", a) IN
         /\ Fields \subseteq DOMAIN s2 /\ s2.vaults = s.vaults /\ s2.hour = s.hour /\ s2.day = s.day
         /\ s2.history = s.history /\ "supply" \in DOMAIN loadOrCreateStrategy(s2, "crabV2")
         /\ Shares(s2) = Shares(s) + a
<1> DEFINE s2 == AddSupply(s1, "crabV2", a)
           old == loadOrCreateStrategy(s1, "crabV2")
           new == [old EXCEPT !.supply = @ + a]
<1>1. "supply" \in DOMAIN old /\ old.supply \in Int /\ old.supply = Shares(s)
  BY DEF Keeps, StoreOK, Shares
<1>2. "supply" \in DOMAIN new /\ new.supply = old.supply + a
  BY <1>1
<1>3. /\ Fields \subseteq DOMAIN s2 /\ s2.vaults = s1.vaults /\ s2.hour = s1.hour /\ s2.day = s1.day
      /\ s2.history = s1.history /\ s2.strategies = Put(s1.strategies, "crabV2", new)
  BY DEF AddSupply, Fields, Keeps
<1> HIDE DEF old, new, s2
<1>4. loadOrCreateStrategy(s2, "crabV2") = new
  BY <1>3 DEF loadOrCreateStrategy, Row, Put
<1> QED
  BY <1>1, <1>2, <1>3, <1>4 DEF Keeps, Shares, s2

LEMMA SharesHandled ==
  ASSUME NEW s, StoreOK(s), NEW e, Fit(e), e.ev = "CrabTransfer", NEW s1, Keeps(s, s1), s1.strategies = s.strategies
  PROVE  LET s2 == AddSupply(s1, "crabV2", SharesMove(e)) IN Handles(s, e, s2) /\ Writes(s, e, s2)
<1> DEFINE s2 == AddSupply(s1, "crabV2", SharesMove(e))
<1>1. SharesMove(e) \in Int
  BY DEF Fit, SharesMove
<1>2. /\ Fields \subseteq DOMAIN s2 /\ s2.vaults = s.vaults /\ s2.hour = s.hour /\ s2.day = s.day
      /\ s2.history = s.history /\ "supply" \in DOMAIN loadOrCreateStrategy(s2, "crabV2")
      /\ Shares(s2) = Shares(s) + SharesMove(e)
  BY <1>1, SupplyAdded
<1> HIDE DEF s2
<1>3. StoreOK(s2)
  BY <1>1, <1>2 DEF StoreOK
<1>4. /\ CollMove(e) = 0 /\ e.ev \notin Moves /\ e.ev \notin Shorts
      /\ \A v : ~Opens(e, v) /\ ~OnNft(e, v)
  BY DEF CollMove, Moves, Shorts, Opens, OnNft, NftMoves
<1>5. ASSUME NEW kind \in Kinds, NEW v \in VaultIds
      PROVE  Held(kind, v, s2) = Held(kind, v, s) + Effect(kind, v, e)
  <2>1. Held(kind, v, s) \in Int
    BY HeldInt
  <2>2. CASE kind = "shares"
    BY <1>2, <2>2 DEF Held, Effect
  <2>3. CASE kind # "shares"
    <3>1. Held(kind, v, s2) = Held(kind, v, s)
      BY <1>2, <2>3 DEF Held, Kinds
    <3>2. Effect(kind, v, e) = 0
      BY <1>4, <2>3 DEF Effect, Kinds
    <3> QED
      BY ONLY <2>1, <3>1, <3>2
  <2> QED
    BY <2>2, <2>3
<1>6. \A v \in VaultIds : s2.vaults[v].open = s.vaults[v].open /\ s2.vaults[v].nft = s.vaults[v].nft
  BY <1>2
<1>7. SnapsMove(s, e, s2)
  BY <1>2, <1>4 DEF SnapsMove
<1>8. Handles(s, e, s2)
  BY <1>3, <1>4, <1>5, <1>6, <1>7, MoveIsHandled
<1>9. Writes(s, e, s2)
  BY <1>2, <1>4 DEF Writes
<1> QED
  BY <1>8, <1>9 DEF s2

\* Rows of other entities.
LEMMA RowsKeep ==
  ASSUME NEW s, StoreOK(s), NEW e, NEW row
  PROVE  /\ Keeps(s, s) /\ Keeps(s, SaveCrab(s, e, row)) /\ Keeps(s, SaveV1(s, e, row)) /\ Keeps(s, SaveBull(s, e, row))
         /\ Keeps(s, SaveReceipt(s, e, row)) /\ Keeps(s, SaveSetting(s, e))
         /\ SaveCrab(s, e, row).strategies = s.strategies
BY DEF Keeps, StoreOK, Fields, Shares, loadOrCreateStrategy, SaveCrab, SaveV1, SaveBull, SaveReceipt, SaveSetting

LEMMA CrabTransferHandled ==
  ASSUME NEW s, StoreOK(s), NEW e, Fit(e), e.ev = "CrabTransfer"
  PROVE  Handles(s, e, crabTransfer(s, e)) /\ Writes(s, e, crabTransfer(s, e))
<1> DEFINE row == [CrabTx(s, e.tx) EXCEPT !.lp = e.amount]
<1>1. Keeps(s, s) /\ Keeps(s, SaveCrab(s, e, row)) /\ SaveCrab(s, e, row).strategies = s.strategies
  BY RowsKeep
<1>2. CASE e.src = Zero
  <2>1. crabTransfer(s, e) = AddSupply(SaveCrab(s, e, row), "crabV2", SharesMove(e))
    BY <1>2 DEF crabTransfer, SharesMove
  <2> HIDE DEF row
  <2> QED
    BY <1>1, <2>1, SharesHandled
<1>3. CASE e.src # Zero /\ e.dst = Zero
  <2>1. crabTransfer(s, e) = AddSupply(s, "crabV2", SharesMove(e))
    BY <1>3 DEF crabTransfer, SharesMove
  <2> QED
    BY <1>1, <2>1, SharesHandled
<1>4. CASE e.src # Zero /\ e.dst # Zero
  <2>1. crabTransfer(s, e) = s
    BY <1>4 DEF crabTransfer
  <2>2. Still(e) /\ \A v : ~Opens(e, v) /\ ~OnNft(e, v)
    BY <1>4 DEF OfVaults, Still, Effect, ShortMove, CollMove, SharesMove, Moves, Shorts, NftMoves, Kinds, Opens, OnNft
  <2> QED
    BY <1>1, <2>1, <2>2, QuietHandled
<1> QED
  BY <1>2, <1>3, <1>4

\* Handlers of events that tell nothing of a vault's amounts or of the shares of Crab.
LEMMA CrabRowsKeep ==
  ASSUME NEW s, StoreOK(s), NEW e
  PROVE  /\ Keeps(s, crabDeposit(s, e)) /\ Keeps(s, crabWithdraw(s, e)) /\ Keeps(s, crabWithdrawShutdown(s, e))
         /\ Keeps(s, crabFlashDeposit(s, e)) /\ Keeps(s, crabFlashDepositCallback(s, e))
         /\ Keeps(s, crabFlashWithdraw(s, e)) /\ Keeps(s, crabFlashWithdrawCallback(s, e))
         /\ Keeps(s, handleFlashDepositERC20(s, e)) /\ Keeps(s, handleFlashWithdrawERC20(s, e))
         /\ Keeps(s, handleNettingDeposit(s, e)) /\ Keeps(s, handleNettingWithdraw(s, e))
         /\ Keeps(s, handleSetHedgeTimeThreshold(s, e)) /\ Keeps(s, handleStrategySettings(s, e))
         /\ Keeps(s, handleDepositV1Shares(s, e))
<1>1. Keeps(s, s) /\ \A row : Keeps(s, SaveCrab(s, e, row)) /\ Keeps(s, SaveReceipt(s, e, row))
  BY RowsKeep
<1>2. Keeps(s, SaveSetting(s, e))
  BY RowsKeep
<1>3. /\ Keeps(s, crabDeposit(s, e)) /\ Keeps(s, crabWithdraw(s, e)) /\ Keeps(s, crabWithdrawShutdown(s, e))
  BY <1>1 DEF crabDeposit, crabWithdraw, crabWithdrawShutdown
<1>4. Keeps(s, crabFlashDeposit(s, e)) /\ Keeps(s, crabFlashDepositCallback(s, e))
  BY <1>1 DEF crabFlashDeposit, crabFlashDepositCallback
<1>5. Keeps(s, crabFlashWithdraw(s, e)) /\ Keeps(s, crabFlashWithdrawCallback(s, e))
  BY <1>1 DEF crabFlashWithdraw, crabFlashWithdrawCallback
<1>6. Keeps(s, handleFlashDepositERC20(s, e)) /\ Keeps(s, handleFlashWithdrawERC20(s, e))
  BY <1>1 DEF handleFlashDepositERC20, handleFlashWithdrawERC20
<1>7. Keeps(s, handleNettingDeposit(s, e)) /\ Keeps(s, handleNettingWithdraw(s, e))
  BY <1>1 DEF handleNettingDeposit, handleNettingWithdraw
<1>8. Keeps(s, handleSetHedgeTimeThreshold(s, e)) /\ Keeps(s, handleStrategySettings(s, e))
  BY <1>2 DEF handleSetHedgeTimeThreshold, handleStrategySettings
<1>9. Keeps(s, handleDepositV1Shares(s, e))
  BY <1>1 DEF handleDepositV1Shares
<1> QED
  BY <1>3, <1>4, <1>5, <1>6, <1>7, <1>8, <1>9

LEMMA OthersKeep ==
  ASSUME NEW s, StoreOK(s), NEW e
  PROVE  /\ Keeps(s, handleNormalizationFactorUpdated(s, e)) /\ Keeps(s, handleReduceDebt(s, e))
         /\ Keeps(s, handleRedeemShort(s, e)) /\ Keeps(s, handleHedgeOTCSingle(s, e)) /\ Keeps(s, handleHedgeOTC(s, e))
         /\ Keeps(s, handleQueueTransaction(s, e)) /\ Keeps(s, handleExecuteTransaction(s, e))
<1>1. /\ Keeps(s, handleNormalizationFactorUpdated(s, e)) /\ Keeps(s, handleReduceDebt(s, e))
      /\ Keeps(s, handleRedeemShort(s, e)) /\ Keeps(s, handleHedgeOTCSingle(s, e))
      /\ Keeps(s, handleQueueTransaction(s, e)) /\ Keeps(s, handleExecuteTransaction(s, e))
  BY DEF Keeps, StoreOK, Fields, Shares, loadOrCreateStrategy, handleNormalizationFactorUpdated, handleReduceDebt,
         handleRedeemShort, handleHedgeOTCSingle, handleQueueTransaction, handleExecuteTransaction
<1>2. Keeps(s, handleHedgeOTC(s, e))
  <2> DEFINE old == loadOrCreateStrategy(s, "crabV2")
             new == [old EXCEPT !.lastHedge = e.tx]
             s2 == handleHedgeOTC(s, e)
  <2>1. "supply" \in DOMAIN new /\ new.supply = old.supply
    BY DEF StoreOK
  <2>2. /\ Fields \subseteq DOMAIN s2 /\ s2.vaults = s.vaults /\ s2.hour = s.hour /\ s2.day = s.day
        /\ s2.history = s.history /\ s2.strategies = Put(s.strategies, "crabV2", new)
    BY DEF handleHedgeOTC, StoreOK, Fields
  <2> HIDE DEF new, s2
  <2>3. loadOrCreateStrategy(s2, "crabV2") = new
    BY <2>2 DEF loadOrCreateStrategy, Row, Put
  <2>4. Keeps(s, s2)
    BY <2>1, <2>2, <2>3 DEF Keeps, Shares
  <2> QED
    BY <2>4 DEF s2
<1> QED
  BY <1>1, <1>2

LEMMA V1RowsKeep ==
  ASSUME NEW s, StoreOK(s), NEW e
  PROVE  /\ Keeps(s, v1Deposit(s, e)) /\ Keeps(s, v1Withdraw(s, e)) /\ Keeps(s, v1FlashDeposit(s, e))
         /\ Keeps(s, v1FlashWithdraw(s, e)) /\ Keeps(s, v1Hedge(s, e)) /\ Keeps(s, v1FlashDepositCallback(s, e))
         /\ Keeps(s, v1FlashWithdrawCallback(s, e)) /\ Keeps(s, v1Auction(s, e)) /\ Keeps(s, v1Transfer(s, e))
<1>1. \A row : Keeps(s, SaveV1(s, e, row))
  BY RowsKeep
<1>2. /\ Keeps(s, v1Deposit(s, e)) /\ Keeps(s, v1Withdraw(s, e)) /\ Keeps(s, v1FlashDeposit(s, e))
      /\ Keeps(s, v1FlashWithdraw(s, e))
  BY <1>1 DEF v1Deposit, v1Withdraw, v1FlashDeposit, v1FlashWithdraw
<1>3. /\ Keeps(s, v1Hedge(s, e)) /\ Keeps(s, v1FlashDepositCallback(s, e)) /\ Keeps(s, v1FlashWithdrawCallback(s, e))
  BY <1>1 DEF v1Hedge, v1FlashDepositCallback, v1FlashWithdrawCallback
<1>4. Keeps(s, v1Auction(s, e))
  BY DEF Keeps, StoreOK, Fields, Shares, loadOrCreateStrategy, v1Auction
<1>5. Keeps(s, v1Transfer(s, e))
  <2> DEFINE a == IF e.src = Zero THEN e.amount ELSE IF e.dst = Zero THEN -e.amount ELSE 0
             row == [loadOrCreateStrategy(s, "crabV1") EXCEPT !.supply = @ + a]
             t == [AddSupply(s, "crabV1", a) EXCEPT !.strategies["crabV1"].vault = V1Vault]
             f == Put(s.strategies, "crabV1", row)
  <2>1. /\ Fields \subseteq DOMAIN t /\ t.vaults = s.vaults /\ t.hour = s.hour /\ t.day = s.day
        /\ t.history = s.history /\ t.strategies = [f EXCEPT !["crabV1"].vault = V1Vault]
    BY DEF AddSupply, StoreOK, Fields
  <2>b. /\ "crabV2" \in DOMAIN f <=> "crabV2" \in DOMAIN s.strategies
        /\ "crabV2" \in DOMAIN s.strategies => f["crabV2"] = s.strategies["crabV2"]
    BY DEF Put
  <2>a. v1Transfer(s, e) = IF e.src = Zero THEN SaveV1(t, e, [CrabV1Tx(s, e.tx) EXCEPT !.lp = e.amount])
                           ELSE IF e.dst = Zero THEN t ELSE s
    BY DEF v1Transfer
  <2> HIDE DEF t, f
  <2>c. DOMAIN t.strategies = DOMAIN f /\ ("crabV2" \in DOMAIN f => t.strategies["crabV2"] = f["crabV2"])
    BY <2>1
  <2>2. /\ "crabV2" \in DOMAIN t.strategies <=> "crabV2" \in DOMAIN s.strategies
        /\ "crabV2" \in DOMAIN s.strategies => t.strategies["crabV2"] = s.strategies["crabV2"]
    BY <2>b, <2>c
  <2>3. loadOrCreateStrategy(t, "crabV2") = loadOrCreateStrategy(s, "crabV2")
    BY <2>2 DEF loadOrCreateStrategy, Row
  <2>4. Keeps(s, t) /\ StoreOK(t)
    BY <2>1, <2>3 DEF Keeps, StoreOK, Shares
  <2>5. \A r : Keeps(t, SaveV1(t, e, r))
    BY <2>4, RowsKeep
  <2>6. \A r : Keeps(s, SaveV1(t, e, r))
    BY <2>4, <2>5 DEF Keeps
  <2>7. Keeps(s, s)
    BY RowsKeep
  <2> QED
    BY <2>a, <2>4, <2>6, <2>7
<1> QED
  BY <1>2, <1>3, <1>4, <1>5

LEMMA BullRowsKeep ==
  ASSUME NEW s, StoreOK(s), NEW e
  PROVE  /\ Keeps(s, bullTransfer(s, e)) /\ Keeps(s, bullDeposit(s, e)) /\ Keeps(s, bullWithdraw(s, e))
         /\ Keeps(s, bullFlashDeposit(s, e)) /\ Keeps(s, bullFlashWithdraw(s, e)) /\ Keeps(s, handleSetCap(s, e))
         /\ Keeps(s, handleRedeemCrabAndWithdrawEth(s, e)) /\ Keeps(s, handleShutdownRepayAndWithdraw(s, e))
         /\ Keeps(s, handleDepositEthIntoCrab(s, e)) /\ Keeps(s, bullWithdrawShutdown(s, e))
         /\ Keeps(s, handleAuctionRepayAndWithdrawFromLeverage(s, e)) /\ Keeps(s, handleFarm(s, e))
         /\ Keeps(s, bullSettings(s, e)) /\ Keeps(s, auctionRanges(s, e)) /\ Keeps(s, auctionTolerances(s, e))
         /\ Keeps(s, bullRebalance(s, e))
<1>1. Keeps(s, s) /\ \A row : Keeps(s, SaveBull(s, e, row))
  BY RowsKeep
<1>2. Keeps(s, SaveSetting(s, e))
  BY RowsKeep
<1>3. /\ Keeps(s, bullTransfer(s, e)) /\ Keeps(s, bullDeposit(s, e)) /\ Keeps(s, bullWithdraw(s, e))
      /\ Keeps(s, bullFlashDeposit(s, e)) /\ Keeps(s, bullFlashWithdraw(s, e))
  BY <1>1 DEF bullTransfer, bullDeposit, bullWithdraw, bullFlashDeposit, bullFlashWithdraw
<1>4. /\ Keeps(s, handleSetCap(s, e))
      /\ Keeps(s, handleRedeemCrabAndWithdrawEth(s, e)) /\ Keeps(s, handleShutdownRepayAndWithdraw(s, e))
      /\ Keeps(s, handleDepositEthIntoCrab(s, e)) /\ Keeps(s, handleAuctionRepayAndWithdrawFromLeverage(s, e))
  BY <1>1 DEF BullRow, handleSetCap, handleRedeemCrabAndWithdrawEth, handleShutdownRepayAndWithdraw,
              handleDepositEthIntoCrab, handleAuctionRepayAndWithdrawFromLeverage
<1>5. /\ Keeps(s, handleFarm(s, e)) /\ Keeps(s, bullSettings(s, e)) /\ Keeps(s, auctionRanges(s, e))
      /\ Keeps(s, auctionTolerances(s, e))
  BY <1>1, <1>2 DEF handleFarm, bullSettings, auctionRanges, auctionTolerances
<1>6. Keeps(s, bullWithdrawShutdown(s, e))
  <2> DEFINE t == BullRow(s, e, e.user, "WITHDRAW_SHUTDOWN")
             u == [t EXCEPT !.bullTx[e.tx].bull = e.lp]
  <2>1. Keeps(s, t) /\ t.strategies = s.strategies
    BY <1>1 DEF BullRow, SaveBull, Keeps, StoreOK, Fields
  <2>2. u = bullWithdrawShutdown(s, e)
    BY DEF bullWithdrawShutdown
  <2> HIDE DEF t
  <2>3. /\ Fields \subseteq DOMAIN u /\ u.vaults = t.vaults /\ u.hour = t.hour /\ u.day = t.day
        /\ u.history = t.history /\ u.strategies = t.strategies
    BY <2>1 DEF Keeps, Fields
  <2> HIDE DEF u
  <2>4. Keeps(s, u)
    BY <2>1, <2>3 DEF Keeps, Shares, loadOrCreateStrategy
  <2> QED
    BY <2>2, <2>4
<1>7. Keeps(s, bullRebalance(s, e))
  <2> DEFINE row == [loadOrCreateStrategy(s, "auctionBull") EXCEPT !.lastHedge = e.tx]
             s2 == bullRebalance(s, e)
  <2>1. /\ Fields \subseteq DOMAIN s2 /\ s2.vaults = s.vaults /\ s2.hour = s.hour /\ s2.day = s.day
        /\ s2.history = s.history /\ s2.strategies = Put(s.strategies, "auctionBull", row)
    BY DEF bullRebalance, StoreOK, Fields
  <2> HIDE DEF row, s2
  <2>2. loadOrCreateStrategy(s2, "crabV2") = loadOrCreateStrategy(s, "crabV2")
    BY <2>1 DEF loadOrCreateStrategy, Row, Put
  <2>3. Keeps(s, s2)
    BY <2>1, <2>2 DEF Keeps, Shares, StoreOK
  <2> QED
    BY <2>3 DEF s2
<1> QED
  BY <1>3, <1>4, <1>5, <1>6, <1>7

-----------------------------------------------------------------------------
(* Every step of the indexing node. *)

\* The first event of the log: its vault is known, unless it opens it.
LEMMA HeadIsKnown ==
  ASSUME FollowInv, pending # <<>>
  PROVE  /\ Head(pending) = pending[1] /\ Fit(pending[1]) /\ StoreOK(store)
         /\ pending[1].ev \in OfVaults => (Known(store, pending[1]) <=> pending[1].ev # "OpenVault")
<1>1. Head(pending) = pending[1] /\ Fit(pending[1]) /\ 1 \in 1 .. Len(pending)
  BY Handling DEF FollowInv, ChainOK
<1>2. ASSUME pending[1].ev \in OfVaults PROVE Known(store, pending[1]) <=> pending[1].ev # "OpenVault"
  <2> DEFINE v == pending[1].vault
  <2>1. v \in VaultIds /\ On(pending[1], v) /\ (Opens(pending[1], v) <=> pending[1].ev = "OpenVault")
    BY <1>1, <1>2 DEF Fit, On, Opens
  <2>2. Opens(pending[1], v) => ~store.vaults[v].open
    BY <1>1, <2>1 DEF FollowInv, OpenedInOrder
  <2>3. ~store.vaults[v].open => \E j \in 1 .. 1 : Opens(pending[j], v)
    BY <1>1, <2>1 DEF FollowInv, OpenedInOrder
  <2>4. ~store.vaults[v].open => Opens(pending[1], v)
    BY <2>3
  <2> QED
    BY <2>1, <2>2, <2>4 DEF Known
<1> QED
  BY <1>1, <1>2 DEF FollowInv

Indexed(s2) == Handles(store, pending[1], s2) /\ Writes(store, pending[1], s2)

LEMMA QuietlyIndexed ==
  ASSUME FollowInv, NEW name, name \notin Telling, NEW next, Handled(name, next), Keeps(store, next)
  PROVE  Indexed(store')
<1>1. pending # <<>> /\ Head(pending).ev = name /\ store' = next
  BY DEF Handled
<1>2. pending[1].ev \notin Telling /\ StoreOK(store)
  BY <1>1, HeadIsKnown
<1> QED
  BY <1>1, <1>2, QuietIsStill, QuietHandled DEF Indexed

LEMMA ControllerIsIndexed == ASSUME FollowInv, IndexController PROVE Indexed(store')
<1> DEFINE e == Head(pending)
<1> SUFFICES ASSUME pending # <<>>, StoreOK(store)
             PROVE  Indexed(store')
  BY DEF IndexController, Handled, FollowInv
<1>2. e = pending[1] /\ Fit(e) /\ (e.ev \in OfVaults => (Known(store, e) <=> e.ev # "OpenVault"))
  BY HeadIsKnown
<1> HIDE DEF e
<1>3. CASE Handled("OpenVault", handleOpenVault(store, e))
  BY <1>2, <1>3, OpenVaultHandled DEF Handled, Indexed, OfVaults, e
<1>4. CASE Handled("MintShort", handleMintShort(store, e))
  BY <1>2, <1>4, MintShortHandled DEF Handled, Indexed, OfVaults, Shorts, e
<1>5. CASE Handled("BurnShort", handleBurnShort(store, e))
  BY <1>2, <1>5, BurnShortHandled DEF Handled, Indexed, OfVaults, Shorts, e
<1>6. CASE Handled("DepositCollateral", handleDepositCollateral(store, e))
  BY <1>2, <1>6, DepositCollateralHandled DEF Handled, Indexed, OfVaults, Moves, e
<1>7. CASE Handled("WithdrawCollateral", handleWithdrawCollateral(store, e))
  BY <1>2, <1>7, WithdrawCollateralHandled DEF Handled, Indexed, OfVaults, Moves, e
<1>8. CASE Handled("Liquidate", handleLiquidate(store, e))
  BY <1>2, <1>8, LiquidateHandled DEF Handled, Indexed, OfVaults, Moves, e
<1>9. CASE Handled("DepositNft", handleDepositUniPositionToken(store, e))
  <2>1. e.ev = "DepositNft" /\ store' = handleDepositUniPositionToken(store, e)
    BY <1>9 DEF Handled, e
  <2>2. Known(store, e) /\ e.ev \in NftMoves /\ TRUE = (e.ev = "DepositNft")
    BY <1>2, <2>1 DEF OfVaults, NftMoves
  <2>3. store' = [store EXCEPT !.vaults[e.vault].nft = TRUE]
    BY <2>1, <2>2 DEF handleDepositUniPositionToken
  <2> QED
    BY <1>2, <2>2, <2>3, NftHandled DEF Indexed
<1>10. CASE Handled("WithdrawNft", handleWithdrawUniPositionToken(store, e))
  <2>1. e.ev = "WithdrawNft" /\ store' = handleWithdrawUniPositionToken(store, e)
    BY <1>10 DEF Handled, e
  <2>2. Known(store, e) /\ e.ev \in NftMoves /\ FALSE = (e.ev = "DepositNft")
    BY <1>2, <2>1 DEF OfVaults, NftMoves
  <2>3. store' = [store EXCEPT !.vaults[e.vault].nft = FALSE]
    BY <2>1, <2>2 DEF handleWithdrawUniPositionToken
  <2> QED
    BY <1>2, <2>2, <2>3, NftHandled DEF Indexed
<1>11. {"NormUpdated", "ReduceDebt", "RedeemShort"} \cap Telling = {}
  BY DEF Telling, OfVaults, Moves, Shorts, NftMoves
<1>12. CASE Handled("NormUpdated", handleNormalizationFactorUpdated(store, e))
  BY <1>11, <1>12, OthersKeep, QuietlyIndexed
<1>13. CASE Handled("ReduceDebt", handleReduceDebt(store, e))
  BY <1>11, <1>13, OthersKeep, QuietlyIndexed
<1>14. CASE Handled("RedeemShort", handleRedeemShort(store, e))
  BY <1>11, <1>14, OthersKeep, QuietlyIndexed
<1> QED
  BY <1>3, <1>4, <1>5, <1>6, <1>7, <1>8, <1>9, <1>10, <1>12, <1>13, <1>14 DEF IndexController, e

LEMMA CrabIsIndexed == ASSUME FollowInv, IndexCrab PROVE Indexed(store')
<1> DEFINE e == Head(pending)
<1>1. CASE Handled("CrabTransfer", crabTransfer(store, e))
  <2>1. pending # <<>> /\ e.ev = "CrabTransfer" /\ store' = crabTransfer(store, e)
    BY <1>1 DEF Handled
  <2> QED
    BY <2>1, HeadIsKnown, CrabTransferHandled DEF Indexed
<1>2. ASSUME NEW name \in {"CrabDeposit", "CrabWithdraw", "CrabWithdrawShutdown", "CrabFlashDeposit",
                           "CrabFlashDepositCallback", "CrabFlashWithdraw", "CrabFlashWithdrawCallback",
                           "FlashDepositERC20", "FlashWithdrawERC20", "NettingDeposit", "NettingWithdraw",
                           "HedgeOTCSingle", "HedgeOTC", "QueueTransaction", "ExecuteTransaction",
                           "SetHedgeTimeThreshold", "SetStrategyCap", "DepositV1Shares"},
             NEW next, Keeps(store, next), Handled(name, next)
      PROVE  Indexed(store')
  <2>1. name \notin Telling
    BY DEF Telling, OfVaults, Moves, Shorts, NftMoves
  <2> QED
    BY <1>2, <2>1, QuietlyIndexed
<1>3. StoreOK(store)
  BY DEF FollowInv
<1> HIDE DEF e
<1>4. /\ Keeps(store, crabDeposit(store, e)) /\ Keeps(store, crabWithdraw(store, e))
      /\ Keeps(store, crabWithdrawShutdown(store, e)) /\ Keeps(store, crabFlashDeposit(store, e))
      /\ Keeps(store, crabFlashDepositCallback(store, e)) /\ Keeps(store, crabFlashWithdraw(store, e))
      /\ Keeps(store, crabFlashWithdrawCallback(store, e)) /\ Keeps(store, handleFlashDepositERC20(store, e))
      /\ Keeps(store, handleFlashWithdrawERC20(store, e)) /\ Keeps(store, handleNettingDeposit(store, e))
      /\ Keeps(store, handleNettingWithdraw(store, e)) /\ Keeps(store, handleSetHedgeTimeThreshold(store, e))
      /\ Keeps(store, handleStrategySettings(store, e)) /\ Keeps(store, handleDepositV1Shares(store, e))
  BY <1>3, CrabRowsKeep
<1>5. /\ Keeps(store, handleHedgeOTCSingle(store, e)) /\ Keeps(store, handleHedgeOTC(store, e))
      /\ Keeps(store, handleQueueTransaction(store, e)) /\ Keeps(store, handleExecuteTransaction(store, e))
  BY <1>3, OthersKeep
<1>6. \/ Handled("CrabTransfer", crabTransfer(store, e))
      \/ \E name \in {"CrabDeposit", "CrabWithdraw", "CrabWithdrawShutdown", "CrabFlashDeposit",
                      "CrabFlashDepositCallback", "CrabFlashWithdraw", "CrabFlashWithdrawCallback",
                      "FlashDepositERC20", "FlashWithdrawERC20", "NettingDeposit", "NettingWithdraw",
                      "HedgeOTCSingle", "HedgeOTC", "QueueTransaction", "ExecuteTransaction",
                      "SetHedgeTimeThreshold", "SetStrategyCap", "DepositV1Shares"} : \E next :
           Keeps(store, next) /\ Handled(name, next)
  BY <1>4, <1>5 DEF IndexCrab, e
<1> QED
  BY <1>1, <1>2, <1>6

LEMMA V1IsIndexed == ASSUME FollowInv, IndexV1 PROVE Indexed(store')
<1> DEFINE e == Head(pending)
<1>1. ASSUME NEW name \in {"V1Transfer", "V1Deposit", "V1Withdraw", "V1FlashDeposit", "V1FlashWithdraw",
                           "V1FlashDepositCallback", "V1FlashWithdrawCallback", "V1Hedge", "V1Auction"},
             NEW next, Keeps(store, next), Handled(name, next)
      PROVE  Indexed(store')
  <2>1. name \notin Telling
    BY DEF Telling, OfVaults, Moves, Shorts, NftMoves
  <2> QED
    BY <1>1, <2>1, QuietlyIndexed
<1>2. StoreOK(store)
  BY DEF FollowInv
<1> HIDE DEF e
<1>3. /\ Keeps(store, v1Deposit(store, e)) /\ Keeps(store, v1Withdraw(store, e))
      /\ Keeps(store, v1FlashDeposit(store, e)) /\ Keeps(store, v1FlashWithdraw(store, e))
      /\ Keeps(store, v1Hedge(store, e)) /\ Keeps(store, v1FlashDepositCallback(store, e))
      /\ Keeps(store, v1FlashWithdrawCallback(store, e)) /\ Keeps(store, v1Auction(store, e))
      /\ Keeps(store, v1Transfer(store, e))
  BY <1>2, V1RowsKeep
<1>4. \E name \in {"V1Transfer", "V1Deposit", "V1Withdraw", "V1FlashDeposit", "V1FlashWithdraw",
                   "V1FlashDepositCallback", "V1FlashWithdrawCallback", "V1Hedge", "V1Auction"} : \E next :
        Keeps(store, next) /\ Handled(name, next)
  BY <1>3 DEF IndexV1, e
<1> QED
  BY <1>1, <1>4

LEMMA BullIsIndexed == ASSUME FollowInv, IndexBull PROVE Indexed(store')
<1> DEFINE e == Head(pending)
<1>1. ASSUME NEW name \in {"BullTransfer", "BullDeposit", "BullWithdraw", "BullFlashDeposit", "BullFlashWithdraw",
                           "Rebalance", "SetCap", "BullRedeemCrab", "BullShutdown", "DepositEthIntoCrab",
                           "BullWithdrawShutdown", "AuctionRepay", "Farm", "SetAuction", "SetRange", "SetTolerance"},
             NEW next, Keeps(store, next), Handled(name, next)
      PROVE  Indexed(store')
  <2>1. name \notin Telling
    BY DEF Telling, OfVaults, Moves, Shorts, NftMoves
  <2> QED
    BY <1>1, <2>1, QuietlyIndexed
<1>2. StoreOK(store)
  BY DEF FollowInv
<1> HIDE DEF e
<1>3. /\ Keeps(store, bullTransfer(store, e)) /\ Keeps(store, bullDeposit(store, e))
      /\ Keeps(store, bullWithdraw(store, e)) /\ Keeps(store, bullFlashDeposit(store, e))
      /\ Keeps(store, bullFlashWithdraw(store, e)) /\ Keeps(store, handleSetCap(store, e))
      /\ Keeps(store, handleRedeemCrabAndWithdrawEth(store, e)) /\ Keeps(store, handleShutdownRepayAndWithdraw(store, e))
      /\ Keeps(store, handleDepositEthIntoCrab(store, e)) /\ Keeps(store, bullWithdrawShutdown(store, e))
      /\ Keeps(store, handleAuctionRepayAndWithdrawFromLeverage(store, e)) /\ Keeps(store, handleFarm(store, e))
      /\ Keeps(store, bullSettings(store, e)) /\ Keeps(store, auctionRanges(store, e))
      /\ Keeps(store, auctionTolerances(store, e)) /\ Keeps(store, bullRebalance(store, e))
  BY <1>2, BullRowsKeep
<1>4. \E name \in {"BullTransfer", "BullDeposit", "BullWithdraw", "BullFlashDeposit", "BullFlashWithdraw",
                   "Rebalance", "SetCap", "BullRedeemCrab", "BullShutdown", "DepositEthIntoCrab",
                   "BullWithdrawShutdown", "AuctionRepay", "Farm", "SetAuction", "SetRange", "SetTolerance"} : \E next :
        Keeps(store, next) /\ Handled(name, next)
  BY <1>3 DEF IndexBull, e
<1> QED
  BY <1>1, <1>4

LEMMA IndexIsHandling ==
  ASSUME FollowInv, Index PROVE HandlesNext /\ Writes(store, pending[1], store')
<1>1. Indexed(store')
  BY ControllerIsIndexed, CrabIsIndexed, V1IsIndexed, BullIsIndexed DEF Index
<1>2. /\ pending # <<>> /\ pending' = Tail(pending)
      /\ UNCHANGED <<now, txs, onchain, unseen, supply, totalAt, truth, batched>>
  BY DEF Index, IndexController, IndexCrab, IndexV1, IndexBull, Handled
<1> QED
  BY <1>1, <1>2 DEF HandlesNext, Indexed

-----------------------------------------------------------------------------
(* The theorems. *)

LEMMA InitFollows == Init => FollowInv
<1> SUFFICES ASSUME Init PROVE FollowInv
  OBVIOUS
<1>1. /\ now = 0 /\ txs = 0 /\ supply = 0 /\ pending = <<>> /\ batched = FALSE
      /\ onchain = [v \in VaultIds |-> IF v \in UserVaults THEN None ELSE Empty]
      /\ unseen = [v \in VaultIds |-> Empty] /\ totalAt = [t \in Times |-> 0]
      /\ store.vaults = onchain /\ store.hour = NoPeriod /\ store.day = NoPeriod /\ store.strategies = Nothing
      /\ store.history = Nothing /\ Fields \subseteq DOMAIN store
  BY DEF Init, Fields
<1>2. /\ None \in VaultRow /\ None.open = FALSE /\ None.short = 0 /\ None.coll = 0 /\ None.nft = FALSE
      /\ Empty \in VaultRow /\ Empty.open = TRUE /\ Empty.short = 0 /\ Empty.coll = 0 /\ Empty.nft = FALSE
  BY EmptyRow DEF None, VaultRow
<1>3. /\ onchain \in [VaultIds -> VaultRow] /\ unseen \in [VaultIds -> VaultRow]
      /\ \A v \in VaultIds : /\ onchain[v].short = 0 /\ onchain[v].coll = 0 /\ onchain[v].nft = FALSE
                             /\ ~onchain[v].open => onchain[v] = None
                             /\ unseen[v] = Empty
  BY <1>1, <1>2
<1>4. CrabVault \in VaultIds \ UserVaults /\ V1Vault \in VaultIds \ UserVaults /\ MaxTime \in Nat
  BY SubgraphAssumption DEF VaultIds
<1>5. ChainOK
  <2>1. onchain[CrabVault].open /\ onchain[V1Vault].open
    BY <1>1, <1>2, <1>4
  <2>2. now \in Times /\ txs \in Nat /\ supply \in Int
    BY <1>1, <1>4 DEF Times
  <2>a. batched \in BOOLEAN
    BY <1>1
  <2>b. totalAt \in [Times -> Int]
    BY <1>1
  <2>3. \A v \in VaultIds : /\ ~onchain[v].open => onchain[v] = None /\ unseen[v] = Empty
                            /\ ~(onchain[v].nft /\ unseen[v].nft)
    BY <1>3
  <2> QED
    BY <1>3, <2>1, <2>2, <2>a, <2>b, <2>3 DEF ChainOK
<1>6. loadOrCreateStrategy(store, "crabV2") = [supply |-> 0, vault |-> 0, lastHedge |-> 0]
  BY <1>1 DEF loadOrCreateStrategy, Row, Nothing
<1>7. StoreOK(store) /\ Shares(store) = 0
  BY <1>1, <1>3, <1>6 DEF StoreOK, Shares
<1>8. IsLog(pending) /\ Len(pending) = 0
  BY <1>1 DEF IsLog
<1>9. LogOK /\ OpenedInOrder
  BY <1>1, <1>8 DEF LogOK, OpenedInOrder
<1>10. \A kind, v, t : Rest(kind, v, pending, t) = 0
  BY <1>8, RestOfLater
<1>11. HeldColl(store.vaults) = 0 /\ Announced(onchain, unseen) = 0
  <2> DEFINE f == [v \in VaultIds |-> store.vaults[v].coll]
             g == [v \in VaultIds |-> onchain[v].coll + unseen[v].coll]
  <2>1. \A v \in VaultIds : f[v] = 0 /\ g[v] = 0
    BY <1>1, <1>2, <1>3
  <2>2. DOMAIN f = VaultIds /\ DOMAIN g = VaultIds /\ HeldColl(store.vaults) = SumOf(f) /\ Announced(onchain, unseen) = SumOf(g)
    BY DEF HeldColl, Announced
  <2> HIDE DEF f, g
  <2>3. SumOver(f, VaultIds) = 0 /\ SumOver(g, VaultIds) = 0
    BY <2>1, VaultsAreFinite, SumZero
  <2> QED
    BY <2>2, <2>3 DEF SumOf
<1>12. Balanced
  <2> SUFFICES ASSUME NEW kind \in Kinds, NEW v \in VaultIds
               PROVE  Held(kind, v, store) + Rest(kind, v, pending, MaxTime) = Truth(kind, v, onchain, unseen, supply)
    BY DEF Balanced
  <2>1. Held(kind, v, store) = 0
    BY <1>1, <1>3, <1>7, <1>11 DEF Held
  <2>2. Truth(kind, v, onchain, unseen, supply) = 0
    BY <1>1, <1>2, <1>3, <1>11 DEF Truth
  <2> QED
    BY <1>10, <2>1, <2>2
<1>13. NftFollows
  <2>1. \A v \in VaultIds : store.vaults[v].nft = FALSE /\ onchain[v].nft = FALSE /\ unseen[v].nft = FALSE
    BY <1>1, <1>2, <1>3
  <2>2. ASSUME NEW v \in VaultIds PROVE store.vaults[v].nft = (onchain[v].nft \/ unseen[v].nft)
    BY <2>1
  <2> QED
    BY <1>8, <2>2 DEF NftFollows
<1>14. ASSUME NEW period \in Nat \ {0} PROVE SnapOK(NoPeriod, period, 0, pending, totalAt, now)
  <2>1. /\ {"start", "total", "past"} \subseteq DOMAIN NoPeriod /\ NoPeriod.start = -1 /\ NoPeriod.total = 0
        /\ DOMAIN NoPeriod.past = {}
    BY DEF NoPeriod, Nothing
  <2>2. \A t \in Times : 0 + Rest("total", CrabVault, pending, t) = totalAt[t]
    BY <1>1, <1>10
  <2> HIDE DEF NoPeriod
  <2> QED
    BY <1>1, <1>8, <2>1, <2>2 DEF SnapOK
<1>15. SnapsOK
  BY <1>1, <1>11, <1>14, SubgraphAssumption DEF SnapsOK
<1> QED
  BY <1>5, <1>7, <1>9, <1>12, <1>13, <1>15 DEF FollowInv

LEMMA NextFollows == FollowInv /\ [Next]_vars => FollowInv'
<1> SUFFICES ASSUME FollowInv, [Next]_vars PROVE FollowInv'
  OBVIOUS
<1>1. CASE VaultTransaction \/ StrategyTransaction
  BY <1>1, ChainKeepsInv
<1>2. CASE Index
  BY <1>2, IndexIsHandling, IndexKeepsInv
<1>3. CASE UNCHANGED vars
  BY <1>3 DEF vars, FollowInv, ChainOK, LogOK, OpenedInOrder, Balanced, NftFollows, SnapsOK
<1> QED
  BY <1>1, <1>2, <1>3 DEF Next

\* What the store is to the chain, at any distance behind it.
LEMMA StoreFollowsChain == Spec => []FollowInv
  BY InitFollows, NextFollows, PTL DEF Spec

LEMMA FollowedTotals == FollowInv => TotalsAgree
BY DEF FollowInv, SnapsOK, SnapOK, TotalsAgree, HeldColl

LEMMA FollowedEntities == FollowInv => EntitiesFollowChain
<1> SUFFICES ASSUME FollowInv, pending = <<>> PROVE
       /\ \A v \in VaultIds :
            /\ store.vaults[v].open = onchain[v].open
            /\ store.vaults[v].short = onchain[v].short + unseen[v].short
            /\ store.vaults[v].coll = onchain[v].coll + unseen[v].coll
            /\ store.vaults[v].nft = (onchain[v].nft \/ unseen[v].nft)
       /\ loadOrCreateStrategy(store, "crabV2").supply = supply
  BY DEF EntitiesFollowChain
<1>1. Len(pending) = 0 /\ IsLog(pending)
  BY DEF IsLog
<1>2. \A kind, v, t : Rest(kind, v, pending, t) = 0
  BY <1>1, RestOfLater
<1>3. \A kind \in Kinds, v \in VaultIds : Held(kind, v, store) = Truth(kind, v, onchain, unseen, supply)
  <2> TAKE kind \in Kinds, v \in VaultIds
  <2>1. Held(kind, v, store) \in Int /\ Held(kind, v, store) + 0 = Truth(kind, v, onchain, unseen, supply)
    BY <1>2, HeldInt DEF FollowInv, Balanced
  <2> QED
    BY ONLY <2>1
<1>4. ASSUME NEW v \in VaultIds
      PROVE  /\ store.vaults[v].short = onchain[v].short + unseen[v].short
             /\ store.vaults[v].coll = onchain[v].coll + unseen[v].coll
  <2>1. Held("short", v, store) = Truth("short", v, onchain, unseen, supply)
    BY <1>3 DEF Kinds
  <2>2. Held("coll", v, store) = Truth("coll", v, onchain, unseen, supply)
    BY <1>3 DEF Kinds
  <2> QED
    BY <2>1, <2>2 DEF Held, Truth
<1>5. ASSUME NEW v \in VaultIds PROVE store.vaults[v].open = onchain[v].open
  <2>1. store.vaults[v].open \in BOOLEAN /\ onchain[v].open \in BOOLEAN
    BY DEF FollowInv, StoreOK, ChainOK, VaultRow
  <2>2. store.vaults[v].open <=> onchain[v].open
    BY <1>1 DEF FollowInv, OpenedInOrder
  <2> QED
    BY <2>1, <2>2
<1>6. \A v \in VaultIds : store.vaults[v].nft = (onchain[v].nft \/ unseen[v].nft)
  BY <1>1 DEF FollowInv, NftFollows
<1>7. loadOrCreateStrategy(store, "crabV2").supply = supply
  <2>1. Held("shares", CrabVault, store) = Truth("shares", CrabVault, onchain, unseen, supply)
    BY <1>3 DEF Kinds, VaultIds
  <2> QED
    BY <2>1 DEF Held, Truth, Shares
<1> QED
  BY <1>4, <1>5, <1>6, <1>7

\* The totals of the subgraph are the collateral of its vaults, and what it
\* filed of a period is what the chain had announced by its last block,
\* however far the indexing node is behind (controller.ts, getHourStatSnapshot
\* and getDayStatSnapshot).
THEOREM TotalsAreTheChains == Spec => []TotalsAgree
  BY StoreFollowsChain, FollowedTotals, PTL

\* Once it has caught up, every vault entity and the supply of Crab are the
\* chain's, but for what no event told (the handlers of controller.ts and
\* crabV2.ts).
THEOREM EntitiesAreTheChains == Spec => []EntitiesFollowChain
  BY StoreFollowsChain, FollowedEntities, PTL

-----------------------------------------------------------------------------
(* The history of a vault. *)

LEMMA SignedInt ==
  ASSUME NEW h, NEW k, h[k].eth \in Int
  PROVE  Signed(h, k) \in Int /\ (h[k].eth = 0 => Signed(h, k) = 0)
BY DEF Signed

LEMMA HistoryInt ==
  ASSUME NEW h, IsFiniteSet(DOMAIN h), \A k \in DOMAIN h : h[k].eth \in Int, NEW v
  PROVE  HistoryColl(h, v) \in Int
<1> DEFINE f == [k \in DOMAIN h |-> IF h[k].vault = v THEN Signed(h, k) ELSE 0]
<1>1. DOMAIN f = DOMAIN h /\ \A k \in DOMAIN h : f[k] \in Int
  BY SignedInt
<1>2. HistoryColl(h, v) = SumOf(f)
  BY DEF HistoryColl
<1> HIDE DEF f
<1>3. SumOver(f, DOMAIN h) \in Int
  BY <1>1, SumInt
<1> QED
  BY <1>1, <1>2, <1>3 DEF SumOf

\* A row under a new key adds what it tells.
LEMMA RowAdded ==
  ASSUME NEW h, IsFiniteSet(DOMAIN h), \A k \in DOMAIN h : h[k].eth \in Int,
         NEW key, key \notin DOMAIN h, NEW row, row.eth \in Int, NEW v
  PROVE  HistoryColl(Put(h, key, row), v) =
           HistoryColl(h, v) + (IF row.vault = v THEN (IF key[2] = "DEPOSIT_COLLAT" THEN 1 ELSE -1) * row.eth ELSE 0)
<1> DEFINE h2 == Put(h, key, row)
           f == [k \in DOMAIN h2 |-> IF h2[k].vault = v THEN Signed(h2, k) ELSE 0]
           g == [k \in DOMAIN h |-> IF h[k].vault = v THEN Signed(h, k) ELSE 0]
<1>1. DOMAIN h2 = DOMAIN h \cup {key} /\ h2[key] = row /\ \A k \in DOMAIN h : h2[k] = h[k]
  BY DEF Put
<1>2. HistoryColl(h2, v) = SumOf(f) /\ HistoryColl(h, v) = SumOf(g)
  BY DEF HistoryColl
<1> HIDE DEF h2
<1>3. /\ DOMAIN f = DOMAIN h \cup {key} /\ DOMAIN g = DOMAIN h
      /\ \A k \in DOMAIN h : f[k] = g[k] /\ g[k] \in Int
      /\ f[key] = (IF row.vault = v THEN Signed(h2, key) ELSE 0) /\ f[key] \in Int
  BY <1>1, SignedInt DEF Signed
<1> HIDE DEF f, g
<1>4. \A k \in DOMAIN h \cup {key} : f[k] \in Int
  BY <1>3
<1>5. SumOver(f, DOMAIN h \cup {key}) = f[key] + SumOver(f, DOMAIN h)
  BY <1>4, SumAdd
<1>6. SumOver(f, DOMAIN h) = SumOver(g, DOMAIN h)
  BY <1>3, SumSame
<1>7. SumOver(g, DOMAIN h) \in Int
  BY <1>3, SumInt
<1>8. HistoryColl(h2, v) = HistoryColl(h, v) + f[key]
  BY <1>2, <1>3, <1>5, <1>6, <1>7 DEF SumOf
<1> QED
  BY <1>1, <1>3, <1>8 DEF Signed, h2

\* A row without ETH changes nothing, under any key that had none.
LEMMA EmptyRowAdded ==
  ASSUME NEW h, IsFiniteSet(DOMAIN h), \A k \in DOMAIN h : h[k].eth \in Int,
         NEW key, key \in DOMAIN h => h[key].eth = 0, NEW row, row.eth = 0, NEW v
  PROVE  HistoryColl(Put(h, key, row), v) = HistoryColl(h, v)
<1>1. HistoryColl(h, v) \in Int
  BY HistoryInt
<1>2. CASE key \notin DOMAIN h
  <2>1. row.eth \in Int
    OBVIOUS
  <2>2. HistoryColl(Put(h, key, row), v) =
          HistoryColl(h, v) + (IF row.vault = v THEN (IF key[2] = "DEPOSIT_COLLAT" THEN 1 ELSE -1) * row.eth ELSE 0)
    BY <1>2, <2>1, RowAdded
  <2> QED
    BY ONLY <1>1, <2>2, row.eth = 0
<1>3. CASE key \in DOMAIN h
  <2> DEFINE h2 == Put(h, key, row)
             f == [k \in DOMAIN h2 |-> IF h2[k].vault = v THEN Signed(h2, k) ELSE 0]
             g == [k \in DOMAIN h |-> IF h[k].vault = v THEN Signed(h, k) ELSE 0]
  <2>1. DOMAIN h2 = DOMAIN h /\ h2[key] = row /\ \A k \in DOMAIN h : k # key => h2[k] = h[k]
    BY <1>3 DEF Put
  <2>2. HistoryColl(h2, v) = SumOf(f) /\ HistoryColl(h, v) = SumOf(g)
    BY DEF HistoryColl
  <2> HIDE DEF h2
  <2>3. Signed(h2, key) = 0 /\ Signed(h, key) = 0
    BY <1>3, <2>1, SignedInt
  <2>4. \A k \in DOMAIN h : f[k] = g[k]
    <3> TAKE k \in DOMAIN h
    <3>1. CASE k = key
      BY <2>1, <2>3, <3>1
    <3>2. CASE k # key
      BY <2>1, <3>2 DEF Signed
    <3> QED
      BY <3>1, <3>2
  <2>5. DOMAIN f = DOMAIN h /\ DOMAIN g = DOMAIN h
    BY <2>1
  <2> HIDE DEF f, g
  <2>6. SumOver(f, DOMAIN h) = SumOver(g, DOMAIN h)
    BY <2>4, SumSame
  <2> QED
    BY <2>2, <2>5, <2>6 DEF SumOf, h2
<1> QED
  BY <1>2, <1>3

\* The chain keeps the history apart: a transaction has a number of its own.
LEMMA ChainKeepsHistory ==
  ASSUME HistoryInv, NEW from, NEW value, NEW events, Mine(from, value, events), Transaction(events)
  PROVE  RowsOK' /\ RowsFresh'
<1>1. /\ Len(pending') = Len(pending) + Len(events)
      /\ \A i \in 1 .. Len(pending) : pending'[i] = pending[i]
      /\ \A j \in 1 .. Len(events) :
           pending'[Len(pending) + j].ev = events[j].ev /\ pending'[Len(pending) + j].tx = txs'
  BY Mined DEF HistoryInv, FollowInv, LogOK, Transaction
<1>2. /\ Len(pending) \in Nat /\ Len(events) \in Nat /\ store' = store /\ txs \in Nat /\ txs' = txs + 1
      /\ \A i \in 1 .. Len(pending) : pending[i].tx \in 1 .. txs
  BY DEF HistoryInv, FollowInv, LogOK, ChainOK, IsLog, Transaction, Raws, Mine
<1>3. RowsOK'
  BY <1>2 DEF HistoryInv, RowsOK
<1>4. \A i \in 1 .. Len(pending') : i \in 1 .. Len(pending) \/ \E j \in 1 .. Len(events) : i = Len(pending) + j
  <2>1. OldsAndNews(Len(pending'), Len(pending), Len(events))
    BY <1>1, <1>2, OldOrNew
  <2> QED
    BY <2>1 DEF OldsAndNews
<1>5. ASSUME ~batched'
      PROVE  /\ \A i \in 1 .. Len(pending') : pending'[i].ev \in Moves =>
                  /\ <<pending'[i].tx, ActionOf(pending'[i])>> \notin DOMAIN store.history
                  /\ \A j \in 1 .. Len(pending') :
                       pending'[j].ev = pending'[i].ev /\ pending'[j].tx = pending'[i].tx => j = i
             /\ \A v \in VaultIds : store.vaults[v].coll = HistoryColl(store.history, v)
  <2>1. /\ ~batched
        /\ \A i, j \in 1 .. Len(events) : events[i].ev \in Moves /\ events[j].ev = events[i].ev => i = j
    BY <1>5 DEF Transaction
  <2>2. /\ \A i \in 1 .. Len(pending) : pending[i].ev \in Moves =>
             /\ <<pending[i].tx, ActionOf(pending[i])>> \notin DOMAIN store.history
             /\ \A j \in 1 .. Len(pending) : pending[j].ev = pending[i].ev /\ pending[j].tx = pending[i].tx => j = i
        /\ \A v \in VaultIds : store.vaults[v].coll = HistoryColl(store.history, v)
    BY <2>1 DEF HistoryInv, RowsFresh
  <2>3. \A action : <<txs', action>> \notin DOMAIN store.history
    <3> TAKE action
    <3>1. \A k \in DOMAIN store.history : k[1] \in 0 .. txs
      BY DEF HistoryInv, RowsOK
    <3>2. <<txs', action>>[1] = txs' /\ txs' \notin 0 .. txs
      BY <1>2
    <3> QED
      BY <3>1, <3>2
  <2>4. ASSUME NEW i \in 1 .. Len(pending'), pending'[i].ev \in Moves
        PROVE  /\ <<pending'[i].tx, ActionOf(pending'[i])>> \notin DOMAIN store.history
               /\ \A j \in 1 .. Len(pending') :
                    pending'[j].ev = pending'[i].ev /\ pending'[j].tx = pending'[i].tx => j = i
    <3>1. CASE i \in 1 .. Len(pending)
      <4>1. pending'[i] = pending[i] /\ pending[i].tx # txs'
        BY <1>1, <1>2, <3>1
      <4>2. <<pending[i].tx, ActionOf(pending[i])>> \notin DOMAIN store.history
        BY <2>2, <2>4, <3>1, <4>1
      <4>3. ASSUME NEW j \in 1 .. Len(pending'), pending'[j].ev = pending'[i].ev, pending'[j].tx = pending'[i].tx
            PROVE  j = i
        <5>1. j \in 1 .. Len(pending) /\ pending'[j] = pending[j]
          BY <1>1, <1>4, <4>1, <4>3
        <5> QED
          BY <2>2, <2>4, <3>1, <4>1, <4>3, <5>1
      <4> QED
        BY <4>1, <4>2, <4>3
    <3>2. CASE \E n \in 1 .. Len(events) : i = Len(pending) + n
      <4>1. PICK n \in 1 .. Len(events) : i = Len(pending) + n
        BY <3>2
      <4>2. pending'[i].tx = txs' /\ pending'[i].ev = events[n].ev
        BY <1>1, <4>1
      <4>3. ASSUME NEW j \in 1 .. Len(pending'), pending'[j].ev = pending'[i].ev, pending'[j].tx = pending'[i].tx
            PROVE  j = i
        <5>1. j \notin 1 .. Len(pending)
          <6>1. ASSUME j \in 1 .. Len(pending) PROVE FALSE
            <7>1. pending'[j].tx \in 1 .. txs
              BY <1>1, <1>2, <6>1
            <7> QED
              BY <1>2, <4>2, <4>3, <7>1
          <6> QED
            BY <6>1
        <5>2. PICK m \in 1 .. Len(events) : j = Len(pending) + m
          BY <1>4, <5>1
        <5>3. events[m].ev = events[n].ev
          BY <1>1, <4>2, <4>3, <5>2
        <5>4. m = n
          BY <2>1, <2>4, <4>2, <5>3
        <5> QED
          BY <4>1, <5>2, <5>4
      <4> QED
        BY <2>3, <4>2, <4>3
    <3> QED
      BY <1>4, <3>1, <3>2
  <2> QED
    BY <2>2, <2>4
<1>6. RowsFresh'
  BY <1>2, <1>5 DEF RowsFresh, ActionOf
<1> QED
  BY <1>3, <1>6

\* What is left of the log after its first event, apart from the history h.
LEMMA TailsApart ==
  ASSUME HistoryInv, HandlesNext, ~batched
  PROVE  /\ \A i, j \in 1 .. Len(pending') : pending'[i].ev \in Moves /\ pending'[j].ev = pending'[i].ev
              /\ pending'[j].tx = pending'[i].tx => j = i
         /\ \A i \in 1 .. Len(pending') : pending'[i].ev \in Moves =>
              /\ <<pending'[i].tx, ActionOf(pending'[i])>> \notin DOMAIN store.history
              /\ ~(pending'[i].ev = pending[1].ev /\ pending'[i].tx = pending[1].tx)
<1>1. /\ Len(pending) \in Nat \ {0} /\ 1 \in 1 .. Len(pending)
      /\ \A i \in 1 .. Len(pending') : pending'[i] = pending[i + 1] /\ i + 1 \in 1 .. Len(pending) /\ i + 1 # 1
  BY Handling DEF HistoryInv, FollowInv, HandlesNext, LogOK, ChainOK
<1>2. \A i \in 1 .. Len(pending) : pending[i].ev \in Moves =>
        /\ <<pending[i].tx, ActionOf(pending[i])>> \notin DOMAIN store.history
        /\ \A j \in 1 .. Len(pending) : pending[j].ev = pending[i].ev /\ pending[j].tx = pending[i].tx => j = i
  BY DEF HistoryInv, RowsFresh
<1>3. ASSUME NEW i \in 1 .. Len(pending'), NEW j \in 1 .. Len(pending'), pending'[i].ev \in Moves,
             pending'[j].ev = pending'[i].ev, pending'[j].tx = pending'[i].tx
      PROVE  j = i
  <2>1. /\ pending'[i] = pending[i + 1] /\ i + 1 \in 1 .. Len(pending)
        /\ pending'[j] = pending[j + 1] /\ j + 1 \in 1 .. Len(pending)
    BY <1>1
  <2>2. pending[i + 1].ev \in Moves /\ pending[j + 1].ev = pending[i + 1].ev /\ pending[j + 1].tx = pending[i + 1].tx
    BY <1>3, <2>1
  <2>3. j + 1 = i + 1
    BY ONLY <1>2, <2>1, <2>2
  <2> QED
    BY <2>3
<1>4. ASSUME NEW i \in 1 .. Len(pending'), pending'[i].ev \in Moves
      PROVE  /\ <<pending'[i].tx, ActionOf(pending'[i])>> \notin DOMAIN store.history
             /\ ~(pending'[i].ev = pending[1].ev /\ pending'[i].tx = pending[1].tx)
  <2>1. pending'[i] = pending[i + 1] /\ i + 1 \in 1 .. Len(pending) /\ i + 1 # 1
    BY <1>1
  <2>2. <<pending[i + 1].tx, ActionOf(pending[i + 1])>> \notin DOMAIN store.history
    BY <1>2, <1>4, <2>1
  <2>3. ~(pending[1].ev = pending[i + 1].ev /\ pending[1].tx = pending[i + 1].tx)
    BY <1>1, <1>2, <1>4, <2>1
  <2> QED
    BY <2>1, <2>2, <2>3
<1> QED
  BY <1>3, <1>4

\* The history h adds up for the entities, and the log tells none of its rows.
AddsUp(h, vaults, log) ==
  /\ IsFiniteSet(DOMAIN h)
  /\ \A k \in DOMAIN h : k[1] \in 0 .. txs /\ h[k].eth \in Int /\ (k[2] \notin Told => h[k].eth = 0)
  /\ ~batched =>
       /\ \A i \in 1 .. Len(log) : log[i].ev \in Moves => <<log[i].tx, ActionOf(log[i])>> \notin DOMAIN h
       /\ \A v \in VaultIds : vaults[v].coll = HistoryColl(h, v)

\* One row joins a history.
LEMMA HistoryIsPut ==
  ASSUME NEW h, IsFiniteSet(DOMAIN h), NEW key, NEW row,
         \A k \in DOMAIN h : k[1] \in 0 .. txs /\ h[k].eth \in Int /\ (k[2] \notin Told => h[k].eth = 0),
         key[1] \in 0 .. txs, row.eth \in Int, key[2] \notin Told => row.eth = 0
  PROVE  /\ IsFiniteSet(DOMAIN Put(h, key, row))
         /\ \A k \in DOMAIN Put(h, key, row) :
              /\ k[1] \in 0 .. txs /\ Put(h, key, row)[k].eth \in Int
              /\ k[2] \notin Told => Put(h, key, row)[k].eth = 0
<1> DEFINE h2 == Put(h, key, row)
<1>1. DOMAIN h2 = DOMAIN h \cup {key} /\ h2[key] = row /\ \A k \in DOMAIN h : k # key => h2[k] = h[k]
  BY DEF Put
<1> HIDE DEF h2
<1>2. IsFiniteSet(DOMAIN h2)
  BY <1>1, FS_AddElement
<1>3. ASSUME NEW k \in DOMAIN h2
      PROVE  k[1] \in 0 .. txs /\ h2[k].eth \in Int /\ (k[2] \notin Told => h2[k].eth = 0)
  <2>1. CASE k = key
    BY <1>1, <2>1
  <2>2. CASE k # key
    BY <1>1, <2>2
  <2> QED
    BY <2>1, <2>2
<1> QED
  BY <1>2, <1>3 DEF h2

\* A handler writes the row of its event, once.
LEMMA HandlerAddsUp ==
  ASSUME HistoryInv, HandlesNext, Writes(store, pending[1], store')
  PROVE  AddsUp(store'.history, store'.vaults, pending')
<1> DEFINE e == pending[1]
           h == store.history
           h2 == store'.history
<1>1. Len(pending) \in Nat \ {0} /\ Fit(e) /\ 1 \in 1 .. Len(pending)
  BY Handling DEF HistoryInv, FollowInv, HandlesNext, LogOK, ChainOK
<1>2. e.tx \in 1 .. txs /\ txs \in Nat
  BY <1>1 DEF HistoryInv, FollowInv, LogOK, ChainOK
<1>3. /\ IsFiniteSet(DOMAIN h)
      /\ \A k \in DOMAIN h : k[1] \in 0 .. txs /\ h[k].eth \in Int /\ (k[2] \notin Told => h[k].eth = 0)
  BY DEF HistoryInv, RowsOK
<1>4. ASSUME ~batched
      PROVE  /\ \A v \in VaultIds : store.vaults[v].coll = HistoryColl(h, v)
             /\ e.ev \in Moves => <<e.tx, ActionOf(e)>> \notin DOMAIN h
             /\ \A i \in 1 .. Len(pending') : pending'[i].ev \in Moves =>
                  /\ <<pending'[i].tx, ActionOf(pending'[i])>> \notin DOMAIN h
                  /\ ~(pending'[i].ev = e.ev /\ pending'[i].tx = e.tx)
  BY <1>1, <1>4, TailsApart DEF HistoryInv, RowsFresh
<1>5. ASSUME NEW v \in VaultIds
      PROVE  /\ store'.vaults[v].coll = store.vaults[v].coll + Effect("coll", v, e)
             /\ store.vaults[v].coll \in Int
  <2>1. Held("coll", v, store') = Held("coll", v, store) + Effect("coll", v, e)
    BY DEF HandlesNext, Handles, Kinds
  <2>2. store.vaults[v].coll \in Int
    BY DEF HistoryInv, FollowInv, StoreOK, VaultRow
  <2> QED
    BY <2>1, <2>2 DEF Held
<1>6. /\ \A i \in 1 .. Len(pending') : ActionOf(pending'[i]) \in Told
      /\ ActionOf(e) \in Told
  BY DEF ActionOf, Told
<1>7. Writes(store, e, store')
  OBVIOUS
<1> HIDE DEF e
<1>8. ASSUME e.ev \in Moves, NEW row, row.vault = e.vault, row.eth = (IF e.ev = "Liquidate" THEN e.paid ELSE e.amount),
             h2 = Put(h, <<e.tx, ActionOf(e)>>, row)
      PROVE  AddsUp(h2, store'.vaults, pending')
  <2> DEFINE key == <<e.tx, ActionOf(e)>>
  <2>1. row.eth \in Int /\ key[1] \in 0 .. txs /\ key[2] = ActionOf(e) /\ key[2] \in Told
    BY <1>1, <1>2, <1>6, <1>8 DEF Fit, Moves
  <2>2. DOMAIN h2 = DOMAIN h \cup {key}
    BY <1>8 DEF Put
  <2>3. /\ IsFiniteSet(DOMAIN h2)
        /\ \A k \in DOMAIN h2 : k[1] \in 0 .. txs /\ h2[k].eth \in Int /\ (k[2] \notin Told => h2[k].eth = 0)
    BY <1>3, <1>8, <2>1, HistoryIsPut
  <2>4. ASSUME ~batched, NEW i \in 1 .. Len(pending'), pending'[i].ev \in Moves
        PROVE  <<pending'[i].tx, ActionOf(pending'[i])>> \notin DOMAIN h2
    <3>1. /\ <<pending'[i].tx, ActionOf(pending'[i])>> \notin DOMAIN h
          /\ ~(pending'[i].ev = e.ev /\ pending'[i].tx = e.tx)
      BY <1>4, <2>4
    <3>2. ActionOf(pending'[i]) = ActionOf(e) => pending'[i].ev = e.ev
      BY <1>8, <2>4 DEF ActionOf, Moves
    <3>3. <<pending'[i].tx, ActionOf(pending'[i])>> # key
      BY <3>1, <3>2
    <3> QED
      BY <2>2, <3>1, <3>3
  <2>5. ASSUME ~batched, NEW v \in VaultIds PROVE store'.vaults[v].coll = HistoryColl(h2, v)
    <3>1. HistoryColl(h2, v) =
            HistoryColl(h, v) + (IF row.vault = v THEN (IF key[2] = "DEPOSIT_COLLAT" THEN 1 ELSE -1) * row.eth ELSE 0)
      BY <1>3, <1>4, <1>8, <2>1, <2>5, RowAdded
    <3>2. (IF row.vault = v THEN (IF key[2] = "DEPOSIT_COLLAT" THEN 1 ELSE -1) * row.eth ELSE 0) = Effect("coll", v, e)
      BY <1>8, <2>1 DEF Effect, CollMove, ActionOf, Moves
    <3>3. store.vaults[v].coll = HistoryColl(h, v)
      BY <1>4, <2>5
    <3> QED
      BY <1>5, <3>1, <3>2, <3>3
  <2> QED
    BY <2>3, <2>4, <2>5 DEF AddsUp
<1>9. ASSUME e.ev \notin Moves, NEW v \in VaultIds PROVE store'.vaults[v].coll = store.vaults[v].coll
  <2>1. Effect("coll", v, e) = 0
    BY <1>9 DEF Effect
  <2> QED
    BY <1>5, <2>1
<1>10. ASSUME e.ev \notin Moves, h2 = h PROVE AddsUp(h2, store'.vaults, pending')
  BY <1>3, <1>4, <1>9, <1>10 DEF AddsUp
<1>11. ASSUME e.ev \notin Moves, NEW action, NEW row, action \notin Told, row.eth = 0, h2 = Put(h, <<e.tx, action>>, row)
       PROVE  AddsUp(h2, store'.vaults, pending')
  <2> DEFINE key == <<e.tx, action>>
  <2>1. row.eth \in Int /\ key[1] \in 0 .. txs /\ key[2] = action
    BY <1>2, <1>11
  <2>2. DOMAIN h2 = DOMAIN h \cup {key}
    BY <1>11 DEF Put
  <2>3. /\ IsFiniteSet(DOMAIN h2)
        /\ \A k \in DOMAIN h2 : k[1] \in 0 .. txs /\ h2[k].eth \in Int /\ (k[2] \notin Told => h2[k].eth = 0)
    BY <1>3, <1>11, <2>1, HistoryIsPut
  <2>4. ASSUME ~batched, NEW i \in 1 .. Len(pending'), pending'[i].ev \in Moves
        PROVE  <<pending'[i].tx, ActionOf(pending'[i])>> \notin DOMAIN h2
    <3>1. <<pending'[i].tx, ActionOf(pending'[i])>> \notin DOMAIN h /\ ActionOf(pending'[i]) # action
      BY <1>4, <1>6, <1>11, <2>4
    <3> QED
      BY <2>2, <3>1
  <2>5. ASSUME ~batched, NEW v \in VaultIds PROVE store'.vaults[v].coll = HistoryColl(h2, v)
    <3>1. key \in DOMAIN h => h[key].eth = 0
      BY <1>3, <1>11, <2>1
    <3>2. HistoryColl(h2, v) = HistoryColl(h, v)
      BY <1>3, <1>11, <3>1, EmptyRowAdded
    <3> QED
      BY <1>4, <1>9, <1>11, <2>5, <3>2
  <2> QED
    BY <2>3, <2>4, <2>5 DEF AddsUp
<1> QED
  BY <1>7, <1>8, <1>10, <1>11 DEF Writes

LEMMA IndexKeepsHistory ==
  ASSUME HistoryInv, HandlesNext, Writes(store, pending[1], store')
  PROVE  RowsOK' /\ RowsFresh'
<1>1. AddsUp(store'.history, store'.vaults, pending') /\ txs' = txs /\ batched' = batched
  BY HandlerAddsUp DEF HandlesNext
<1>2. RowsOK'
  BY <1>1 DEF AddsUp, RowsOK
<1>3. ASSUME ~batched
      PROVE  /\ \A i \in 1 .. Len(pending') : pending'[i].ev \in Moves =>
                  /\ <<pending'[i].tx, ActionOf(pending'[i])>> \notin DOMAIN store'.history
                  /\ \A j \in 1 .. Len(pending') :
                       pending'[j].ev = pending'[i].ev /\ pending'[j].tx = pending'[i].tx => j = i
             /\ \A v \in VaultIds : store'.vaults[v].coll = HistoryColl(store'.history, v)
  BY <1>1, <1>3, TailsApart DEF AddsUp
<1>4. RowsFresh'
  BY <1>1, <1>3 DEF RowsFresh
<1> QED
  BY <1>2, <1>4

LEMMA InitHistory == Init => HistoryInv
<1> SUFFICES ASSUME Init PROVE HistoryInv
  OBVIOUS
<1>1. FollowInv
  BY InitFollows
<1>2. store.history = Nothing /\ store.vaults = onchain /\ pending = <<>>
      /\ onchain = [v \in VaultIds |-> IF v \in UserVaults THEN None ELSE Empty]
  BY DEF Init
<1>3. DOMAIN store.history = {}
  BY <1>2 DEF Nothing
<1>4. RowsOK
  BY <1>3, FS_EmptySet DEF RowsOK
<1>5. ASSUME NEW v \in VaultIds PROVE store.vaults[v].coll = 0 /\ HistoryColl(store.history, v) = 0
  <2>1. None.coll = 0 /\ Empty.coll = 0
    BY EmptyRow DEF None
  <2>2. store.vaults[v].coll = 0
    BY <1>2, <2>1
  <2> DEFINE f == [k \in DOMAIN store.history |-> IF store.history[k].vault = v THEN Signed(store.history, k) ELSE 0]
  <2>3. HistoryColl(store.history, v) = SumOf(f) /\ DOMAIN f = {}
    BY <1>3 DEF HistoryColl
  <2> HIDE DEF f
  <2>4. SumOf(f) = 0
    BY <2>3, SumEmpty DEF SumOf
  <2> QED
    BY <2>2, <2>3, <2>4
<1>6. Len(pending) = 0
  BY <1>2
<1>7. RowsFresh
  BY <1>5, <1>6 DEF RowsFresh
<1> QED
  BY <1>1, <1>4, <1>7 DEF HistoryInv

LEMMA NextKeepsHistory == HistoryInv /\ [Next]_vars => HistoryInv'
<1> SUFFICES ASSUME HistoryInv, [Next]_vars PROVE HistoryInv'
  OBVIOUS
<1>1. FollowInv /\ FollowInv'
  BY NextFollows DEF HistoryInv
<1>2. CASE VaultTransaction \/ StrategyTransaction
  <2>1. IsTransaction
    BY <1>1, <1>2, ChainKeepsInv
  <2> QED
    BY <1>1, <2>1, ChainKeepsHistory DEF IsTransaction, HistoryInv
<1>3. CASE Index
  BY <1>1, <1>3, IndexIsHandling, IndexKeepsHistory DEF HistoryInv
<1>4. CASE UNCHANGED vars
  BY <1>1, <1>4 DEF vars, HistoryInv, RowsOK, RowsFresh
<1> QED
  BY <1>2, <1>3, <1>4 DEF Next

LEMMA HistorySums == HistoryInv => HistoryAddsUp
<1> SUFFICES ASSUME HistoryInv, ~batched, NEW v \in VaultIds
             PROVE  LET rows == {k \in DOMAIN store.history : store.history[k].vault = v}
                        sign(k) == IF k[2] = "DEPOSIT_COLLAT" THEN 1 ELSE -1
                    IN  store.vaults[v].coll = SumOf([k \in rows |-> sign(k) * store.history[k].eth])
  BY DEF HistoryAddsUp
<1> DEFINE h == store.history
           rows == {k \in DOMAIN h : h[k].vault = v}
           f == [k \in DOMAIN h |-> IF h[k].vault = v THEN Signed(h, k) ELSE 0]
           g == [k \in rows |-> (IF k[2] = "DEPOSIT_COLLAT" THEN 1 ELSE -1) * h[k].eth]
<1>1. IsFiniteSet(DOMAIN h) /\ \A k \in DOMAIN h : h[k].eth \in Int
  BY DEF HistoryInv, RowsOK
<1>2. store.vaults[v].coll = SumOf(f)
  BY DEF HistoryInv, RowsFresh, HistoryColl
<1>3. DOMAIN f = DOMAIN h /\ DOMAIN g = rows /\ rows \in SUBSET DOMAIN h
  OBVIOUS
<1>4. \A k \in DOMAIN h : f[k] \in Int /\ (k \notin rows => f[k] = 0)
  BY <1>1, SignedInt
<1>5. \A k \in rows : f[k] = g[k]
  BY DEF Signed
<1> HIDE DEF f, g, rows
<1>6. SumOver(f, DOMAIN h) = SumOver(f, rows)
  BY <1>1, <1>3, <1>4, SumSubset
<1>7. IsFiniteSet(rows)
  BY <1>1, <1>3, FS_Subset
<1>8. SumOver(f, rows) = SumOver(g, rows)
  BY <1>5, <1>7, SumSame
<1>9. store.vaults[v].coll = SumOf(g)
  BY <1>2, <1>3, <1>6, <1>8 DEF SumOf
<1> QED
  BY <1>9 DEF g, rows

\* The history of a vault adds up to its collateral, for any number of
\* transactions and any distance between the log and the store, as long as
\* no transaction repeats an action (controller.ts, getTransactionDetail).
THEOREM HistoryIsTheCollateral == Spec => []HistoryAddsUp
<1>1. Spec => []HistoryInv
  BY InitHistory, NextKeepsHistory, PTL DEF Spec
<1> QED
  BY <1>1, HistorySums, PTL
=============================================================================
