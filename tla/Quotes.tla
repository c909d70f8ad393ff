-------------------------------- MODULE Quotes --------------------------------
(***************************************************************************)
(* The amounts the web application computes before it sends a trade: quotes *)
(* from its copy of the pool, the search for the loan of a flash deposit    *)
(* into Crab, and the search for a deposit into Zen Bull, which asks the    *)
(* chain at every step and keeps its answers for a minute.                  *)
(*                                                                         *)
(* Amounts and prices are naturals, a price is in units of 1 / ONE, and a   *)
(* sale beyond Depth finds no liquidity.                                    *)
(***************************************************************************)
EXTENDS Integers, FiniteSets

CONSTANTS Nothing,
          ONE,
          Prices,       \* of oSQTH in ETH
          Vaults,       \* debt and collateral of the strategy
          Caps,         \* of the strategy's collateral
          Deposits, Amounts,
          Slippage,     \* what the user tolerates, of ONE
          DEFAULT_SLIPPAGE,
          Deviation,    \* what the searches tolerate, of ONE
          Depth,
          Lend, Borrow, \* of ONE: Zen Bull's collateral and debt in ETH for each ETH it puts into Crab
          MaxMoves, MaxAsks

\* The strategy holds twice what its debt is worth, and more than the searches
\* and the tolerance of a trade move it by.
ASSUME WellBacked ==
  \A v \in Vaults, p \in Prices : 2 * v.short * p * (ONE - Slippage) <= v.coll * ONE * ONE

VARIABLES
  chain,   \* price, vault and cap
  page,    \* the same as the page's atoms have them, and the vault its callbacks captured
  search,  \* the search under way, or its result
  cache,   \* parameters kept for the inputs they were asked with
  sent,    \* the transaction under way
  outcome, \* how the last one ended
  moves, asks

quoteVars == <<chain, page, search, cache, sent, outcome, moves, asks>>

-----------------------------------------------------------------------------
(* Quotes *)

Proceeds(price, oSqth) == (oSqth * price) \div ONE
Cost(price, oSqth) == (oSqth * price + ONE - 1) \div ONE
Less(x, slippage) == (x * (ONE - slippage)) \div ONE
More(x, slippage) == (x * (ONE + slippage)) \div ONE

Tradable(pool, oSqth) == pool # Nothing /\ oSqth # 0 /\ oSqth <= Depth

\* A failed quote is one of nothing.
getSellQuote(pool, oSqth, slippage) == IF Tradable(pool, oSqth) THEN Less(Proceeds(pool, oSqth), slippage) ELSE 0
\* Mutant for RefusedForAReason: what is bought may cost no more than it does now.
getBuyQuoteExact(pool, oSqth, slippage) == IF Tradable(pool, oSqth) THEN Cost(pool, oSqth) ELSE 0
getBuyQuote(pool, oSqth, slippage) == IF Tradable(pool, oSqth) THEN More(Cost(pool, oSqth), slippage) ELSE 0

\* What a deposit of so much ETH mints, and what a share of the strategy owes.
Debt(eth, vault) == (eth * vault.short) \div vault.coll

\* What Zen Bull takes in all to put eth into Crab, when oSQTH and USDC are sold
\* for no less than tolerated.
Sold(price, eth, vault) == Less(Proceeds(price, Debt(eth, vault)), Slippage)
TotalToBull(price, eth, vault) ==
  eth + (eth * Lend) \div ONE - Sold(price, eth, vault) - Less((eth * Borrow) \div ONE, Slippage)

-----------------------------------------------------------------------------
(* What moves outside, and what the page hears of it *)

Move(new) ==
  /\ moves < MaxMoves /\ moves' = moves + 1
  /\ chain' = new /\ chain' # chain
  /\ UNCHANGED <<page, search, cache, sent, outcome, asks>>

PriceMoves == \E p \in Prices : Move([chain EXCEPT !.price = p])
VaultMoves == \E v \in Vaults : Move([chain EXCEPT !.vault = v])
CapMoves == \E c \in Caps : Move([chain EXCEPT !.cap = c])

\* The pool is read again only when the number of its ticks changes.  The
\* callbacks are made anew, with the vault the page has by then.
PoolLoads ==
  /\ page' = [page EXCEPT !.pool = chain.price, !.loanVault = page.vault, !.capVault = page.vault]
  /\ page' # page
  /\ UNCHANGED <<chain, search, cache, sent, outcome, moves, asks>>

\* The vault is read again; the callbacks depend on its id only.
VaultLoads ==
  /\ page.vault # chain.vault
  /\ page' = [page EXCEPT !.vault = chain.vault,
                          !.loanVault = IF @ = Nothing THEN chain.vault ELSE @,
                          !.capVault = IF @ = Nothing THEN chain.vault ELSE @]
  /\ UNCHANGED <<chain, search, cache, sent, outcome, moves, asks>>

CapLoads ==
  /\ page.cap # chain.cap
  /\ page' = [page EXCEPT !.cap = chain.cap, !.capVault = page.vault]
  /\ UNCHANGED <<chain, search, cache, sent, outcome, moves, asks>>

\* The price the page shows, which it polls.
PriceLoads ==
  /\ page.price # chain.price
  /\ page' = [page EXCEPT !.price = chain.price]
  /\ UNCHANGED <<chain, search, cache, sent, outcome, moves, asks>>

-----------------------------------------------------------------------------
(* The searches *)

Empty == [eth |-> 0, min |-> 0]

Crab == {"crabV1", "crabV2"}
Bull == {"bull", "bullOut"}
Searching == search.kind # "none" /\ search.on
Found == search.kind # "none" /\ ~ search.on

May == ~ Searching /\ sent.kind = "none" /\ asks < MaxAsks

\* flashDeposit begins with calculateETHtoBorrowFromUniswap.
AskCrab ==
  /\ May /\ search.kind = "none" /\ page.capVault # Nothing
  /\ \E kind \in Crab, d \in Deposits :
       search' = [kind |-> kind, amount |-> d, on |-> d # 0, start |-> d \div 4, end |-> 3 * d, prev |-> Empty,
                  pool |-> page.pool, vault |-> page.loanVault, cap |-> page.cap, capVault |-> page.capVault,
                  failed |-> d = 0]
  /\ asks' = asks + 1
  /\ UNCHANGED <<chain, page, cache, sent, outcome, moves>>

Middle == (search.start + search.end + 1) \div 2

\* Mutant for LoanIsBest: the wrong half is kept.
NarrowWrongWay(larger) == IF larger THEN [search EXCEPT !.end = Middle] ELSE [search EXCEPT !.start = Middle]

Narrow(larger) == IF larger THEN [search EXCEPT !.start = Middle] ELSE [search EXCEPT !.end = Middle]

calculateETHtoBorrowFromUniswap ==
  /\ Searching /\ search.kind \in Crab
  /\ LET debt == Debt(Middle + search.amount, search.vault)
         out == getSellQuote(search.pool, debt, Slippage)
         failed == search.failed \/ ~ Tradable(search.pool, debt)
         this == [eth |-> Middle, min |-> out]
     IN
     \/ /\ out = search.prev.min
        /\ search' = [search EXCEPT !.on = FALSE, !.failed = failed]
     \/ /\ out # search.prev.min
        /\ search' = [Narrow(out > Middle) EXCEPT !.prev = this, !.failed = failed,
                        !.on = ~ (out > Middle /\ (out - Middle) * ONE <= Deviation * Middle)]
  /\ UNCHANGED <<chain, page, cache, sent, outcome, moves, asks>>

\* Everything the parameters are computed from, but the debt of the vault.
queryKey(kind, amount) == [kind |-> kind, coll |-> page.vault.coll, price |-> page.price, amount |-> amount]

AskBull ==
  /\ May /\ search.kind = "none" /\ page.vault # Nothing
  /\ \E kind \in Bull, amount \in (Deposits \cup Amounts) \ {0} :
       LET key == queryKey(kind, amount)
           hits == {c \in cache : c.key = key}
           hit == CHOOSE c \in hits : TRUE IN
       /\ amount \in (IF kind = "bull" THEN Deposits ELSE Amounts)
       /\ search' = [kind |-> kind, amount |-> amount, key |-> key, on |-> hits = {},
                     start |-> amount \div 4, end |-> 3 * amount, failed |-> FALSE,
                     prev |-> IF hits = {} THEN Empty ELSE hit.prev,
                     vault |-> IF hits = {} THEN page.vault ELSE hit.vault,
                     seen |-> IF hits = {} THEN {} ELSE hit.seen]
  /\ asks' = asks + 1
  /\ UNCHANGED <<chain, page, cache, sent, outcome, moves>>

Keep(prev, seen) == cache' = cache \cup {[key |-> search.key, prev |-> prev, vault |-> search.vault, seen |-> seen]}
Fails == /\ search' = [search EXCEPT !.on = FALSE, !.prev = Empty, !.failed = TRUE]
         /\ UNCHANGED cache

\* Each step asks the quoter, so the price may be another one; a sale the pool
\* cannot take is an error, and an error is an empty answer that is not kept.
getFlashBullDepositParams ==
  /\ Searching /\ search.kind = "bull"
  /\ LET total == TotalToBull(chain.price, Middle, search.vault)
         this == [eth |-> Middle, min |-> Sold(chain.price, Middle, search.vault)]
         seen == search.seen \cup {chain.price}
     IN
     \/ /\ Middle = search.prev.eth
        /\ search' = [search EXCEPT !.on = FALSE] /\ Keep(search.prev, search.seen)
     \/ /\ Middle # search.prev.eth /\ ~ Tradable(chain.price, Debt(Middle, search.vault))
        /\ Fails
     \/ /\ Middle # search.prev.eth /\ Tradable(chain.price, Debt(Middle, search.vault))
        /\ LET close == total <= search.amount /\ (search.amount - total) * ONE <= Deviation * total IN
           /\ search' = [Narrow(total <= search.amount) EXCEPT !.prev = this, !.seen = seen, !.on = ~ close]
           /\ IF close THEN Keep(this, seen) ELSE UNCHANGED cache
  /\ UNCHANGED <<chain, page, sent, outcome, moves, asks>>

\* A withdrawal asks once what its share of the debt costs.
getFlashWithdrawParams ==
  /\ Searching /\ search.kind = "bullOut"
  /\ LET debt == Debt(search.amount, search.vault)
         this == [eth |-> search.amount, min |-> More(Cost(chain.price, debt), Slippage)]
     IN IF Tradable(chain.price, debt)
        THEN /\ search' = [search EXCEPT !.on = FALSE, !.prev = this, !.seen = {chain.price}]
             /\ Keep(this, {chain.price})
        ELSE Fails
  /\ UNCHANGED <<chain, page, sent, outcome, moves, asks>>

\* Answers are kept for 60 s.
MinutePasses ==
  /\ cache # {} /\ cache' = {}
  /\ UNCHANGED <<chain, page, search, sent, outcome, moves, asks>>

-----------------------------------------------------------------------------
(* What is sent, and what becomes of it *)

None == [kind |-> "none"]
Smaller(x, y) == IF x < y THEN x ELSE y

\* What the contracts require.
Accepted(tx) ==
  LET oSqth == IF tx.kind \in {"sell", "buy"} THEN tx.amount
               ELSE Debt(IF tx.kind = "deposit" THEN tx.eth + tx.amount ELSE IF tx.kind = "bull" THEN tx.eth ELSE tx.amount, chain.vault)
  IN
  /\ Tradable(chain.price, oSqth)
  /\ tx.kind = "deposit" => /\ tx.eth >= 0 /\ chain.vault.coll + tx.eth + tx.amount <= chain.cap
                            /\ Proceeds(chain.price, oSqth) >= tx.eth
  /\ tx.kind = "bull" => /\ Proceeds(chain.price, oSqth) >= tx.limit
                         /\ tx.eth + (tx.eth * Lend) \div ONE <= tx.amount + Proceeds(chain.price, oSqth) + (tx.eth * Borrow) \div ONE
  /\ tx.kind \in {"withdraw", "buy"} => Cost(chain.price, oSqth) <= tx.limit
  /\ tx.kind = "sell" => Proceeds(chain.price, oSqth) >= tx.limit

\* Prices, vaults and cap an amount was computed from, and whether a quote failed.
Basis(prices, vaults, failed) == [prices |-> prices, vaults |-> vaults, cap |-> chain.cap, failed |-> failed]
\* Zen Bull, and the second Crab but for a deposit of ETH, let a transaction run dry
\* before it is signed.
Send(kind, amount, eth, limit, basis, dry) ==
  /\ sent' = [kind |-> kind, amount |-> amount, eth |-> eth, limit |-> limit, basis |-> basis, signed |-> ~ dry]
  /\ search' = None
  /\ UNCHANGED <<chain, page, cache, outcome, moves>>

\* The loan is what was found, or what the cap leaves; the second strategy's
\* deposit takes finding none for an error.  Only its deposit of USDC runs dry first.
flashDeposit ==
  /\ Found /\ search.kind \in Crab
  /\ \E dry \in {FALSE, search.kind = "crabV2"} :
       /\ search.kind = "crabV1" \/ search.prev.eth # 0
       /\ Send("deposit", search.amount, Smaller(search.prev.eth, search.cap - (search.amount + search.capVault.coll)), 0,
               [Basis({search.pool}, {search.vault, search.capVault}, search.failed) EXCEPT !.cap = search.cap], dry)
  /\ UNCHANGED asks
flashDepositThrows ==
  /\ Found /\ search.kind = "crabV2" /\ search.prev.eth = 0
  /\ search' = None
  /\ UNCHANGED <<chain, page, cache, sent, outcome, moves, asks>>

flashBull ==
  /\ Found /\ search.kind \in Bull
  /\ Send(IF search.kind = "bull" THEN "bull" ELSE "withdraw", search.amount, search.prev.eth, search.prev.min,
          Basis(search.seen, {search.vault}, search.failed), TRUE)
  /\ UNCHANGED asks

\* The debt is asked of the chain, its price is the page's.  A withdrawal of the
\* second strategy runs dry first, one of migrated shares does not.
flashWithdraw ==
  /\ May /\ search.kind = "none" /\ page.vault # Nothing
  /\ \E a \in Amounts, dry \in BOOLEAN :
       LET debt == Debt(a, chain.vault) IN
       Send("withdraw", a, 0, getBuyQuote(page.pool, debt, Slippage),
            Basis({page.pool}, {chain.vault}, ~ Tradable(page.pool, debt)), dry)
  /\ asks' = asks + 1

\* The short helper trades at the default tolerance, whatever the user chose.
getSellParam ==
  /\ May /\ search.kind = "none"
  /\ \E a \in Amounts :
       Send("sell", a, 0, getSellQuote(page.pool, a, DEFAULT_SLIPPAGE), Basis({page.pool}, {}, ~ Tradable(page.pool, a)), FALSE)
  /\ asks' = asks + 1

getBuyParam ==
  /\ May /\ search.kind = "none"
  /\ \E a \in Amounts :
       Send("buy", a, 0, getBuyQuote(page.pool, a, DEFAULT_SLIPPAGE), Basis({page.pool}, {}, ~ Tradable(page.pool, a)), FALSE)
  /\ asks' = asks + 1

estimateGas ==
  /\ sent.kind # "none" /\ ~ sent.signed
  /\ IF Accepted(sent) THEN sent' = [sent EXCEPT !.signed = TRUE] /\ UNCHANGED outcome
     ELSE sent' = None /\ outcome' = "refused"
  /\ UNCHANGED <<chain, page, search, cache, moves, asks>>

Mine ==
  /\ sent.kind # "none" /\ sent.signed
  /\ outcome' = IF Accepted(sent) THEN "done" ELSE "refused"
  /\ sent' = None
  /\ UNCHANGED <<chain, page, search, cache, moves, asks>>

-----------------------------------------------------------------------------
QuotesInit ==
  /\ chain \in [price : Prices, vault : Vaults, cap : Caps]
  /\ page = [pool |-> Nothing, vault |-> Nothing, loanVault |-> Nothing, capVault |-> Nothing, cap |-> 0, price |-> 0]
  /\ search = None /\ sent = None /\ outcome = "none"
  /\ cache = {}
  /\ moves = 0 /\ asks = 0

QuotesNext ==
  \/ PriceMoves \/ VaultMoves \/ CapMoves
  \/ PoolLoads \/ VaultLoads \/ CapLoads \/ PriceLoads
  \/ AskCrab \/ calculateETHtoBorrowFromUniswap
  \/ AskBull \/ getFlashBullDepositParams \/ getFlashWithdrawParams
  \/ MinutePasses
  \/ flashDeposit \/ flashDepositThrows \/ flashBull \/ flashWithdraw
  \/ getSellParam \/ getBuyParam
  \/ estimateGas \/ Mine

\* The quoter and the contracts that are asked answer.
Answers == calculateETHtoBorrowFromUniswap \/ getFlashBullDepositParams \/ getFlashWithdrawParams
-----------------------------------------------------------------------------
(* Properties *)

\* A loan found while every quote succeeded is paid back by the sale of what is
\* minted, but for one unit of rounding, and it is close to the largest that is:
\* a unit more of loan brings in half a unit at most, so what the sale leaves over
\* bounds how much larger another could be.
LoanIsBest ==
  Found /\ search.kind \in Crab /\ search.prev.min # 0 =>
    LET Pays(loan) == getSellQuote(search.pool, Debt(loan + search.amount, search.vault), Slippage) IN
    /\ Pays(search.prev.eth) + 1 >= search.prev.eth
    /\ \A loan \in (search.prev.eth + 2) .. 3 * search.amount :
         Pays(loan) > loan => loan - search.prev.eth <= 2 + 2 * (search.prev.min - search.prev.eth)

\* A transaction is refused only when a quote had failed, the strategy or its cap
\* moved since, the price moved by what the user tolerates, or a search asked at
\* two prices.
RefusedForAReason ==
  [][outcome' = "refused" /\ sent.kind # "none" /\ sent' = None =>
       \/ sent.basis.failed
       \/ \E v \in sent.basis.vaults : v # chain.vault
       \/ chain.cap # sent.basis.cap
       \/ \E p \in sent.basis.prices :
            LET tolerated == IF sent.kind \in {"sell", "buy"} THEN DEFAULT_SLIPPAGE ELSE Slippage IN
            IF sent.kind \in {"withdraw", "buy"} THEN chain.price * ONE >= p * (ONE + tolerated)
            ELSE chain.price * ONE <= p * (ONE - tolerated)
       \/ sent.kind = "bull" /\ Cardinality(sent.basis.prices) > 1
    ]_quoteVars
=============================================================================
