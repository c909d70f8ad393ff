------------------------------ MODULE PoolTasks ------------------------------
(***************************************************************************)
(* packages/hardhat/tasks: what the deployer types once the contracts are  *)
(* there, to fill the pools and to trade in them.  A task reads the latest *)
(* mined state, sends transactions, and waits for some of them; it may be  *)
(* cut anywhere and typed again.  Amounts are one number, Amount, and a    *)
(* swap gives as much as it takes.                                         *)
(***************************************************************************)
EXTENDS Deployment

CONSTANTS Amount,   \* what a task needs of each token it pays with
          MaxTasks

VARIABLES
  held,     \* the deployer's tokens
  granted,  \* <<token, spender>> with an allowance; it is unlimited
  sent,     \* transactions on their way, oldest first
  task,     \* the task under way, its next step, how it ended
  typed     \* tasks so far

taskVars == <<held, granted, sent, task, typed>>

Assets == {"WETH9", "WPowerPerp", "MockErc20"}
Manager == "NonfungiblePositionManager"

-----------------------------------------------------------------------------
(* The tasks, step by step *)

Need(xs) == [do |-> "need", of |-> xs, spender |-> ""]
Fund(x) == [do |-> "fund", of |-> {x}, spender |-> ""]
Approve(x, spender) == [do |-> "approve", of |-> {x}, spender |-> spender]
\* Looks at an allowance nobody gives, that of the token itself.
ApproveAnyway(x, spender) == [do |-> "approveAnyway", of |-> {x}, spender |-> spender]
waitForTransaction == [do |-> "wait", of |-> {}, spender |-> ""]
Pay(xs, spender) == [do |-> "pay", of |-> xs, spender |-> spender]

\* Goes on while its last approval is on its way.
addSqueethLiquidityHasty ==
  <<Need({"Controller", "WPowerPerp", "WETH9", "squeethPool"} \cup Uniswap), Fund("WETH9"), waitForTransaction, Fund("WPowerPerp"), waitForTransaction,
    Approve("WETH9", Manager), waitForTransaction, Approve("WPowerPerp", Manager), Pay({"WETH9", "WPowerPerp"}, Manager)>>
addSqueethLiquidity ==
  <<Need({"Controller", "WPowerPerp", "WETH9", "squeethPool"} \cup Uniswap), Fund("WETH9"), waitForTransaction, Fund("WPowerPerp"), waitForTransaction,
    Approve("WETH9", Manager), waitForTransaction, Approve("WPowerPerp", Manager), waitForTransaction, Pay({"WETH9", "WPowerPerp"}, Manager)>>
addWethLiquidity ==
  <<Need({"WETH9", "MockErc20"} \cup Uniswap), Fund("WETH9"), waitForTransaction, Fund("MockErc20"), waitForTransaction,
    Approve("WETH9", Manager), waitForTransaction, Approve("MockErc20", Manager), waitForTransaction, Pay({"WETH9", "MockErc20"}, Manager)>>
\* Its approval is commented out.
buySqueeth == <<Need({"WPowerPerp", "WETH9"} \cup Uniswap), Fund("WETH9"), Pay({"WETH9"}, "SwapRouter")>>
wethWhacker ==
  <<Need({"MockErc20", "WETH9"} \cup Uniswap), Fund("MockErc20"), waitForTransaction, Approve("MockErc20", "SwapRouter"), Pay({"MockErc20"}, "SwapRouter")>>
sellSqueeth == <<Need({"WPowerPerp", "WETH9"} \cup Uniswap), ApproveAnyway("WPowerPerp", "SwapRouter"), Pay({"WPowerPerp"}, "SwapRouter")>>
sellWeth == <<Need({"MockErc20", "WETH9"} \cup Uniswap), Approve("WETH9", "SwapRouter"), Pay({"WETH9"}, "SwapRouter")>>
\* Takes the deployer's address for the token's, and finds no pool.
increaseSlots == <<Need({"deployerPool"})>>

TaskOf ==
  [addSqueethLiquidity |-> addSqueethLiquidity, addWethLiquidity |-> addWethLiquidity, buySqueeth |-> buySqueeth,
   wethWhacker |-> wethWhacker, sellSqueeth |-> sellSqueeth, sellWeth |-> sellWeth, increaseSlots |-> increaseSlots]
Adding == {"addSqueethLiquidity", "addWethLiquidity"}
\* What a swap gives.
Bought == [buySqueeth |-> "WPowerPerp", wethWhacker |-> "WETH9", sellSqueeth |-> "WETH9", sellWeth |-> "MockErc20"]

-----------------------------------------------------------------------------
(* Their steps *)

TaskInit ==
  /\ held = [a \in Assets |-> 0] /\ granted = {} /\ sent = <<>>
  /\ task = [name |-> "none", at |-> 0, refused |-> FALSE]
  /\ typed = [tasks |-> 0, patient |-> TRUE, bought |-> [a \in Assets |-> 0]]

Doing == task.at # 0
Now == TaskOf[task.name][task.at]
Its1 == CHOOSE x \in Now.of : TRUE
More == task' = [task EXCEPT !.at = IF @ = Len(TaskOf[task.name]) THEN 0 ELSE @ + 1]
Refuse == task' = [task EXCEPT !.at = 0, !.refused = TRUE]
Send(tx) == sent' = Append(sent, tx)
Tx(kind, xs, spender) == [kind |-> kind, of |-> xs, spender |-> spender, by |-> task.name]

\* addWethLiquidity is not for mainnet.
TypeTask ==
  /\ ~ Running /\ ~ Doing /\ typed.tasks < MaxTasks
  /\ \E name \in DOMAIN TaskOf :
       /\ name = "addWethLiquidity" => network # "mainnet"
       /\ task' = [name |-> name, at |-> 1, refused |-> FALSE]
  /\ typed' = [typed EXCEPT !.tasks = @ + 1, !.patient = @ /\ sent = <<>>]
  /\ UNCHANGED <<vars, held, granted, sent>>

\* A contract that was never deployed, or a pool nobody created.
Found(x) ==
  CASE x = "deployerPool" -> FALSE
    [] x = "squeethPool" -> Resolve(x) # Zero
    [] OTHER -> Resolve(x) # Missing

TaskLoads ==
  /\ Doing /\ Now.do = "need"
  /\ IF \A x \in Now.of : Found(x) THEN More ELSE Refuse
  /\ UNCHANGED <<vars, held, granted, sent, typed>>

\* ETH is wrapped, USDC minted, oSQTH minted by the controller, which must be
\* the token's; only when the balance is short.
Fundable(x) == x # "WPowerPerp" \/ ("WPowerPerp" \in DOMAIN answers /\ answers["WPowerPerp"] = Address("Controller"))

FundOnce(x) == held[x] < Amount

TaskFunds ==
  /\ Doing /\ Now.do = "fund"
  /\ IF ~ FundOnce(Its1) THEN More /\ UNCHANGED sent
     ELSE IF Fundable(Its1) THEN More /\ Send(Tx("fund", Now.of, ""))
     ELSE Refuse /\ UNCHANGED sent
  /\ UNCHANGED <<vars, held, granted, typed>>

TaskApproves ==
  /\ Doing /\ Now.do \in {"approve", "approveAnyway"}
  /\ More
  /\ IF Now.do = "approve" /\ <<Its1, Now.spender>> \in granted THEN UNCHANGED sent
     ELSE Send(Tx("approve", Now.of, Now.spender))
  /\ UNCHANGED <<vars, held, granted, typed>>

TaskWaits ==
  /\ Doing /\ Now.do = "wait" /\ sent = <<>>
  /\ More
  /\ UNCHANGED <<vars, held, granted, sent, typed>>

Payable(xs, spender) == \A x \in xs : held[x] >= Amount /\ <<x, spender>> \in granted

\* The gas of the trade is estimated on the latest block, or on the one that is
\* being made of what was sent: a trade that would revert there is not sent.
SoonPayable(xs, spender) ==
  \A x \in xs :
    /\ held[x] + Amount * Cardinality({i \in DOMAIN sent : sent[i].kind = "fund" /\ x \in sent[i].of}) >= Amount
    /\ \/ <<x, spender>> \in granted
       \/ \E i \in DOMAIN sent : sent[i].kind = "approve" /\ x \in sent[i].of /\ sent[i].spender = spender

TaskPays ==
  /\ Doing /\ Now.do = "pay"
  /\ \/ (Payable(Now.of, Now.spender) \/ SoonPayable(Now.of, Now.spender)) /\ More /\ Send(Tx("pay", Now.of, Now.spender))
     \/ ~ Payable(Now.of, Now.spender) /\ Refuse /\ UNCHANGED sent
  /\ UNCHANGED <<vars, held, granted, typed>>

CutTask ==
  /\ Doing
  /\ task' = [task EXCEPT !.at = 0]
  /\ UNCHANGED <<vars, held, granted, sent, typed>>

\* A position takes all of one token, and of the other what the price says.
Taken(tx) ==
  IF tx.by \in Adding
  THEN {used \in [tx.of -> 0..Amount] : \E x \in tx.of : used[x] = Amount}
  ELSE {[x \in tx.of |-> Amount]}

Mine ==
  /\ sent # <<>>
  /\ sent' = Tail(sent)
  /\ LET tx == Head(sent) IN
     CASE tx.kind = "fund" ->
            /\ held' = [a \in Assets |-> IF a \in tx.of THEN held[a] + Amount ELSE held[a]]
            /\ UNCHANGED <<granted, typed>>
       [] tx.kind = "approve" ->
            /\ granted' = granted \cup {<<x, tx.spender>> : x \in tx.of}
            /\ UNCHANGED <<held, typed>>
       [] tx.kind = "pay" /\ Payable(tx.of, tx.spender) ->
            \E used \in Taken(tx) :
              LET out == IF tx.by \in Adding THEN {} ELSE {Bought[tx.by]} IN
              /\ held' = [a \in Assets |-> held[a] - (IF a \in tx.of THEN used[a] ELSE 0) + (IF a \in out THEN Amount ELSE 0)]
              /\ typed' = [typed EXCEPT !.bought = [a \in Assets |-> @[a] + (IF a \in out THEN Amount ELSE 0)]]
              /\ UNCHANGED granted
       [] OTHER -> UNCHANGED <<held, granted, typed>>
  /\ UNCHANGED <<vars, task>>

TaskNext ==
  \/ TypeTask
  \/ TaskLoads
  \/ TaskFunds
  \/ TaskApproves
  \/ TaskWaits
  \/ TaskPays
  \/ CutTask
  \/ Mine

AllInit == Init /\ TaskInit
\* The deployer does one thing at a time.
AllNext == (~ Doing /\ Next /\ UNCHANGED taskVars) \/ TaskNext
AllSpec == AllInit /\ [][AllNext]_<<vars, taskVars>>

-----------------------------------------------------------------------------
(* Properties *)

\* Tasks that are cut and typed again, each after the last one's transactions
\* were mined, wrap and mint no more than one of them needs; and on a system
\* that agrees with itself one that adds liquidity is never refused, whatever
\* was cut or traded before.
RetriesAreSafe ==
  typed.patient =>
    /\ \A a \in Assets : held[a] < 2 * Amount + typed.bought[a]
    /\ task.name \in Adding /\ task.refused => ~ Agrees
=============================================================================
