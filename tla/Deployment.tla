------------------------------ MODULE Deployment ------------------------------
(***************************************************************************)
(* packages/hardhat/deploy: the scripts that put the contracts on a        *)
(* network, run one after the other by hardhat-deploy, which records every *)
(* contract it created.  A run may be cut anywhere and is begun again from *)
(* the first script; between two runs the contracts' source may change.    *)
(*                                                                         *)
(* An address is <<contract, number>>: number 0 is the one the tables of   *)
(* tasks/utils.ts and the records kept in the repository speak of, the     *)
(* others are created here.                                                *)
(***************************************************************************)
EXTENDS Integers, Sequences, FiniteSets, SequencesExt

CONSTANTS Networks,  \* networks of hardhat.config.ts the scripts are run on
          Edited,    \* contracts whose source may change
          MaxRuns, MaxEdits

VARIABLES
  network,
  record,   \* deployments/<network>: contract -> number of the recorded one
  made,     \* contracts on the chain: address -> source and constructor arguments
  pools,    \* pairs with a Uniswap pool -> whether its oracle was made longer
  answers,  \* token -> the controller it was initialised with
  code,     \* contract -> version of its source
  files,    \* arguments/<contract>-<network>.js
  graph,    \* addresses published to the subgraph package
  run,      \* its next step, 0 when it ended, how, and whether an error was caught
  count,    \* runs and edits so far
  formed    \* some run ended with a system that agrees with itself

vars == <<network, record, made, pools, answers, code, files, graph, run, count, formed>>

-----------------------------------------------------------------------------
(* tasks/utils.ts *)

\* Where a contract's address is written down.
KnownOn ==
  [SwapRouter |-> {"mainnet", "rinkebyArbitrum", "goerli"},
   UniswapV3Factory |-> {"mainnet", "rinkebyArbitrum", "goerli"},
   NonfungiblePositionManager |-> {"mainnet", "rinkebyArbitrum", "goerli"},
   MockErc20 |-> {"mainnet", "ropsten", "goerli"},
   WETH9 |-> {"mainnet", "ropsten", "rinkebyArbitrum", "goerli"},
   Controller |-> {"mainnet", "ropsten", "goerli"},
   exec |-> {"mainnet", "ropsten", "goerli"},
   euler |-> {"mainnet", "ropsten", "goerli"},
   dWethToken |-> {"mainnet", "ropsten", "goerli"},
   crabV1 |-> {"mainnet", "ropsten", "goerli"}]
Known(x) == network \in KnownOn[x]

hasUniswapDeployments(n) == n \in {"mainnet", "rinkebyArbitrum", "ropsten", "goerli"}

Missing == <<"missing", 0>>
Zero == <<"zero", 0>>
Blank == <<"", 0>>
Address(x) == IF x \in DOMAIN record THEN <<x, record[x]>> ELSE Missing
Lending == {"exec", "euler", "dWethToken", "crabV1"}
Uniswap == {"UniswapV3Factory", "SwapRouter", "NonfungiblePositionManager"}

\* The known address, or the recorded contract.
Get(x) == IF Known(x) THEN <<x, 0>> ELSE Address(x)
\* The known address, or an empty string.
GetLending(x) == IF Known(x) THEN <<x, 0>> ELSE Blank

SqueethPool == {Get("WETH9"), Address("WPowerPerp")}
UsdPool == {Get("WETH9"), Get("MockErc20")}
getPoolAddress(pair) == IF pair \in DOMAIN pools THEN <<"pool", pair>> ELSE Zero

\* What a script means by the name of an argument.
Resolve(arg) ==
  CASE arg = "squeethPool" -> getPoolAddress(SqueethPool)
    [] arg = "usdPool" -> getPoolAddress(UsdPool)
    [] arg = "getController" -> Get("Controller")
    [] arg \in Lending -> GetLending(arg)
    [] arg \in Uniswap \cup {"WETH9", "MockErc20"} -> Get(arg)
    [] OTHER -> Address(arg)

-----------------------------------------------------------------------------
(* Constructor arguments and libraries, script by script *)

UniswapArgs == {"UniswapV3Factory", "WETH9"}
ControllerArgs == {"Oracle", "ShortPowerPerp", "WPowerPerp", "WETH9", "MockErc20", "usdPool", "squeethPool",
                   "NonfungiblePositionManager", "ABDKMath64x64", "SqrtPriceMathPartial", "TickMathExternal"}
CrabArgs == {"Controller", "Oracle", "WETH9", "UniswapV3Factory", "squeethPool"}

ArgsOf(x) ==
  CASE x \in {"SwapRouter", "NonfungiblePositionManager", "Quoter"} -> UniswapArgs
    [] x = "Controller" -> ControllerArgs
    [] x = "ShortHelper" -> {"Controller", "SwapRouter", "WETH9"}
    [] x = "CrabStrategyDeployment" -> CrabArgs
    [] x = "ControllerHelperUtil" -> {"TickMathExternal", "SqrtPriceMathPartial"}
    [] x = "ControllerHelper" -> {"getController", "NonfungiblePositionManager", "UniswapV3Factory", "exec", "euler",
                                  "dWethToken", "ControllerHelperUtil"}
    [] x = "CrabMigration" -> {"crabV1", "WETH9", "exec", "dWethToken", "euler"}
    [] x = "CrabStrategyV2" -> IF network = "mainnet" THEN CrabArgs \cup {"Timelock", "CrabMigration"} ELSE CrabArgs
    [] x = "CrabHelper" -> {"CrabStrategyV2", "SwapRouter"}
    [] OTHER -> {}
Args(x) == [arg \in ArgsOf(x) |-> Resolve(arg)]

-----------------------------------------------------------------------------
(* The steps of the scripts *)

Load(xs) == [do |-> "load", of |-> xs]
Deploy(x) == [do |-> "deploy", of |-> {x}]
\* With skipIfAlreadyDeployed.
DeployOnce(x) == [do |-> "deployOnce", of |-> {x}]
createArgumentFile(x) == [do |-> "file", of |-> {x}]
createUniPool(pool) == [do |-> "pool", of |-> {pool}]
increaseObservationCardinalityNext(pool) == [do |-> "grow", of |-> {pool}]
InitToken(x) == [do |-> "init", of |-> {x}]

BasicCoins(n) ==
  IF n = "goerli"
  THEN <<DeployOnce("MockErc20"), createArgumentFile("MockErc20"), DeployOnce("OpynWETH9")>>
  ELSE (IF n \in KnownOn["WETH9"] THEN <<>> ELSE <<Deploy("WETH9")>>)
       \o (IF n \in KnownOn["MockErc20"] THEN <<>> ELSE <<DeployOnce("MockErc20")>>)

UniswapV3(n) ==
  IF hasUniswapDeployments(n) THEN <<>>
  ELSE <<Load({"WETH9"}), Deploy("UniswapV3Factory"), Deploy("SwapRouter"), Deploy("NonfungiblePositionManager"), Deploy("Quoter")>>

Core ==
  <<DeployOnce("Oracle"), DeployOnce("ShortPowerPerp"), createArgumentFile("ShortPowerPerp"),
    DeployOnce("WPowerPerp"), createArgumentFile("WPowerPerp")>>

PoolsOf(n) ==
  <<Load(Uniswap)>> \o
  IF n \in {"goerli", "mainnet"} THEN <<>>
  ELSE <<Load({"WETH9", "MockErc20", "WPowerPerp"}),
         createUniPool("squeethPool"), increaseObservationCardinalityNext("squeethPool"),
         createUniPool("usdPool"), increaseObservationCardinalityNext("usdPool")>>

\* The transfer of the ownership on mainnet is behind the return for mainnet.
ControllerScript(n) ==
  <<Load({"Oracle", "ShortPowerPerp", "WPowerPerp", "WETH9", "MockErc20"} \cup Uniswap)>> \o
  IF n \in {"goerli", "mainnet"} THEN <<>>
  ELSE <<Deploy("ABDKMath64x64"), Deploy("TickMathExternal"), Deploy("SqrtPriceMathPartial"),
         Deploy("Controller"), createArgumentFile("Controller"), InitToken("WPowerPerp"), InitToken("ShortPowerPerp")>>

Periphery == <<Load({"Controller", "WETH9"} \cup Uniswap), DeployOnce("ShortHelper"), createArgumentFile("ShortHelper")>>

CrabStrategy(n) ==
  IF n = "mainnet" THEN <<>>
  ELSE <<Load({"Controller", "Oracle", "WETH9", "WPowerPerp"} \cup Uniswap),
         DeployOnce("CrabStrategyDeployment"), createArgumentFile("CrabStrategyDeployment")>>

ControllerHelper(n) ==
  IF n \in {"localhost", "goerli", "mainnet"} THEN <<>>
  ELSE <<Deploy("TickMathExternal"), Deploy("SqrtPriceMathPartial"), Deploy("ControllerHelperUtil"),
         Load({"getController"} \cup Uniswap), Deploy("ControllerHelper")>>

CrabV2(n) ==
  <<Load({"Controller", "Oracle", "WETH9", "WPowerPerp"} \cup Uniswap)>>
  \o (IF n = "mainnet"
      THEN <<DeployOnce("CrabMigration"), DeployOnce("Timelock"), createArgumentFile("CrabMigration"), createArgumentFile("Timelock")>>
      ELSE <<>>)
  \o <<DeployOnce("CrabStrategyV2"), createArgumentFile("CrabStrategyV2")>>

CrabHelper == <<Load({"CrabStrategyV2"} \cup Uniswap), DeployOnce("CrabHelper"), createArgumentFile("CrabHelper")>>

\* The scripts of the second strategy in the other order.
ScriptsHelperFirst(n) ==
  BasicCoins(n) \o UniswapV3(n) \o Core \o PoolsOf(n) \o ControllerScript(n) \o Periphery \o CrabStrategy(n)
    \o ControllerHelper(n) \o CrabHelper \o CrabV2(n)
Scripts(n) ==
  BasicCoins(n) \o UniswapV3(n) \o Core \o PoolsOf(n) \o ControllerScript(n) \o Periphery \o CrabStrategy(n)
    \o ControllerHelper(n) \o CrabV2(n) \o CrabHelper

-----------------------------------------------------------------------------
(* The records kept in the repository *)

Libraries == {"ABDKMath64x64", "TickMathExternal", "SqrtPriceMathPartial"}
Common == Libraries \cup {"Controller", "ControllerHelper", "ControllerHelperUtil", "CrabStrategyV2", "Oracle", "Quoter",
                          "ShortHelper", "ShortPowerPerp", "WPowerPerp"}
Saved(n) ==
  CASE n = "mainnet" -> Common \cup {"CrabHelper", "CrabMigration", "Timelock"}
    [] n = "goerli" -> Common \cup Uniswap \cup {"CrabHelper", "CrabStrategyDeployment", "MockErc20", "OpynWETH9"}
    [] n = "ropsten" -> Common \cup Uniswap \cup {"CrabMigration", "CrabStrategyDeployment", "Timelock"}
    [] OTHER -> {}

Tokens == {"WPowerPerp", "ShortPowerPerp"}
Contracts == {"WETH9", "OpynWETH9", "MockErc20", "UniswapV3Factory", "CrabStrategyDeployment", "CrabMigration", "Timelock", "CrabHelper"}
               \cup Uniswap \cup Common

Stopped(r, was, why) == [r EXCEPT !.at = 0, !.was = was, !.why = why]

Init ==
  /\ network \in Networks
  /\ record = [x \in Saved(network) |-> 0]
  /\ pools = IF Saved(network) = {} THEN <<>> ELSE [pair \in {SqueethPool, UsdPool} |-> TRUE]
  /\ code = [x \in Contracts |-> 0]
  /\ made = [a \in {<<x, 0>> : x \in Saved(network)} |-> [code |-> 0, args |-> Args(a[1])]]
  /\ answers = [t \in Tokens \cap Saved(network) |-> <<"Controller", 0>>]
  /\ files = <<>>
  /\ graph = <<>>
  /\ run = [at |-> 0, was |-> "never", why |-> {}, lost |-> FALSE]
  /\ count = [runs |-> 0, edits |-> 0]
  /\ formed = (Saved(network) # {})

-----------------------------------------------------------------------------
(* hardhat-deploy *)

Running == run.at # 0
Step == Scripts(network)[run.at]
Its == CHOOSE x \in Step.of : TRUE
Goes == run' = [run EXCEPT !.at = @ + 1]
Put(f, x, v) == [y \in DOMAIN f \cup {x} |-> IF y = x THEN v ELSE f[y]]

BeginRun ==
  /\ ~ Running /\ count.runs < MaxRuns
  /\ run' = [at |-> 1, was |-> "running", why |-> {}, lost |-> FALSE]
  /\ count' = [count EXCEPT !.runs = @ + 1]
  /\ UNCHANGED <<network, record, made, pools, answers, code, files, graph, formed>>

Absent == {x \in Step.of : Resolve(x) = Missing}

LoadContracts ==
  /\ Running /\ run.at <= Len(Scripts(network)) /\ Step.do = "load"
  /\ Absent = {}
  /\ Goes
  /\ UNCHANGED <<network, record, made, pools, answers, code, files, graph, count, formed>>

\* Nothing is created when the record has the contract and it may not be made
\* anew, or when it was made from the same source with the same arguments.
UpToDate(x) == made[Address(x)] = [code |-> code[x], args |-> Args(x)]
Kept(x) == x \in DOMAIN record /\ (Step.do = "deployOnce" \/ UpToDate(x))
Encodable(x) == \A arg \in ArgsOf(x) : Args(x)[arg] # Blank

DeployContract ==
  /\ Running /\ run.at <= Len(Scripts(network)) /\ Step.do \in {"deploy", "deployOnce"}
  /\ IF Kept(Its) THEN UNCHANGED <<record, made>>
     ELSE LET new == 1 + Cardinality({a \in DOMAIN made : a[1] = Its /\ a[2] > 0}) IN
          /\ Encodable(Its)
          /\ made' = Put(made, <<Its, new>>, [code |-> code[Its], args |-> Args(Its)])
          /\ record' = Put(record, Its, new)
  /\ Goes
  /\ UNCHANGED <<network, pools, answers, code, files, graph, count, formed>>

WriteArguments ==
  /\ Running /\ run.at <= Len(Scripts(network)) /\ Step.do = "file"
  /\ files' = Put(files, Its, Args(Its))
  /\ Goes
  /\ UNCHANGED <<network, record, made, pools, answers, code, graph, count, formed>>

PairOf(pool) == IF pool = "squeethPool" THEN SqueethPool ELSE UsdPool

\* A pool that is there is taken as it is.
CreatePool ==
  /\ Running /\ run.at <= Len(Scripts(network)) /\ Step.do = "pool"
  /\ pools' = IF PairOf(Its) \in DOMAIN pools THEN pools ELSE Put(pools, PairOf(Its), FALSE)
  /\ Goes
  /\ UNCHANGED <<network, record, made, answers, code, files, graph, count, formed>>

GrowPool ==
  /\ Running /\ run.at <= Len(Scripts(network)) /\ Step.do = "grow"
  /\ pools' = Put(pools, PairOf(Its), TRUE)
  /\ Goes
  /\ UNCHANGED <<network, record, made, answers, code, files, graph, count, formed>>

\* init reverts on a token that has a controller; that is caught.
InitialiseToken ==
  /\ Running /\ run.at <= Len(Scripts(network)) /\ Step.do = "init"
  /\ answers' = IF Its \in DOMAIN answers THEN answers ELSE Put(answers, Its, Address("Controller"))
  /\ Goes
  /\ UNCHANGED <<network, record, made, pools, code, files, graph, count, formed>>

\* So is any other error of the same call, a lost connection for one.
InitialiseNothing ==
  /\ Running /\ run.at <= Len(Scripts(network)) /\ Step.do = "init"
  /\ run' = [run EXCEPT !.at = @ + 1, !.lost = TRUE]
  /\ UNCHANGED <<network, record, made, pools, answers, code, files, graph, count, formed>>

\* A contract that is nowhere, or an empty address, is an error nobody catches.
Throws ==
  /\ Running /\ run.at <= Len(Scripts(network))
  /\ \/ Step.do = "load" /\ Absent # {}
     \/ Step.do \in {"deploy", "deployOnce"} /\ ~ Kept(Its) /\ ~ Encodable(Its)
  /\ run' = Stopped(run, "threw", Step.of)
  /\ UNCHANGED <<network, record, made, pools, answers, code, files, graph, count, formed>>

Cut ==
  /\ Running
  /\ run' = Stopped(run, "cut", {})
  /\ UNCHANGED <<network, record, made, pools, answers, code, files, graph, count, formed>>

\* The recorded contracts were given each other, the tokens answer to the
\* recorded controller, the oracles of the pools are long enough and the
\* argument files are those of the recorded contracts.
Agrees ==
  /\ \A x \in DOMAIN record : made[Address(x)].args = Args(x)
  /\ \A t \in Tokens : t \in DOMAIN answers /\ answers[t] = Address("Controller")
  /\ \A pair \in DOMAIN pools : pools[pair]
  /\ \A x \in DOMAIN files : files[x] = made[Address(x)].args

\* The end of the last script, and scripts/publish.js after it.
Publish ==
  /\ Running /\ run.at = Len(Scripts(network)) + 1
  /\ run' = Stopped(run, "done", {})
  /\ graph' = [x \in DOMAIN graph \cup DOMAIN record |-> IF x \in DOMAIN record THEN record[x] ELSE graph[x]]
  /\ UNCHANGED <<network, record, made, pools, answers, code, files, count>>
  /\ formed' = (formed \/ (Agrees /\ ~ run.lost))

Edit ==
  /\ ~ Running /\ count.edits < MaxEdits
  /\ \E x \in Edited : code' = [code EXCEPT ![x] = @ + 1]
  /\ count' = [count EXCEPT !.edits = @ + 1]
  /\ UNCHANGED <<network, record, made, pools, answers, files, graph, run, formed>>

Next ==
  \/ BeginRun
  \/ LoadContracts
  \/ DeployContract
  \/ WriteArguments
  \/ CreatePool
  \/ GrowPool
  \/ InitialiseToken
  \/ InitialiseNothing
  \/ Throws
  \/ Cut
  \/ Publish
  \/ Edit

Spec == Init /\ [][Next]_vars

-----------------------------------------------------------------------------
(* Properties *)

\* However often it was cut and begun again, a run stops by itself only at the
\* controller helper, on a network whose lending addresses nobody wrote down.
\* One that reaches its end over a source that did not change leaves a system
\* that agrees with itself, and the subgraph has its addresses; only an error
\* caught around init spoils it, until the next run.  A system that once agreed
\* keeps its tokens, its short helper and its strategies on one controller,
\* whatever is edited, run and cut afterwards, even when another controller is
\* recorded by then.
SystemAgrees ==
  /\ run.was = "threw" => run.why = {"ControllerHelper"} /\ ~ Known("exec")
  /\ run.was = "done" /\ ~ run.lost /\ count.edits = 0 => Agrees /\ \A x \in DOMAIN record : graph[x] = record[x]
  /\ formed =>
       LET controller == answers["WPowerPerp"] IN
       /\ answers["ShortPowerPerp"] = controller
       /\ \A x \in {"ShortHelper", "CrabStrategyDeployment", "CrabStrategyV2"} \cap DOMAIN record :
            made[Address(x)].args["Controller"] = controller
       /\ "CrabHelper" \in DOMAIN record => made[Address("CrabHelper")].args["CrabStrategyV2"] = Address("CrabStrategyV2")
=============================================================================
