------------------------------- MODULE Session -------------------------------
(***************************************************************************)
(* Who uses the web application: the account its wallet tells, the account *)
(* the pages show, and the strikes the server counts for an account that   *)
(* comes from a restricted place.  Every answer of a service comes some    *)
(* time after its question, and the wallet, the user and the network go on *)
(* meanwhile.                                                              *)
(***************************************************************************)
EXTENDS Naturals, Bags, BagsExt, Functions

CONSTANTS Nobody, Accounts,
          Risky,     \* accounts the address service rates a high risk
          Earlier,   \* strikes counted before
          MaxEvents, \* what wallet, user and network do in a behaviour
          MaxOpen    \* questions that may be open when they do

ASSUME SessionAssumption ==
  /\ Accounts # {} /\ Nobody \notin Accounts /\ Risky \subseteq Accounts
  /\ Earlier \in [Accounts -> Nat] /\ MaxEvents \in Nat /\ MaxOpen \in Nat

VARIABLES
  wallet,  \* the account selected in it, and whether the page listens to it
  storage, \* what the browser keeps
  tab,     \* atoms and state of the page
  calls,   \* bag of the requests under way
  server,  \* strikes of the accounts, whether the visitor's network address is noted
  past     \* events so far; accounts whose strikes grew after the page asked; why the last
           \* check left the pages on another account than the wallet's: it was about an
           \* earlier one ("late"), the user had not agreed to connect there ("unasked"),
           \* or it was rejected ("failed")

sessionVars == <<wallet, storage, tab, calls, server, past>>

isRestricted(t) == (t.blockedPlace \/ t.blocked) /\ t.mainnet
isLegalPage(t) == t.path = "legal"
isZenbullPage(t) == t.path = "bull"

Entered(path, place) ==
  [path |-> path, blockedPlace |-> place, mainnet |-> TRUE, onboard |-> Nobody, address |-> Nobody,
   strikeCount |-> 0, blocked |-> FALSE, firstAddressCheck |-> TRUE, walletFail |-> FALSE,
   timer |-> FALSE, countModal |-> FALSE, shownOnce |-> FALSE]

Replace(c, d) == BagAdd(BagRemove(calls, c), d)

-----------------------------------------------------------------------------
(* The effects of Init: what a render asks of the services *)

Call(kind, t) ==
  [kind |-> kind, of |-> t.onboard, bull |-> isZenbullPage(t), stage |-> "sent", got |-> 0, closed |-> FALSE]

\* Mutant for AccountIsTheWallets: the check runs once, for the account the wallet told first.
InitOnce(t) ==
  [check |-> tab.onboard = Nobody \/ isZenbullPage(t) # isZenbullPage(tab) \/ t.mainnet # tab.mainnet,
   update |-> isRestricted(t) /\ ~ isLegalPage(t)
                /\ (t.onboard # tab.onboard \/ isRestricted(t) # isRestricted(tab) \/ isLegalPage(t) # isLegalPage(tab)),
   strikes |-> t.onboard # tab.onboard]

\* connectWallet, a dependency of the check, is another function on another network.
InitEffects(t) ==
  [check |-> t.onboard # tab.onboard \/ isZenbullPage(t) # isZenbullPage(tab) \/ t.mainnet # tab.mainnet,
   update |-> isRestricted(t) /\ ~ isLegalPage(t)
                /\ (t.onboard # tab.onboard \/ isRestricted(t) # isRestricted(tab) \/ isLegalPage(t) # isLegalPage(tab)),
   strikes |-> t.onboard # tab.onboard]

AskedBy(t) == SetToBag({Call(kind, t) : kind \in {k \in DOMAIN InitEffects(t) : t.onboard # Nobody /\ InitEffects(t)[k]}})
Render(t, others) == tab' = t /\ calls' = others (+) AskedBy(t)

-----------------------------------------------------------------------------
(* Wallet, user and network *)

Event == past.events < MaxEvents /\ BagCardinality(calls) <= MaxOpen /\ past' = [past EXCEPT !.events = @ + 1]

WalletSwitches ==
  /\ Event
  /\ \E a \in Accounts \ {wallet.account} : wallet' = [wallet EXCEPT !.account = a]
  /\ UNCHANGED <<storage, tab, calls, server>>

\* The subscription of useOnboard.
WalletTells ==
  /\ wallet.attached /\ tab.onboard # wallet.account
  /\ Render([tab EXCEPT !.onboard = wallet.account], calls)
  /\ UNCHANGED <<wallet, storage, server, past>>

\* The button is there while nobody is connected; its callback has the account
\* and the path of the render it was pressed in.
onWalletSelect ==
  /\ Event /\ tab.address = Nobody
  /\ calls' = BagAdd(calls, Call("select", tab))
  /\ UNCHANGED <<wallet, storage, tab, server>>

WalletChosen ==
  /\ \E c \in DOMAIN calls :
       /\ c.kind = "select" /\ c.stage = "sent"
       /\ calls' = Replace(c, [c EXCEPT !.stage = "chosen"])
  /\ wallet' = [wallet EXCEPT !.attached = TRUE]
  /\ storage' = [storage EXCEPT !.selectedWallet = TRUE]
  /\ UNCHANGED <<tab, server, past>>

NoneChosen ==
  /\ \E c \in DOMAIN calls : c.kind = "select" /\ c.stage = "sent" /\ calls' = BagRemove(calls, c)
  /\ UNCHANGED <<wallet, storage, tab, server, past>>

\* The terms count as accepted, and the account known when the button was
\* pressed is checked.
WalletSelected ==
  /\ \E c \in DOMAIN calls :
       /\ c.kind = "select" /\ c.stage = "chosen"
       /\ storage' = [storage EXCEPT !.terms = TRUE, !.zenbull = @ \/ c.bull]
       /\ calls' = IF c.of = Nobody THEN BagRemove(calls, c)
                   ELSE Replace(c, [c EXCEPT !.kind = "checkSelected", !.stage = "sent"])
  /\ UNCHANGED <<wallet, tab, server, past>>

Disconnected(t) == [t EXCEPT !.address = Nobody, !.onboard = Nobody, !.strikeCount = 0]

disconnectWallet ==
  /\ Event /\ tab.address # Nobody
  /\ Render(Disconnected(tab), calls)
  /\ wallet' = [wallet EXCEPT !.attached = FALSE]
  /\ UNCHANGED <<storage, server>>

\* The page of Zen Bull disconnects who never connected there, after the effects of
\* Init were due.
Go ==
  /\ Event /\ tab.path # "blocked"
  /\ \E path \in {"legal", "bull", "other"} \ {tab.path} :
       LET moved == [tab EXCEPT !.path = path]
           leaves == isZenbullPage(moved) /\ ~ storage.zenbull IN
       /\ calls' = calls (+) AskedBy(moved)
       /\ tab' = IF leaves THEN Disconnected(moved) ELSE moved
       /\ wallet' = [wallet EXCEPT !.attached = @ /\ ~ leaves]
  /\ UNCHANGED <<storage, server>>

\* Another network: Onboard is made anew and selects the wallet chosen before.
onNetworkChange ==
  /\ Event /\ wallet.attached
  /\ Render([tab EXCEPT !.mainnet = ~ @], calls)
  /\ wallet' = [wallet EXCEPT !.attached = storage.selectedWallet]
  /\ UNCHANGED <<storage, server>>

\* What a service says of the network address; where it fails, nothing.
isVPN == BOOLEAN

\* The page is opened again.  The middleware sends a visitor elsewhere whose
\* network address is noted or found to hide where he is, and notes it.  The
\* server goes on with what the page before had asked of it.
Reload ==
  /\ Event
  /\ \E path \in {"legal", "bull", "other"}, found \in isVPN :
       /\ tab' = IF server.blockedIp \/ found THEN Entered("blocked", FALSE) ELSE Entered(path, server.blockedPlace)
       /\ server' = [server EXCEPT !.blockedIp = @ \/ found]
  /\ LET Closed(c) == [c EXCEPT !.closed = TRUE]
     IN calls' = BagOfAll(Closed, Restrict(calls, {c \in DOMAIN calls : c.kind = "update"}))
  /\ wallet' = [wallet EXCEPT !.attached = storage.selectedWallet]
  /\ UNCHANGED storage

ThirtyDaysPass ==
  /\ server.blockedIp /\ server' = [server EXCEPT !.blockedIp = FALSE]
  /\ UNCHANGED <<wallet, storage, tab, calls, past>>

-----------------------------------------------------------------------------
(* The services *)

\* An address is valid that is not rated a high risk, or whose rating fails.
isValidAddress(a) == {TRUE} \cup (IF a \in Risky THEN {FALSE} ELSE {})

connectWallet(a, others) ==
  /\ Render([tab EXCEPT !.address = a], others)
  /\ past' = [past EXCEPT !.apart = IF a = tab.onboard THEN "no" ELSE "late"]

\* The answer to the check of Init's effect: the page of Zen Bull connects by
\* itself only who connected there, and the first failure says nothing.
CheckAnswered ==
  /\ \E c \in DOMAIN calls :
       /\ c.kind = "check"
       /\ \E valid \in isValidAddress(c.of) :
            \/ /\ valid /\ storage.terms /\ (c.bull => storage.zenbull)
               /\ connectWallet(c.of, BagRemove(calls, c))
            \/ /\ valid /\ ~ (storage.terms /\ (c.bull => storage.zenbull))
               /\ calls' = BagRemove(calls, c)
               /\ past' = [past EXCEPT !.apart = "unasked"]
               /\ UNCHANGED tab
            \/ /\ ~ valid
               /\ Render([tab EXCEPT !.firstAddressCheck = FALSE, !.walletFail = @ \/ ~ tab.firstAddressCheck], BagRemove(calls, c))
               /\ UNCHANGED past
  /\ UNCHANGED <<wallet, storage, server>>

CheckSelectedAnswered ==
  /\ \E c \in DOMAIN calls :
       /\ c.kind = "checkSelected"
       /\ \E valid \in isValidAddress(c.of) :
            \/ valid /\ connectWallet(c.of, BagRemove(calls, c))
            \/ ~ valid /\ Render([tab EXCEPT !.walletFail = TRUE], BagRemove(calls, c)) /\ UNCHANGED past
  /\ UNCHANGED <<wallet, storage, server>>

\* The request of either check is rejected, which nothing catches.
CheckFails ==
  /\ \E c \in DOMAIN calls :
       /\ c.kind \in {"check", "checkSelected"}
       /\ calls' = BagRemove(calls, c)
       /\ past' = IF c.of = tab.onboard THEN [past EXCEPT !.apart = "failed"] ELSE past
  /\ UNCHANGED <<wallet, storage, tab, server>>

\* The server reads the strikes of an account, and in a step of its own writes
\* them with one more.
ReadStrikes ==
  /\ \E c \in DOMAIN calls :
       /\ c.kind \in {"update", "strikes"} /\ c.stage = "sent"
       /\ calls' = Replace(c, [c EXCEPT !.stage = "read", !.got = server.strikes[c.of]])
       /\ past' = IF c.kind = "strikes" THEN [past EXCEPT !.missed = @ \ {c.of}] ELSE past
  /\ UNCHANGED <<wallet, storage, tab, server>>

updateBlockedAddress ==
  /\ \E c \in DOMAIN calls :
       /\ c.kind = "update" /\ c.stage = "read"
       /\ server' = [server EXCEPT !.strikes[c.of] = c.got + 1]
       /\ calls' = Replace(c, [c EXCEPT !.stage = "written", !.got = @ + 1])
       /\ past' = IF c.closed THEN [past EXCEPT !.missed = @ \cup {c.of}] ELSE past
  /\ UNCHANGED <<wallet, storage, tab>>

\* Mutant for ThreeStrikesBlock: the fourth strike blocks.
withStrikesFour(c) ==
  [tab EXCEPT !.strikeCount = c.got, !.blocked = @ \/ c.got > 3, !.countModal = @ \/ c.kind = "update"]

withStrikes(c) ==
  [tab EXCEPT !.strikeCount = c.got, !.blocked = @ \/ c.got >= 3, !.countModal = @ \/ c.kind = "update"]

Counted(c) == <<c.kind, c.stage>> \in {<<"strikes", "read">>, <<"update", "written">>}
StrikesAnswered ==
  /\ \E c \in DOMAIN calls :
       /\ Counted(c)
       /\ IF c.closed THEN tab' = tab /\ calls' = BagRemove(calls, c)
          ELSE Render(withStrikes(c), BagRemove(calls, c))
  /\ UNCHANGED <<wallet, storage, server, past>>

\* The answer is an error, or lost.
StrikesFail ==
  /\ \E c \in DOMAIN calls :
       /\ c.kind \in {"update", "strikes"}
       /\ calls' = BagRemove(calls, c)
       /\ past' = [past EXCEPT !.missed = @ \cup {c.of}]
  /\ UNCHANGED <<wallet, storage, tab, server>>

-----------------------------------------------------------------------------
(* The warning about strikes *)

TimerFires ==
  /\ isRestricted(tab) /\ ~ isLegalPage(tab) /\ ~ tab.timer
  /\ tab' = [tab EXCEPT !.timer = TRUE]
  /\ UNCHANGED <<wallet, storage, calls, server, past>>

\* With a wallet connected the count is told, without one that it will count.
StrikeModalShown(t) == t.timer /\ IF t.address # Nobody THEN t.countModal ELSE ~ t.shownOnce
CloseModal ==
  /\ StrikeModalShown(tab)
  /\ tab' = [tab EXCEPT !.shownOnce = TRUE, !.countModal = @ /\ tab.address = Nobody]
  /\ UNCHANGED <<wallet, storage, calls, server, past>>

CloseFailModal ==
  /\ tab.walletFail /\ tab' = [tab EXCEPT !.walletFail = FALSE]
  /\ UNCHANGED <<wallet, storage, calls, server, past>>

-----------------------------------------------------------------------------
\* A visitor who comes for the first time, or one who was here before.
FirstVisit == [terms |-> FALSE, zenbull |-> FALSE, selectedWallet |-> FALSE]
Returning == {FirstVisit} \cup [terms : {TRUE}, zenbull : BOOLEAN, selectedWallet : {TRUE}]

Start(visitors, accounts, places, paths) ==
  /\ storage \in visitors
  /\ \E a \in accounts : wallet = [account |-> a, attached |-> storage.selectedWallet]
  /\ server \in [strikes : {Earlier}, blockedIp : {FALSE}, blockedPlace : places]
  /\ \E path \in paths : tab = Entered(path, server.blockedPlace)
  /\ calls = EmptyBag
  /\ past = [events |-> 0, missed |-> {}, apart |-> "no"]

SessionInit == Start(Returning, Accounts, BOOLEAN, {"legal", "bull", "other"})
\* A visitor of whom nothing happens.
SessionRests == Start({FirstVisit}, {CHOOSE a \in Accounts : TRUE}, {FALSE}, {"other"})

SessionNext ==
  \/ WalletSwitches \/ WalletTells
  \/ onWalletSelect \/ WalletChosen \/ NoneChosen \/ WalletSelected \/ disconnectWallet
  \/ Go \/ onNetworkChange \/ Reload \/ ThirtyDaysPass
  \/ CheckAnswered \/ CheckSelectedAnswered \/ CheckFails
  \/ ReadStrikes \/ updateBlockedAddress \/ StrikesAnswered \/ StrikesFail
  \/ TimerFires \/ CloseModal \/ CloseFailModal

-----------------------------------------------------------------------------
(* Properties *)

\* When every question was answered, the account the pages show is the one the
\* wallet told, unless that one is a risk, or its last check was rejected, or the
\* last answer was about an earlier one, or came on the page of Zen Bull to a user
\* who had not connected there.
AccountIsTheWallets ==
  calls = EmptyBag /\ tab.address \notin {Nobody, tab.onboard} => tab.onboard \in Risky \/ past.apart # "no"

\* When every question was answered, an account with three strikes has its user
\* blocked, in whatever order the page asked, the server wrote and the answers came,
\* unless an answer was lost or a page that was closed added one afterwards.
ThreeStrikesBlock ==
  calls = EmptyBag /\ tab.onboard # Nobody /\ tab.onboard \notin past.missed =>
    (server.strikes[tab.onboard] >= 3 => tab.blocked)
=============================================================================
