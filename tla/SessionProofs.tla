----------------------------- MODULE SessionProofs -----------------------------
(***************************************************************************)
(* Theorems about who uses the web application, for any accounts and any   *)
(* number of events: whose account the pages show when every question was  *)
(* answered, and that three strikes block.                                 *)
(***************************************************************************)
EXTENDS Pages, TLAPS

-----------------------------------------------------------------------------
(* What is under way: the elements of a bag. *)

LEMMA Removed ==
  ASSUME NEW B, NEW x
  PROVE  DOMAIN BagRemove(B, x) \subseteq DOMAIN B /\ DOMAIN B \subseteq DOMAIN BagRemove(B, x) \cup {x}
BY DEF BagRemove

LEMMA Added == ASSUME NEW B, NEW x PROVE DOMAIN BagAdd(B, x) = DOMAIN B \cup {x}
BY DEF BagAdd

LEMMA Joined == ASSUME NEW B, NEW C PROVE DOMAIN (B (+) C) = DOMAIN B \cup DOMAIN C
BY DEF (+)

LEMMA OfASet == ASSUME NEW S PROVE DOMAIN SetToBag(S) = S
BY DEF SetToBag

LEMMA NothingUnderWay == DOMAIN EmptyBag = {}
BY OfASet DEF EmptyBag

(* A request replaced by its next stage. *)
LEMMA Replaced ==
  ASSUME NEW c, NEW d
  PROVE  /\ d \in DOMAIN Replace(c, d)
         /\ DOMAIN Replace(c, d) \subseteq DOMAIN calls \cup {d}
         /\ DOMAIN calls \subseteq DOMAIN Replace(c, d) \cup {c}
<1>1. DOMAIN Replace(c, d) = DOMAIN BagRemove(calls, c) \cup {d}
  BY Added DEF Replace
<1> QED BY <1>1, Removed

(* What a render asks: about the account of the wallet, if there is one. *)
LEMMA Questions ==
  ASSUME NEW t
  PROVE  /\ \A c \in DOMAIN AskedBy(t) : \E kind \in {"check", "update", "strikes"} : c = Call(kind, t) /\ t.onboard # Nobody
         /\ t.onboard \notin {Nobody, tab.onboard} => {Call("check", t), Call("strikes", t)} \subseteq DOMAIN AskedBy(t)
<1> DEFINE due == {k \in DOMAIN InitEffects(t) : t.onboard # Nobody /\ InitEffects(t)[k]}
<1>1. DOMAIN InitEffects(t) = {"check", "update", "strikes"}
  BY DEF InitEffects
<1>2. DOMAIN AskedBy(t) = {Call(kind, t) : kind \in due}
  BY OfASet DEF AskedBy
<1>3. t.onboard \notin {Nobody, tab.onboard} => "check" \in due /\ "strikes" \in due
  BY <1>1 DEF InitEffects
<1> HIDE DEF due
<1>4. \A k \in due : k \in {"check", "update", "strikes"} /\ t.onboard # Nobody
  BY <1>1 DEF due
<1> QED BY <1>2, <1>3, <1>4

-----------------------------------------------------------------------------
(* The inductive invariant. *)

Someone == Accounts \cup {Nobody}
Requests ==
  [kind : {"check", "update", "strikes", "select", "checkSelected"}, of : Someone, bull : BOOLEAN,
   stage : {"sent", "read", "written", "chosen"}, got : Nat, closed : BOOLEAN]
Tabs ==
  [path : {"legal", "bull", "other", "blocked"}, blockedPlace : BOOLEAN, mainnet : BOOLEAN, onboard : Someone, address : Someone,
   strikeCount : Nat, blocked : BOOLEAN, firstAddressCheck : BOOLEAN, walletFail : BOOLEAN, timer : BOOLEAN,
   countModal : BOOLEAN, shownOnce : BOOLEAN]

SessionTypes ==
  /\ wallet \in [account : Accounts, attached : BOOLEAN]
  /\ storage \in [terms : BOOLEAN, zenbull : BOOLEAN, selectedWallet : BOOLEAN]
  /\ tab \in Tabs
  /\ server \in [strikes : [Accounts -> Nat], blockedIp : BOOLEAN, blockedPlace : BOOLEAN]
  /\ past \in [events : Nat, missed : SUBSET Accounts, apart : {"no", "late", "unasked", "failed"}]

(* What is under way is about an account, except that nobody may be connected when *)
(* a wallet is chosen; and only the strikes a page added go on when it is closed.   *)
WellFormed(requests) ==
  /\ requests \subseteq Requests
  /\ \A c \in requests : (c.kind # "select" => c.of \in Accounts) /\ (c.closed => c.kind = "update")
RequestsFit == WellFormed(DOMAIN calls)

(* The pages show another account than the wallet told only while its check is *)
(* under way, or for one of the reasons AccountIsTheWallets excepts.            *)
CheckIsComing ==
  tab.address \notin {Nobody, tab.onboard} =>
    \/ tab.onboard \in Risky \/ past.apart # "no"
    \/ \E c \in DOMAIN calls : c.kind = "check" /\ c.of = tab.onboard

(* A request that will tell the page of three strikes, if it is answered: it has *)
(* yet to read them, has read them, or will write them.                         *)
WillTell(c, a) ==
  /\ c.of = a /\ ~ c.closed /\ c.kind \in {"update", "strikes"}
  /\ c.stage = "sent" \/ c.got >= 3 \/ (c.kind = "update" /\ c.stage = "read")
BlockIsComing ==
  /\ tab.onboard # Nobody /\ tab.onboard \notin past.missed
  /\ server.strikes[tab.onboard] >= 3 /\ ~ tab.blocked
  => \E c \in DOMAIN calls : WillTell(c, tab.onboard)

SessionInv == SessionTypes /\ RequestsFit /\ CheckIsComing /\ BlockIsComing

LEMMA InitHolds ==
  ASSUME NEW visitors, visitors \subseteq Returning, NEW accounts, accounts \subseteq Accounts,
         NEW places, places \subseteq BOOLEAN, NEW paths, paths \subseteq {"legal", "bull", "other"},
         Start(visitors, accounts, places, paths)
  PROVE  SessionInv
<1>1. storage \in [terms : BOOLEAN, zenbull : BOOLEAN, selectedWallet : BOOLEAN]
  <2>1. FirstVisit \in [terms : BOOLEAN, zenbull : BOOLEAN, selectedWallet : BOOLEAN]
    BY DEF FirstVisit
  <2>2. [terms : {TRUE}, zenbull : BOOLEAN, selectedWallet : {TRUE}] \subseteq [terms : BOOLEAN, zenbull : BOOLEAN, selectedWallet : BOOLEAN]
    OBVIOUS
  <2> QED BY <2>1, <2>2 DEF Start, Returning
<1>2. server \in [strikes : [Accounts -> Nat], blockedIp : BOOLEAN, blockedPlace : BOOLEAN]
  BY SessionAssumption DEF Start
<1>3. PICK path \in paths : tab = Entered(path, server.blockedPlace)
  BY DEF Start
<1>4. tab \in Tabs /\ tab.onboard = Nobody /\ tab.address = Nobody
  BY <1>2, <1>3 DEF Entered, Tabs, Someone
<1>5. DOMAIN calls = {}
  BY NothingUnderWay DEF Start
<1>6. wallet \in [account : Accounts, attached : BOOLEAN]
  BY <1>1 DEF Start
<1>7. past \in [events : Nat, missed : SUBSET Accounts, apart : {"no", "late", "unasked", "failed"}]
  BY DEF Start
<1> QED BY <1>1, <1>2, <1>4, <1>5, <1>6, <1>7 DEF SessionInv, SessionTypes, RequestsFit, WellFormed, CheckIsComing, BlockIsComing

(* What a render asks fits, and is open. *)
LEMMA QuestionsFit ==
  ASSUME NEW t \in Tabs
  PROVE  WellFormed(DOMAIN AskedBy(t))
<1> SUFFICES ASSUME NEW c \in DOMAIN AskedBy(t)
             PROVE  c \in Requests /\ c.of \in Accounts /\ ~ c.closed
  BY DEF WellFormed
<1>1. PICK kind \in {"check", "update", "strikes"} : c = Call(kind, t) /\ t.onboard # Nobody
  BY Questions
<1>2. t.onboard \in Accounts /\ isZenbullPage(t) \in BOOLEAN
  BY <1>1 DEF Tabs, Someone, isZenbullPage
<1> QED BY <1>1, <1>2 DEF Call, Requests, Someone

(* A render that keeps the account the wallet told, adds the questions it has. *)
LEMMA Rendered ==
  ASSUME NEW t \in Tabs, NEW others, WellFormed(DOMAIN others), Render(t, others)
  PROVE  /\ tab' = t /\ WellFormed(DOMAIN calls') /\ DOMAIN others \subseteq DOMAIN calls'
         /\ t.onboard \notin {Nobody, tab.onboard} => {Call("check", t), Call("strikes", t)} \subseteq DOMAIN calls'
<1>1. DOMAIN calls' = DOMAIN others \cup DOMAIN AskedBy(t)
  BY Joined DEF Render
<1>2. WellFormed(DOMAIN AskedBy(t))
  BY QuestionsFit
<1>3. WellFormed(DOMAIN calls')
  BY <1>1, <1>2 DEF WellFormed
<1> QED BY <1>1, <1>3, Questions DEF Render

LEMMA SmallerFits ==
  ASSUME RequestsFit, NEW c
  PROVE  WellFormed(DOMAIN BagRemove(calls, c))
BY Removed DEF RequestsFit, WellFormed

(* The four requests one of which a new account is told by. *)
LEMMA NewAccountAsked ==
  ASSUME NEW t \in Tabs, t.onboard # Nobody
  PROVE  /\ Call("check", t).kind = "check" /\ Call("check", t).of = t.onboard
         /\ WillTell(Call("strikes", t), t.onboard)
BY DEF Call, WillTell

-----------------------------------------------------------------------------
(* Wallet, user and network *)

LEMMA EventTypes ==
  ASSUME SessionTypes, Event
  PROVE  /\ past' \in [events : Nat, missed : SUBSET Accounts, apart : {"no", "late", "unasked", "failed"}]
         /\ past'.missed = past.missed /\ past'.apart = past.apart
BY DEF SessionTypes, Event

LEMMA WalletSwitchesKeeps == ASSUME SessionInv, WalletSwitches PROVE SessionInv'
<1>1. SessionTypes'
  BY EventTypes DEF SessionInv, WalletSwitches, SessionTypes
<1> QED BY <1>1, EventTypes DEF SessionInv, WalletSwitches, RequestsFit, WellFormed, CheckIsComing, BlockIsComing

LEMMA WalletTellsKeeps == ASSUME SessionInv, WalletTells PROVE SessionInv'
<1> DEFINE t == [tab EXCEPT !.onboard = wallet.account]
<1>1. t \in Tabs /\ t.onboard \notin {Nobody, tab.onboard} /\ t.address = tab.address /\ t.blocked = tab.blocked
  BY SessionAssumption DEF SessionInv, SessionTypes, WalletTells, Tabs, Someone
<1> HIDE DEF t
<1>2. Render(t, calls)
  BY DEF WalletTells, t
<1>3. /\ tab' = t /\ WellFormed(DOMAIN calls')
      /\ {Call("check", t), Call("strikes", t)} \subseteq DOMAIN calls'
  BY <1>1, <1>2, Rendered DEF SessionInv, RequestsFit
<1>4. SessionTypes'
  BY <1>1, <1>3 DEF SessionInv, WalletTells, SessionTypes
<1> QED BY <1>1, <1>3, <1>4, NewAccountAsked DEF SessionInv, RequestsFit, CheckIsComing, BlockIsComing

(* The requests of a button are not about the account yet. *)
LEMMA onWalletSelectKeeps == ASSUME SessionInv, onWalletSelect PROVE SessionInv'
<1> DEFINE c == Call("select", tab)
<1>1. c \in Requests /\ c.kind = "select" /\ ~ c.closed
  <2>1. isZenbullPage(tab) \in BOOLEAN
    BY DEF isZenbullPage
  <2> QED BY <2>1 DEF Call, SessionInv, SessionTypes, Tabs, Requests
<1>2. DOMAIN calls' = DOMAIN calls \cup {c}
  BY Added DEF onWalletSelect
<1> HIDE DEF c
<1>3. RequestsFit'
  BY <1>1, <1>2 DEF SessionInv, RequestsFit, WellFormed
<1>4. SessionTypes'
  BY EventTypes DEF SessionInv, SessionTypes, onWalletSelect
<1> QED BY <1>2, <1>3, <1>4, EventTypes DEF SessionInv, onWalletSelect, CheckIsComing, BlockIsComing

(* A request that is neither a check nor about strikes moves on or ends. *)
LEMMA OthersMove ==
  ASSUME SessionInv, NEW c \in DOMAIN calls, c.kind \notin {"check", "update", "strikes"},
         DOMAIN calls \subseteq DOMAIN calls' \cup {c}, WellFormed(DOMAIN calls'),
         UNCHANGED <<tab, server, past>>, SessionTypes'
  PROVE  SessionInv'
<1>1. \A d \in DOMAIN calls : d.kind \in {"check", "update", "strikes"} => d \in DOMAIN calls'
  OBVIOUS
<1>2. CheckIsComing'
  BY <1>1 DEF SessionInv, CheckIsComing
<1>3. BlockIsComing'
  BY <1>1 DEF SessionInv, BlockIsComing, WillTell
<1> QED BY <1>2, <1>3 DEF SessionInv, RequestsFit

LEMMA WalletChosenKeeps == ASSUME SessionInv, WalletChosen PROVE SessionInv'
<1>1. PICK c \in DOMAIN calls : /\ c.kind = "select" /\ c.stage = "sent"
                               /\ calls' = Replace(c, [c EXCEPT !.stage = "chosen"])
  BY DEF WalletChosen
<1>2. c \in Requests
  BY DEF SessionInv, RequestsFit, WellFormed
<1> DEFINE d == [c EXCEPT !.stage = "chosen"]
<1>3. d \in Requests /\ d.kind = "select" /\ d.closed = c.closed
  BY <1>1, <1>2 DEF Requests
<1> HIDE DEF d
<1>4. calls' = Replace(c, d)
  BY <1>1 DEF d
<1>5. DOMAIN calls' \subseteq DOMAIN calls \cup {d} /\ DOMAIN calls \subseteq DOMAIN calls' \cup {c}
  BY <1>4, Replaced
<1>7. WellFormed(DOMAIN calls')
  BY <1>1, <1>3, <1>5 DEF SessionInv, RequestsFit, WellFormed
<1>6. SessionTypes'
  BY DEF SessionInv, SessionTypes, WalletChosen
<1> QED BY <1>1, <1>5, <1>6, <1>7, OthersMove DEF WalletChosen

LEMMA NoneChosenKeeps == ASSUME SessionInv, NoneChosen PROVE SessionInv'
<1>1. PICK c \in DOMAIN calls : c.kind = "select" /\ calls' = BagRemove(calls, c)
  BY DEF NoneChosen
<1>2. WellFormed(DOMAIN calls') /\ DOMAIN calls \subseteq DOMAIN calls' \cup {c}
  BY <1>1, Removed, SmallerFits DEF SessionInv
<1>3. SessionTypes'
  BY DEF SessionInv, SessionTypes, NoneChosen
<1> QED BY <1>1, <1>2, <1>3, OthersMove DEF NoneChosen

LEMMA WalletSelectedKeeps == ASSUME SessionInv, WalletSelected PROVE SessionInv'
<1>1. PICK c \in DOMAIN calls :
        /\ c.kind = "select" /\ c.stage = "chosen"
        /\ storage' = [storage EXCEPT !.terms = TRUE, !.zenbull = @ \/ c.bull]
        /\ calls' = IF c.of = Nobody THEN BagRemove(calls, c)
                    ELSE Replace(c, [c EXCEPT !.kind = "checkSelected", !.stage = "sent"])
  BY DEF WalletSelected
<1>2. c \in Requests /\ (c.closed => c.kind = "update")
  BY DEF SessionInv, RequestsFit, WellFormed
<1> DEFINE d == [c EXCEPT !.kind = "checkSelected", !.stage = "sent"]
<1>3. d \in Requests /\ d.of = c.of /\ ~ d.closed
  BY <1>1, <1>2 DEF Requests
<1> HIDE DEF d
<1>4. WellFormed(DOMAIN calls') /\ DOMAIN calls \subseteq DOMAIN calls' \cup {c}
  <2>1. CASE c.of = Nobody
    BY <1>1, <2>1, Removed, SmallerFits DEF SessionInv
  <2>2. CASE c.of # Nobody
    <3>1. c.of \in Accounts
      BY <1>2, <2>2 DEF Requests, Someone
    <3>2. calls' = Replace(c, d)
      BY <1>1, <2>2 DEF d
    <3>3. DOMAIN calls' \subseteq DOMAIN calls \cup {d} /\ DOMAIN calls \subseteq DOMAIN calls' \cup {c}
      BY <3>2, Replaced
    <3> QED BY <1>3, <3>1, <3>3 DEF SessionInv, RequestsFit, WellFormed
  <2> QED BY <2>1, <2>2
<1>5. storage' \in [terms : BOOLEAN, zenbull : BOOLEAN, selectedWallet : BOOLEAN]
  <2>1. (storage.zenbull \/ c.bull) \in BOOLEAN
    OBVIOUS
  <2> QED BY <1>1, <2>1 DEF SessionInv, SessionTypes
<1>6. SessionTypes'
  BY <1>5 DEF SessionInv, SessionTypes, WalletSelected
<1> QED BY <1>1, <1>4, <1>6, OthersMove DEF WalletSelected

(* Who is disconnected is nobody, about whom nothing is claimed. *)
LEMMA NobodyThere ==
  ASSUME tab'.onboard = Nobody, tab'.address = Nobody, SessionTypes', WellFormed(DOMAIN calls')
  PROVE  SessionInv'
BY DEF SessionInv, RequestsFit, CheckIsComing, BlockIsComing

LEMMA DisconnectedTab ==
  ASSUME NEW t \in Tabs
  PROVE  Disconnected(t) \in Tabs /\ Disconnected(t).onboard = Nobody /\ Disconnected(t).address = Nobody
BY DEF Disconnected, Tabs, Someone

LEMMA disconnectWalletKeeps == ASSUME SessionInv, disconnectWallet PROVE SessionInv'
<1> DEFINE t == Disconnected(tab)
<1>1. t \in Tabs /\ t.onboard = Nobody /\ t.address = Nobody
  BY DisconnectedTab DEF SessionInv, SessionTypes
<1> HIDE DEF t
<1>2. Render(t, calls)
  BY DEF disconnectWallet, t
<1>3. tab' = t /\ WellFormed(DOMAIN calls')
  BY <1>1, <1>2, Rendered DEF SessionInv, RequestsFit
<1>4. SessionTypes'
  BY <1>1, <1>3, EventTypes DEF SessionInv, SessionTypes, disconnectWallet
<1> QED BY <1>1, <1>3, <1>4, NobodyThere

(* The requests under way stay, and so does what they are about. *)
LEMMA MoreRequests ==
  ASSUME SessionInv, SessionTypes', WellFormed(DOMAIN calls'), DOMAIN calls \subseteq DOMAIN calls',
         tab'.onboard = tab.onboard, tab'.address = tab.address, tab'.blocked = tab.blocked,
         server'.strikes = server.strikes, past'.missed = past.missed, past'.apart = past.apart
  PROVE  SessionInv'
<1>1. CheckIsComing'
  BY DEF SessionInv, CheckIsComing
<1>2. BlockIsComing'
  BY DEF SessionInv, BlockIsComing
<1> QED BY <1>1, <1>2 DEF SessionInv, RequestsFit

LEMMA GoKeeps == ASSUME SessionInv, Go PROVE SessionInv'
<1>1. PICK path \in {"legal", "bull", "other"} :
        LET moved == [tab EXCEPT !.path = path]
            leaves == isZenbullPage(moved) /\ ~ storage.zenbull IN
        /\ calls' = calls (+) AskedBy(moved)
        /\ tab' = IF leaves THEN Disconnected(moved) ELSE moved
        /\ wallet' = [wallet EXCEPT !.attached = @ /\ ~ leaves]
  BY DEF Go
<1> DEFINE moved == [tab EXCEPT !.path = path]
           leaves == isZenbullPage(moved) /\ ~ storage.zenbull
<1>2. moved \in Tabs /\ moved.onboard = tab.onboard /\ moved.address = tab.address /\ moved.blocked = tab.blocked
  BY DEF SessionInv, SessionTypes, Tabs
<1>3. leaves \in BOOLEAN
  OBVIOUS
<1>4. /\ calls' = calls (+) AskedBy(moved)
      /\ tab' = IF leaves THEN Disconnected(moved) ELSE moved
      /\ wallet' = [wallet EXCEPT !.attached = @ /\ ~ leaves]
  BY <1>1
<1> HIDE DEF moved, leaves
<1>5. DOMAIN calls' = DOMAIN calls \cup DOMAIN AskedBy(moved)
  BY <1>4, Joined
<1>6. WellFormed(DOMAIN calls')
  BY <1>2, <1>5, QuestionsFit DEF SessionInv, RequestsFit, WellFormed
<1>7. wallet' \in [account : Accounts, attached : BOOLEAN]
  <2>1. (wallet.attached /\ ~ leaves) \in BOOLEAN
    OBVIOUS
  <2> QED BY <1>4, <2>1 DEF SessionInv, SessionTypes
<1>8. tab' \in Tabs
  BY <1>2, <1>4, DisconnectedTab
<1>9. SessionTypes'
  BY <1>7, <1>8, EventTypes DEF SessionInv, SessionTypes, Go
<1>10. CASE leaves
  BY <1>2, <1>4, <1>6, <1>9, <1>10, DisconnectedTab, NobodyThere
<1>11. CASE ~ leaves
  <2>1. tab' = moved /\ DOMAIN calls \subseteq DOMAIN calls'
    BY <1>4, <1>5, <1>11
  <2>2. server' = server /\ past'.missed = past.missed /\ past'.apart = past.apart
    BY EventTypes DEF Go, SessionInv
  <2> QED BY <1>2, <1>6, <1>9, <2>1, <2>2, MoreRequests
<1> QED BY <1>10, <1>11

LEMMA onNetworkChangeKeeps == ASSUME SessionInv, onNetworkChange PROVE SessionInv'
<1> DEFINE t == [tab EXCEPT !.mainnet = ~ @]
<1>1. t \in Tabs /\ t.onboard = tab.onboard /\ t.address = tab.address /\ t.blocked = tab.blocked
  BY DEF SessionInv, SessionTypes, Tabs
<1> HIDE DEF t
<1>2. Render(t, calls)
  BY DEF onNetworkChange, t
<1>3. tab' = t /\ WellFormed(DOMAIN calls') /\ DOMAIN calls \subseteq DOMAIN calls'
  BY <1>1, <1>2, Rendered DEF SessionInv, RequestsFit
<1>4. wallet' \in [account : Accounts, attached : BOOLEAN]
  BY DEF SessionInv, SessionTypes, onNetworkChange
<1>5. SessionTypes'
  BY <1>1, <1>3, <1>4, EventTypes DEF SessionInv, SessionTypes, onNetworkChange
<1>6. server' = server /\ past'.missed = past.missed /\ past'.apart = past.apart
  BY EventTypes DEF onNetworkChange, SessionInv
<1> QED BY <1>1, <1>3, <1>5, <1>6, MoreRequests

(* What is kept of the requests when the page is closed. *)
LEMMA KeptClosed ==
  ASSUME SessionInv, Reload
  PROVE  WellFormed(DOMAIN calls')
<1> DEFINE Closed(c) == [c EXCEPT !.closed = TRUE]
           updates == {c \in DOMAIN calls : c.kind = "update"}
<1>1. DOMAIN calls' = {Closed(c) : c \in updates}
  BY DEF Reload, BagOfAll, BagToSet, Restrict
<1>2. \A c \in updates : Closed(c) \in Requests /\ Closed(c).kind = "update" /\ Closed(c).of = c.of /\ c.of \in Accounts
  BY DEF SessionInv, RequestsFit, WellFormed, Requests
<1> HIDE DEF Closed, updates
<1> QED BY <1>1, <1>2 DEF WellFormed

LEMMA ReloadKeeps == ASSUME SessionInv, Reload PROVE SessionInv'
<1>1. PICK path \in {"legal", "bull", "other"}, found \in isVPN :
        /\ tab' = IF server.blockedIp \/ found THEN Entered("blocked", FALSE) ELSE Entered(path, server.blockedPlace)
        /\ server' = [server EXCEPT !.blockedIp = @ \/ found]
  BY DEF Reload
<1>2. \A p \in {"legal", "bull", "other", "blocked"}, place \in BOOLEAN :
        Entered(p, place) \in Tabs /\ Entered(p, place).onboard = Nobody /\ Entered(p, place).address = Nobody
  BY DEF Entered, Tabs, Someone
<1>3. server.blockedPlace \in BOOLEAN
  BY DEF SessionInv, SessionTypes
<1>4. tab' \in Tabs /\ tab'.onboard = Nobody /\ tab'.address = Nobody
  BY <1>1, <1>2, <1>3
<1>5. (server.blockedIp \/ found) \in BOOLEAN
  OBVIOUS
<1>6. server' \in [strikes : [Accounts -> Nat], blockedIp : BOOLEAN, blockedPlace : BOOLEAN]
  BY <1>1, <1>5 DEF SessionInv, SessionTypes
<1>7. wallet' \in [account : Accounts, attached : BOOLEAN]
  BY DEF SessionInv, SessionTypes, Reload
<1>8. SessionTypes'
  BY <1>4, <1>6, <1>7, EventTypes DEF SessionInv, SessionTypes, Reload
<1> QED BY <1>4, <1>8, KeptClosed, NobodyThere

LEMMA ThirtyDaysPassKeeps == ASSUME SessionInv, ThirtyDaysPass PROVE SessionInv'
<1>1. server' \in [strikes : [Accounts -> Nat], blockedIp : BOOLEAN, blockedPlace : BOOLEAN] /\ server'.strikes = server.strikes
  BY DEF SessionInv, SessionTypes, ThirtyDaysPass
<1>2. SessionTypes'
  BY <1>1 DEF SessionInv, SessionTypes, ThirtyDaysPass
<1>3. WellFormed(DOMAIN calls') /\ DOMAIN calls \subseteq DOMAIN calls'
  BY DEF SessionInv, RequestsFit, ThirtyDaysPass
<1> QED BY <1>1, <1>2, <1>3, MoreRequests DEF ThirtyDaysPass

-----------------------------------------------------------------------------
(* The services *)

(* A check ends: strikes under way stay. *)
LEMMA BlockStillComing ==
  ASSUME SessionInv, NEW c, c.kind \notin {"update", "strikes"},
         DOMAIN calls \subseteq DOMAIN calls' \cup {c},
         tab'.onboard = tab.onboard, tab'.blocked = tab.blocked, server' = server, past'.missed = past.missed
  PROVE  BlockIsComing'
<1>1. \A d \in DOMAIN calls : d.kind \in {"update", "strikes"} => d \in DOMAIN calls'
  OBVIOUS
<1> QED BY <1>1 DEF SessionInv, BlockIsComing, WillTell

(* The account a check was about is connected. *)
LEMMA Connected ==
  ASSUME SessionInv, NEW c \in DOMAIN calls, c.kind \in {"check", "checkSelected"},
         connectWallet(c.of, BagRemove(calls, c)), UNCHANGED <<wallet, storage, server>>
  PROVE  SessionInv'
<1> DEFINE t == [tab EXCEPT !.address = c.of]
<1>1. c.of \in Accounts
  BY DEF SessionInv, RequestsFit, WellFormed
<1>2. t \in Tabs /\ t.onboard = tab.onboard /\ t.address = c.of /\ t.blocked = tab.blocked
  BY <1>1 DEF SessionInv, SessionTypes, Tabs, Someone
<1> HIDE DEF t
<1>3. Render(t, BagRemove(calls, c))
  BY DEF connectWallet, t
<1>4. WellFormed(DOMAIN BagRemove(calls, c)) /\ DOMAIN calls \subseteq DOMAIN BagRemove(calls, c) \cup {c}
  BY SmallerFits, Removed DEF SessionInv
<1>5. tab' = t /\ WellFormed(DOMAIN calls') /\ DOMAIN BagRemove(calls, c) \subseteq DOMAIN calls'
  BY <1>2, <1>3, <1>4, Rendered
<1>6. /\ past' \in [events : Nat, missed : SUBSET Accounts, apart : {"no", "late", "unasked", "failed"}]
      /\ past'.missed = past.missed /\ past'.apart = IF c.of = tab.onboard THEN "no" ELSE "late"
  BY DEF connectWallet, SessionInv, SessionTypes
<1>7. SessionTypes'
  BY <1>2, <1>5, <1>6 DEF SessionInv, SessionTypes
<1>8. CheckIsComing'
  BY <1>2, <1>5, <1>6 DEF CheckIsComing
<1>9. DOMAIN calls \subseteq DOMAIN calls' \cup {c}
  BY <1>4, <1>5
<1>10. BlockIsComing'
  BY <1>2, <1>5, <1>6, <1>9, BlockStillComing
<1> QED BY <1>5, <1>7, <1>8, <1>10 DEF SessionInv, RequestsFit

(* The account a check was about is a risk. *)
LEMMA Refused ==
  ASSUME SessionInv, NEW c \in DOMAIN calls, c.kind \in {"check", "checkSelected"}, c.kind = "check" => c.of \in Risky,
         NEW t \in Tabs, t.onboard = tab.onboard, t.address = tab.address, t.blocked = tab.blocked,
         Render(t, BagRemove(calls, c)), UNCHANGED <<wallet, storage, server, past>>
  PROVE  SessionInv'
<1>1. WellFormed(DOMAIN BagRemove(calls, c)) /\ DOMAIN calls \subseteq DOMAIN BagRemove(calls, c) \cup {c}
  BY SmallerFits, Removed DEF SessionInv
<1>2. tab' = t /\ WellFormed(DOMAIN calls') /\ DOMAIN BagRemove(calls, c) \subseteq DOMAIN calls'
  BY <1>1, Rendered
<1>3. DOMAIN calls \subseteq DOMAIN calls' \cup {c}
  BY <1>1, <1>2
<1>4. SessionTypes'
  BY <1>2 DEF SessionInv, SessionTypes
<1>5. CheckIsComing'
  BY <1>2, <1>3 DEF SessionInv, CheckIsComing
<1>6. BlockIsComing'
  BY <1>2, <1>3, BlockStillComing
<1> QED BY <1>2, <1>4, <1>5, <1>6 DEF SessionInv, RequestsFit

LEMMA CheckAnsweredKeeps == ASSUME SessionInv, CheckAnswered PROVE SessionInv'
<1>0. PICK c \in DOMAIN calls : c.kind = "check" /\ \E valid \in isValidAddress(c.of) :
           \/ /\ valid /\ storage.terms /\ (c.bull => storage.zenbull)
              /\ connectWallet(c.of, BagRemove(calls, c))
           \/ /\ valid /\ ~ (storage.terms /\ (c.bull => storage.zenbull))
              /\ calls' = BagRemove(calls, c)
              /\ past' = [past EXCEPT !.apart = "unasked"]
              /\ UNCHANGED tab
           \/ /\ ~ valid
              /\ Render([tab EXCEPT !.firstAddressCheck = FALSE, !.walletFail = @ \/ ~ tab.firstAddressCheck], BagRemove(calls, c))
              /\ UNCHANGED past
  BY DEF CheckAnswered
<1>1. PICK valid \in isValidAddress(c.of) :
           \/ /\ valid /\ storage.terms /\ (c.bull => storage.zenbull)
              /\ connectWallet(c.of, BagRemove(calls, c))
           \/ /\ valid /\ ~ (storage.terms /\ (c.bull => storage.zenbull))
              /\ calls' = BagRemove(calls, c)
              /\ past' = [past EXCEPT !.apart = "unasked"]
              /\ UNCHANGED tab
           \/ /\ ~ valid
              /\ Render([tab EXCEPT !.firstAddressCheck = FALSE, !.walletFail = @ \/ ~ tab.firstAddressCheck], BagRemove(calls, c))
              /\ UNCHANGED past
  BY <1>0
<1>2. UNCHANGED <<wallet, storage, server>>
  BY DEF CheckAnswered
<1>3. CASE connectWallet(c.of, BagRemove(calls, c))
  BY <1>0, <1>2, <1>3, Connected
<1>4. CASE calls' = BagRemove(calls, c) /\ past' = [past EXCEPT !.apart = "unasked"] /\ UNCHANGED tab
  <2>1. WellFormed(DOMAIN calls') /\ DOMAIN calls \subseteq DOMAIN calls' \cup {c}
    BY <1>4, SmallerFits, Removed DEF SessionInv
  <2>2. /\ past' \in [events : Nat, missed : SUBSET Accounts, apart : {"no", "late", "unasked", "failed"}]
        /\ past'.missed = past.missed /\ past'.apart = "unasked"
    BY <1>4 DEF SessionInv, SessionTypes
  <2>3. SessionTypes'
    BY <1>2, <1>4, <2>2 DEF SessionInv, SessionTypes
  <2>4. BlockIsComing'
    BY <1>0, <1>2, <1>4, <2>1, <2>2, BlockStillComing
  <2> QED BY <2>1, <2>2, <2>3, <2>4 DEF SessionInv, RequestsFit, CheckIsComing
<1>5. CASE ~ valid /\ UNCHANGED past /\ Render([tab EXCEPT !.firstAddressCheck = FALSE, !.walletFail = @ \/ ~ tab.firstAddressCheck], BagRemove(calls, c))
  <2> DEFINE t == [tab EXCEPT !.firstAddressCheck = FALSE, !.walletFail = @ \/ ~ tab.firstAddressCheck]
  <2>1. (tab.walletFail \/ ~ tab.firstAddressCheck) \in BOOLEAN
    OBVIOUS
  <2>2. t \in Tabs /\ t.onboard = tab.onboard /\ t.address = tab.address /\ t.blocked = tab.blocked
    BY <2>1 DEF SessionInv, SessionTypes, Tabs
  <2>3. Render(t, BagRemove(calls, c))
    BY <1>5
  <2> HIDE DEF t
  <2>4. c.of \in Risky
    BY <1>1, <1>5 DEF isValidAddress
  <2> QED BY <1>0, <1>2, <1>5, <2>2, <2>3, <2>4, Refused
<1> QED BY <1>1, <1>3, <1>4, <1>5

LEMMA CheckSelectedAnsweredKeeps == ASSUME SessionInv, CheckSelectedAnswered PROVE SessionInv'
<1>1. PICK c \in DOMAIN calls : c.kind = "checkSelected" /\ \E valid \in isValidAddress(c.of) :
           \/ valid /\ connectWallet(c.of, BagRemove(calls, c))
           \/ ~ valid /\ Render([tab EXCEPT !.walletFail = TRUE], BagRemove(calls, c)) /\ UNCHANGED past
  BY DEF CheckSelectedAnswered
<1>2. UNCHANGED <<wallet, storage, server>>
  BY DEF CheckSelectedAnswered
<1>3. CASE connectWallet(c.of, BagRemove(calls, c))
  BY <1>1, <1>2, <1>3, Connected
<1>4. CASE UNCHANGED past /\ Render([tab EXCEPT !.walletFail = TRUE], BagRemove(calls, c))
  <2> DEFINE t == [tab EXCEPT !.walletFail = TRUE]
  <2>1. t \in Tabs /\ t.onboard = tab.onboard /\ t.address = tab.address /\ t.blocked = tab.blocked
    BY DEF SessionInv, SessionTypes, Tabs
  <2>2. Render(t, BagRemove(calls, c))
    BY <1>4
  <2> HIDE DEF t
  <2> QED BY <1>1, <1>2, <1>4, <2>1, <2>2, Refused
<1> QED BY <1>1, <1>3, <1>4

LEMMA CheckFailsKeeps == ASSUME SessionInv, CheckFails PROVE SessionInv'
<1>1. PICK c \in DOMAIN calls :
        /\ c.kind \in {"check", "checkSelected"} /\ calls' = BagRemove(calls, c)
        /\ past' = IF c.of = tab.onboard THEN [past EXCEPT !.apart = "failed"] ELSE past
  BY DEF CheckFails
<1>2. UNCHANGED <<wallet, storage, tab, server>>
  BY DEF CheckFails
<1>3. WellFormed(DOMAIN calls') /\ DOMAIN calls \subseteq DOMAIN calls' \cup {c}
  BY <1>1, SmallerFits, Removed DEF SessionInv
<1>4. /\ past' \in [events : Nat, missed : SUBSET Accounts, apart : {"no", "late", "unasked", "failed"}]
      /\ past'.missed = past.missed /\ past'.apart = IF c.of = tab.onboard THEN "failed" ELSE past.apart
  BY <1>1 DEF SessionInv, SessionTypes
<1>5. SessionTypes'
  BY <1>2, <1>4 DEF SessionInv, SessionTypes
<1>6. CheckIsComing'
  BY <1>2, <1>3, <1>4 DEF SessionInv, CheckIsComing
<1>7. BlockIsComing'
  BY <1>1, <1>2, <1>3, <1>4, BlockStillComing
<1> QED BY <1>3, <1>5, <1>6, <1>7 DEF SessionInv, RequestsFit

(* A request about strikes moves on or ends: the checks under way stay. *)
LEMMA CheckStillComing ==
  ASSUME SessionInv, NEW c, c.kind \in {"update", "strikes"},
         DOMAIN calls \subseteq DOMAIN calls' \cup {c},
         tab'.onboard = tab.onboard, tab'.address = tab.address, past'.apart = past.apart
  PROVE  CheckIsComing'
<1>1. \A d \in DOMAIN calls : d.kind = "check" => d \in DOMAIN calls'
  OBVIOUS
<1> QED BY <1>1 DEF SessionInv, CheckIsComing

(* Three strikes read by a page that was not closed are told to it. *)
LEMMA ReadStrikesKeeps == ASSUME SessionInv, ReadStrikes PROVE SessionInv'
<1>1. PICK c \in DOMAIN calls :
        /\ c.kind \in {"update", "strikes"} /\ c.stage = "sent"
        /\ calls' = Replace(c, [c EXCEPT !.stage = "read", !.got = server.strikes[c.of]])
        /\ past' = IF c.kind = "strikes" THEN [past EXCEPT !.missed = @ \ {c.of}] ELSE past
  BY DEF ReadStrikes
<1> DEFINE d == [c EXCEPT !.stage = "read", !.got = server.strikes[c.of]]
<1>2. c \in Requests /\ c.of \in Accounts /\ (c.closed => c.kind = "update")
  BY <1>1 DEF SessionInv, RequestsFit, WellFormed
<1>3. server.strikes[c.of] \in Nat
  BY <1>2 DEF SessionInv, SessionTypes
<1>4. d \in Requests /\ d.of = c.of /\ d.kind = c.kind /\ d.closed = c.closed /\ d.stage = "read" /\ d.got = server.strikes[c.of]
  BY <1>2, <1>3 DEF Requests
<1>5. calls' = Replace(c, d)
  BY <1>1
<1> HIDE DEF d
<1>6. d \in DOMAIN calls' /\ DOMAIN calls' \subseteq DOMAIN calls \cup {d} /\ DOMAIN calls \subseteq DOMAIN calls' \cup {c}
  BY <1>5, Replaced
<1>7. RequestsFit'
  BY <1>2, <1>4, <1>6 DEF SessionInv, RequestsFit, WellFormed
<1>8. /\ past' \in [events : Nat, missed : SUBSET Accounts, apart : {"no", "late", "unasked", "failed"}]
      /\ past'.apart = past.apart
      /\ past'.missed = IF c.kind = "strikes" THEN past.missed \ {c.of} ELSE past.missed
  BY <1>1 DEF SessionInv, SessionTypes
<1>9. UNCHANGED <<wallet, storage, tab, server>>
  BY DEF ReadStrikes
<1>10. SessionTypes'
  BY <1>8, <1>9 DEF SessionInv, SessionTypes
<1>11. CheckIsComing'
  BY <1>1, <1>6, <1>8, <1>9, CheckStillComing
<1>12. BlockIsComing'
  <2> DEFINE o == tab.onboard
  <2> SUFFICES ASSUME o # Nobody, o \notin past'.missed, server.strikes[o] >= 3, ~ tab.blocked
               PROVE  \E e \in DOMAIN calls' : WillTell(e, o)
    BY <1>9 DEF BlockIsComing
  <2>1. CASE c.of = o /\ ~ c.closed
    BY <1>1, <1>4, <1>6, <2>1 DEF WillTell
  <2>2. CASE ~ (c.of = o /\ ~ c.closed)
    <3>1. o \notin past.missed
      BY <1>1, <1>2, <1>8, <2>2
    <3>2. PICK e \in DOMAIN calls : WillTell(e, o)
      BY <3>1 DEF SessionInv, BlockIsComing
    <3>3. e # c
      BY <2>2, <3>2 DEF WillTell
    <3> QED BY <1>6, <3>2, <3>3
  <2> QED BY <2>1, <2>2
<1> QED BY <1>7, <1>10, <1>11, <1>12 DEF SessionInv

(* Whoever writes the third strike tells its page, unless that one is closed. *)
LEMMA updateBlockedAddressKeeps == ASSUME SessionInv, updateBlockedAddress PROVE SessionInv'
<1>1. PICK c \in DOMAIN calls :
        /\ c.kind = "update" /\ c.stage = "read"
        /\ server' = [server EXCEPT !.strikes[c.of] = c.got + 1]
        /\ calls' = Replace(c, [c EXCEPT !.stage = "written", !.got = @ + 1])
        /\ past' = IF c.closed THEN [past EXCEPT !.missed = @ \cup {c.of}] ELSE past
  BY DEF updateBlockedAddress
<1> DEFINE d == [c EXCEPT !.stage = "written", !.got = @ + 1]
<1>2. c \in Requests /\ c.of \in Accounts
  BY <1>1 DEF SessionInv, RequestsFit, WellFormed
<1>3. c.got + 1 \in Nat
  BY <1>2 DEF Requests
<1>4. d \in Requests /\ d.of = c.of /\ d.kind = "update" /\ d.closed = c.closed /\ d.got = c.got + 1
  BY <1>1, <1>2, <1>3 DEF Requests
<1>5. calls' = Replace(c, d)
  BY <1>1
<1> HIDE DEF d
<1>6. d \in DOMAIN calls' /\ DOMAIN calls' \subseteq DOMAIN calls \cup {d} /\ DOMAIN calls \subseteq DOMAIN calls' \cup {c}
  BY <1>5, Replaced
<1>7. RequestsFit'
  BY <1>2, <1>4, <1>6 DEF SessionInv, RequestsFit, WellFormed
<1>8. /\ past' \in [events : Nat, missed : SUBSET Accounts, apart : {"no", "late", "unasked", "failed"}]
      /\ past'.apart = past.apart
      /\ past'.missed = IF c.closed THEN past.missed \cup {c.of} ELSE past.missed
  BY <1>1, <1>2 DEF SessionInv, SessionTypes
<1>9. /\ server' \in [strikes : [Accounts -> Nat], blockedIp : BOOLEAN, blockedPlace : BOOLEAN]
      /\ server'.strikes = [server.strikes EXCEPT ![c.of] = c.got + 1]
  <2>1. server \in [strikes : [Accounts -> Nat], blockedIp : BOOLEAN, blockedPlace : BOOLEAN]
    BY DEF SessionInv, SessionTypes
  <2>2. [server.strikes EXCEPT ![c.of] = c.got + 1] \in [Accounts -> Nat]
    BY <1>3, <2>1
  <2> QED BY <1>1, <2>1, <2>2
<1>10. UNCHANGED <<wallet, storage, tab>>
  BY DEF updateBlockedAddress
<1>11. SessionTypes'
  BY <1>8, <1>9, <1>10 DEF SessionInv, SessionTypes
<1>12. CheckIsComing'
  BY <1>1, <1>6, <1>8, <1>10, CheckStillComing
<1>13. BlockIsComing'
  <2> DEFINE o == tab.onboard
  <2> SUFFICES ASSUME o # Nobody, o \notin past'.missed, server'.strikes[o] >= 3, ~ tab.blocked
               PROVE  \E e \in DOMAIN calls' : WillTell(e, o)
    BY <1>10 DEF BlockIsComing
  <2>1. CASE c.of = o
    <3>1. ~ c.closed
      BY <1>8, <2>1
    <3>2. d.got >= 3
      <4>1. server.strikes \in [Accounts -> Nat]
        BY DEF SessionInv, SessionTypes
      <4> QED BY <1>2, <1>4, <1>9, <2>1, <4>1
    <3> QED BY <1>4, <1>6, <2>1, <3>1, <3>2 DEF WillTell
  <2>2. CASE c.of # o
    <3>1. o \in Accounts
      BY DEF SessionInv, SessionTypes, Tabs, Someone
    <3>2. o \notin past.missed /\ server.strikes[o] >= 3
      <4>1. server.strikes \in [Accounts -> Nat]
        BY DEF SessionInv, SessionTypes
      <4> QED BY <1>8, <1>9, <2>2, <3>1, <4>1
    <3>3. PICK e \in DOMAIN calls : WillTell(e, o)
      BY <3>2 DEF SessionInv, BlockIsComing
    <3> QED BY <1>6, <2>2, <3>3 DEF WillTell
  <2> QED BY <2>1, <2>2
<1> QED BY <1>7, <1>11, <1>12, <1>13 DEF SessionInv

LEMMA StrikesAnsweredKeeps == ASSUME SessionInv, StrikesAnswered PROVE SessionInv'
<1>1. PICK c \in DOMAIN calls :
        /\ Counted(c)
        /\ IF c.closed THEN tab' = tab /\ calls' = BagRemove(calls, c) ELSE Render(withStrikes(c), BagRemove(calls, c))
  BY DEF StrikesAnswered
<1> DEFINE others == BagRemove(calls, c)
<1>2. UNCHANGED <<wallet, storage, server, past>>
  BY DEF StrikesAnswered
<1>3. c.kind \in {"update", "strikes"} /\ c.stage # "sent" /\ ~ (c.kind = "update" /\ c.stage = "read")
  BY <1>1 DEF Counted
<1>4. WellFormed(DOMAIN others) /\ DOMAIN calls \subseteq DOMAIN others \cup {c}
  BY SmallerFits, Removed DEF SessionInv
<1>5. c \in Requests
  BY DEF SessionInv, RequestsFit, WellFormed
<1>6. CASE c.closed
  <2>1. tab' = tab /\ calls' = others
    BY <1>1, <1>6
  <2> HIDE DEF others
  <2>2. SessionTypes'
    BY <1>2, <2>1 DEF SessionInv, SessionTypes
  <2>3. CheckIsComing'
    BY <1>2, <1>3, <1>4, <2>1, CheckStillComing
  <2>4. BlockIsComing'
    BY <1>2, <1>4, <1>6, <2>1 DEF SessionInv, BlockIsComing, WillTell
  <2> QED BY <1>4, <2>1, <2>2, <2>3, <2>4 DEF SessionInv, RequestsFit
<1>7. CASE ~ c.closed
  <2> DEFINE t == withStrikes(c)
  <2>1. Render(t, others)
    BY <1>1, <1>7
  <2>2. (tab.blocked \/ c.got >= 3) \in BOOLEAN /\ (tab.countModal \/ c.kind = "update") \in BOOLEAN
    OBVIOUS
  <2>3. t \in Tabs /\ t.onboard = tab.onboard /\ t.address = tab.address /\ t.blocked = (tab.blocked \/ c.got >= 3)
    BY <1>5, <2>2 DEF withStrikes, SessionInv, SessionTypes, Tabs, Requests
  <2> HIDE DEF t, others
  <2>4. tab' = t /\ WellFormed(DOMAIN calls') /\ DOMAIN others \subseteq DOMAIN calls'
    BY <1>4, <2>1, <2>3, Rendered
  <2>5. DOMAIN calls \subseteq DOMAIN calls' \cup {c}
    BY <1>4, <2>4
  <2>6. SessionTypes'
    BY <1>2, <2>3, <2>4 DEF SessionInv, SessionTypes
  <2>7. CheckIsComing'
    BY <1>2, <1>3, <2>3, <2>4, <2>5, CheckStillComing
  <2>8. BlockIsComing'
    <3> SUFFICES ASSUME tab.onboard # Nobody, tab.onboard \notin past.missed, server.strikes[tab.onboard] >= 3, ~ t.blocked
                 PROVE  \E e \in DOMAIN calls' : WillTell(e, tab.onboard)
      BY <1>2, <2>3, <2>4 DEF BlockIsComing
    <3>1. ~ tab.blocked /\ ~ c.got >= 3
      BY <2>3
    <3>2. PICK e \in DOMAIN calls : WillTell(e, tab.onboard)
      BY <3>1 DEF SessionInv, BlockIsComing
    <3>3. e # c
      BY <1>3, <3>1, <3>2 DEF WillTell
    <3> QED BY <2>5, <3>2, <3>3
  <2> QED BY <2>4, <2>6, <2>7, <2>8 DEF SessionInv, RequestsFit
<1> QED BY <1>6, <1>7

LEMMA StrikesFailKeeps == ASSUME SessionInv, StrikesFail PROVE SessionInv'
<1>1. PICK c \in DOMAIN calls :
        /\ c.kind \in {"update", "strikes"}
        /\ calls' = BagRemove(calls, c)
        /\ past' = [past EXCEPT !.missed = @ \cup {c.of}]
  BY DEF StrikesFail
<1>2. UNCHANGED <<wallet, storage, tab, server>>
  BY DEF StrikesFail
<1>3. WellFormed(DOMAIN calls') /\ DOMAIN calls \subseteq DOMAIN calls' \cup {c}
  BY <1>1, SmallerFits, Removed DEF SessionInv
<1>4. c.of \in Accounts
  BY <1>1 DEF SessionInv, RequestsFit, WellFormed
<1>5. /\ past' \in [events : Nat, missed : SUBSET Accounts, apart : {"no", "late", "unasked", "failed"}]
      /\ past'.apart = past.apart /\ past'.missed = past.missed \cup {c.of}
  BY <1>1, <1>4 DEF SessionInv, SessionTypes
<1>6. SessionTypes'
  BY <1>2, <1>5 DEF SessionInv, SessionTypes
<1>7. CheckIsComing'
  BY <1>1, <1>2, <1>3, <1>5, CheckStillComing
<1>8. BlockIsComing'
  BY <1>2, <1>3, <1>5 DEF SessionInv, BlockIsComing, WillTell
<1> QED BY <1>3, <1>6, <1>7, <1>8 DEF SessionInv, RequestsFit

-----------------------------------------------------------------------------
(* The warnings say nothing about who uses the application. *)
LEMMA WarningsKeep == ASSUME SessionInv, TimerFires \/ CloseModal \/ CloseFailModal PROVE SessionInv'
<1>1. UNCHANGED <<wallet, storage, calls, server, past>>
  BY DEF TimerFires, CloseModal, CloseFailModal
<1>2. tab' \in Tabs /\ tab'.onboard = tab.onboard /\ tab'.address = tab.address /\ tab'.blocked = tab.blocked
  <2>1. tab \in Tabs
    BY DEF SessionInv, SessionTypes
  <2>2. CASE TimerFires
    BY <2>1, <2>2 DEF TimerFires, Tabs
  <2>3. CASE CloseModal
    <3>1. (tab.countModal /\ tab.address = Nobody) \in BOOLEAN
      OBVIOUS
    <3> QED BY <2>1, <2>3, <3>1 DEF CloseModal, Tabs
  <2>4. CASE CloseFailModal
    BY <2>1, <2>4 DEF CloseFailModal, Tabs
  <2> QED BY <2>2, <2>3, <2>4
<1>3. SessionTypes'
  BY <1>1, <1>2 DEF SessionInv, SessionTypes
<1>4. WellFormed(DOMAIN calls') /\ DOMAIN calls \subseteq DOMAIN calls'
  BY <1>1 DEF SessionInv, RequestsFit
<1> QED BY <1>1, <1>2, <1>3, <1>4, MoreRequests

LEMMA StepKeeps == ASSUME SessionInv, [SessionNext]_sessionVars PROVE SessionInv'
<1>1. CASE UNCHANGED sessionVars
  BY <1>1 DEF sessionVars, SessionInv, SessionTypes, RequestsFit, WellFormed, CheckIsComing, BlockIsComing, WillTell
<1>2. CASE SessionNext
  BY <1>2, WalletSwitchesKeeps, WalletTellsKeeps, onWalletSelectKeeps, WalletChosenKeeps, NoneChosenKeeps,
     WalletSelectedKeeps, disconnectWalletKeeps, GoKeeps, onNetworkChangeKeeps, ReloadKeeps, ThirtyDaysPassKeeps,
     CheckAnsweredKeeps, CheckSelectedAnsweredKeeps, CheckFailsKeeps, ReadStrikesKeeps, updateBlockedAddressKeeps, StrikesAnsweredKeeps,
     StrikesFailKeeps, WarningsKeep
  DEF SessionNext
<1> QED BY <1>1, <1>2

(* On every page; but for the header's nothing happens to the session. *)
LEMMA SessionInvariant == Spec => []SessionInv
<1>1. Init => SessionInv
  <2> SUFFICES ASSUME Init PROVE SessionInv
    OBVIOUS
  <2>1. CASE SessionInit
    BY <2>1, InitHolds DEF SessionInit
  <2>2. CASE SessionRests
    <3>1. {FirstVisit} \subseteq Returning /\ {CHOOSE a \in Accounts : TRUE} \subseteq Accounts
      BY SessionAssumption DEF Returning
    <3> QED BY <2>2, <3>1, InitHolds DEF SessionRests
  <2> QED BY <2>1, <2>2 DEF Init
<1>2. SessionInv /\ [Next]_vars => SessionInv'
  BY StepKeeps DEF Next, vars
<1> QED BY <1>1, <1>2, PTL DEF Spec

-----------------------------------------------------------------------------
(* The theorems *)

(* However the wallet, the user, the service that checks addresses and the     *)
(* pages interleave (_app.tsx, useOnboard, useSelectWallet): with every        *)
(* question over, another account than the wallet told is shown only where     *)
(* that one is a risk, its check was rejected, or the last answer was too late *)
(* or not asked for.                                                           *)
THEOREM PagesShowTheWalletsAccount == Spec => []AccountIsTheWallets
<1>1. SessionInv => AccountIsTheWallets
  BY NothingUnderWay DEF SessionInv, CheckIsComing, AccountIsTheWallets
<1> QED BY <1>1, SessionInvariant, PTL

(* Although the server reads and writes the strikes in two steps, and the page *)
(* asks for them and adds to them by two effects whose answers come in any     *)
(* order (firebase-admin.ts, _app.tsx), whoever has three is blocked when every *)
(* question was answered and none was lost.                                     *)
THEOREM ThirdStrikeTellsThePage == Spec => []ThreeStrikesBlock
<1>1. SessionInv => ThreeStrikesBlock
  BY NothingUnderWay DEF SessionInv, BlockIsComing, ThreeStrikesBlock
<1> QED BY <1>1, SessionInvariant, PTL
=============================================================================
