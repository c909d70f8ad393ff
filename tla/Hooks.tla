-------------------------------- MODULE Hooks --------------------------------
(***************************************************************************)
(* The hooks of a page of the web application as a graph of data.  A cell  *)
(* is an atom or a piece of state; what is kept of its value is where it   *)
(* comes from: the set of <<fact, version>> it was computed from, {} while *)
(* it has its initial value.  An effect runs when a cell of its dependency *)
(* array has changed, returns early when a cell it needs is missing, and   *)
(* otherwise asks its questions: each is a chain of requests, and an       *)
(* answer sets cells and starts the next request.  React runs every effect *)
(* that is due before the next answer arrives; answers arrive in any order,*)
(* also those of an earlier run of the same effect.  A request of an effect*)
(* may also be rejected: the answer and what follows it are then missing.  *)
(***************************************************************************)
EXTENDS Naturals, FiniteSets, SequencesExt

CONSTANTS MaxNews,    \* things that happen outside the page in a behaviour
          Busy,       \* pages where only one does
          Lacking     \* what the second account does not have

VARIABLES page,       \* the page that is open
          version,    \* how often each fact has changed
          cell,       \* what every cell was computed from
          seen,       \* the dependencies of each effect when it last ran
          polled,     \* the facts each effect read when it last ran
          jobs,       \* requests without an answer, in the order asked
          late,       \* cells whose last answer was overtaken or is missing
          news        \* how much has happened

hookVars == <<page, version, cell, seen, polled, jobs, late, news>>

Yes == {<<"yes", 0>>}
Never == [c \in {"never"} |-> {}]

\* One request of a chain: the facts it reads, the cells of the closure the
\* answer is computed with, the cells and the flags the answer sets.
Ask(reads, uses, sets, flags) == [reads |-> reads, uses |-> uses, sets |-> sets, flags |-> flags]

\* An effect that runs when a dependency changes, or a fact it polls or
\* subscribes to: needs are the cells without which it returns early.
Effect(deps, polls, needs, chains) ==
  [deps |-> deps, polls |-> polls, needs |-> needs, chains |-> chains,
   begins |-> {},    \* cells emptied whenever it runs
   without |-> {},   \* cells emptied when it returns early
   holds |-> {},     \* <<cell, fact>>: it returns early when there is none of it
   ifHeld |-> {},    \* cells needed besides when the user holds shares
   covers |-> {},    \* <<cell, of>>: it returns early when the one lacks of the other
   asksFirst |-> FALSE, \* what it needs is looked at when its answer comes
   caught |-> {},    \* flags set although the request was rejected
   keyed |-> FALSE,  \* answers to an earlier key go elsewhere
   mounted |-> FALSE]\* answers are dropped once the page was left

\* A value computed in the same render: useMemo, useAppMemo, a derived atom.
Memo(uses, needs, sets) ==
  [Effect(uses, {}, needs, <<<<Ask({}, uses, sets, {})>>>>) EXCEPT !.without = sets]

\* A query of Apollo or react-query: a new key has no data until its answer,
\* and a request that is rejected is made again.
Query(key, polls, needs, reads, sets, flags) ==
  [Effect(key, polls, needs, <<<<Ask(reads, key, sets, flags)>>>>)
     EXCEPT !.keyed = TRUE, !.without = sets \cup flags]

TagsOf(cells) == UNION {cell[c] : c \in cells}
Now(facts) == {<<f, version[f]>> : f \in facts}
Seen(e) == [c \in e.deps |-> cell[c]]

Has(c, fact) == \E tag \in cell[c] : tag[1] = fact

Missing(e) ==
  \/ \E c \in e.needs : cell[c] = {}
  \/ \E p \in e.holds : ~ Has(p[1], p[2])
  \/ \E p \in e.covers : ~ cell[p[2]] \subseteq cell[p[1]]
  \/ e.ifHeld # {} /\ Has("userShares", "held") /\ \E c \in e.ifHeld : cell[c] = {}

\* What an answer says: nothing of the facts the second account lacks.
Told(got, tags) ==
  IF <<"address", 1>> \in tags THEN tags \cup {t \in got : t[1] \notin Lacking} ELSE tags \cup got

Due(es) == {i \in DOMAIN es : seen[i] # Seen(es[i])}

Set(cells, step, tags) ==
  [c \in DOMAIN cells |-> IF c \in step.flags THEN Yes ELSE IF c \in step.sets THEN tags ELSE cells[c]]

\* The requests of a run, with the cells of its closure.  When something is
\* missing the answer empties cells instead, and so it may for who holds shares
\* when what they are worth cannot be told.
Asked(e, i) ==
  LET told(S) == IF Missing(e) THEN {} ELSE S
      emptied == IF Missing(e) THEN e.without ELSE {}
      worthless == IF e.ifHeld # {} /\ Has("userShares", "held") THEN e.without ELSE {}
  IN [k \in DOMAIN e.chains |->
       [id |-> i, chain |-> k, tags |-> {}, got |-> Now(e.chains[k][1].reads), overtaken |-> FALSE,
        steps |-> [s \in DOMAIN e.chains[k] |->
                     [reads |-> e.chains[k][s].reads, tags |-> TagsOf(e.chains[k][s].uses),
                      sets |-> told(e.chains[k][s].sets), flags |-> told(e.chains[k][s].flags),
                      empties |-> emptied, worthless |-> worthless]]]]

\* What is under way already is not told apart from being asked again.
AskedOnce(underWay, new) == SelectSeq(underWay, LAMBDA j : j \notin ToSet(new)) \o new

Pure(e) == Len(e.chains) = 1 /\ Len(e.chains[1]) = 1 /\ e.chains[1][1].reads = {}

\* An effect runs: it returns early, computes at once, or asks.
Run(es, i) ==
  LET e == es[i]
      stops == Missing(e) /\ ~ e.asksFirst
      rekeyed == e.keyed /\ seen[i] # Seen(e)
      begun == e.begins \cup (IF stops \/ rekeyed THEN e.without ELSE {})
      emptied == [c \in DOMAIN cell |-> IF c \in begun THEN {} ELSE cell[c]]
      others == SelectSeq(jobs, LAMBDA j : j.id # i)
      outdated == [k \in DOMAIN jobs |-> IF jobs[k].id = i THEN [jobs[k] EXCEPT !.overtaken = TRUE] ELSE jobs[k]]
      kept == IF rekeyed THEN others ELSE IF stops THEN outdated ELSE jobs
      step == e.chains[1][1]
  IN /\ seen' = [seen EXCEPT ![i] = Seen(e)]
     /\ polled' = [polled EXCEPT ![i] = Now(e.polls)]
     /\ IF stops \/ ~ Pure(e)
        THEN cell' = emptied /\ late' = late \ begun
        ELSE /\ cell' = Set(emptied, step, TagsOf(step.uses))
             /\ late' = late \ step.sets
     /\ jobs' = IF stops \/ Pure(e) THEN kept ELSE AskedOnce(kept, Asked(e, i))
     /\ UNCHANGED <<page, version, news>>

\* The earlier requests of the same chain, now that a later one is over.
Overtaken(i) ==
  LET older(k) == k < i /\ jobs[k].id = jobs[i].id /\ jobs[k].chain = jobs[i].chain
  IN [k \in DOMAIN jobs |-> IF older(k) THEN [jobs[k] EXCEPT !.overtaken = TRUE] ELSE jobs[k]]
Emptied(cells, empty) == [c \in DOMAIN cells |-> IF c \in empty THEN {} ELSE cells[c]]
SetBy(step) == step.sets \cup step.flags \cup step.empties

\* An answer sets its cells and starts the next request of its chain.
Answer(i) ==
  LET j == jobs[i]
      step == Head(j.steps)
      rest == Tail(j.steps)
      tags == Told(j.got, j.tags \cup step.tags)
      next == [j EXCEPT !.steps = rest, !.tags = tags, !.got = Now(Head(rest).reads)]
  IN /\ cell' = Emptied(Set(cell, step, tags), step.empties)
     /\ late' = IF j.overtaken THEN late \cup SetBy(step) ELSE late \ SetBy(step)
     /\ jobs' = IF rest = <<>> THEN RemoveAt(Overtaken(i), i) ELSE [Overtaken(i) EXCEPT ![i] = next]
     /\ UNCHANGED <<page, version, seen, polled, news>>

\* A request of an effect is rejected, or a value that would be below nothing
\* is dropped: what it would have set stays as it is, and an interval asks
\* again.  A value that cannot be told is emptied.
Refuse(es, i) ==
  LET j == jobs[i]
      step == Head(j.steps)
      told == step.flags \cap es[j.id].caught
      unset == UNION {SetBy(s) : s \in ToSet(j.steps)} \ told
  IN /\ ~ es[j.id].keyed /\ step.reads # {}
     /\ news < (IF page \in Busy THEN 1 ELSE MaxNews)
     /\ news' = news + 1
     /\ \E empty \in {{}, step.worthless} :
          /\ cell' = Emptied(Set(cell, [step EXCEPT !.sets = {}, !.flags = told], {}), empty)
          /\ late' = (late \ told) \cup empty \cup (IF j.overtaken THEN {} ELSE unset)
     /\ jobs' = RemoveAt(Overtaken(i), i)
     /\ polled' = [polled EXCEPT ![j.id] = {}]
     /\ UNCHANGED <<page, version, seen>>

\* The interval or the subscription of an effect brings newer facts; a query
\* under way is not asked again.
Outdated(e, i) == ~ Now(e.polls) \subseteq polled[i]
Poll(es, i) ==
  /\ Outdated(es[i], i)
  /\ ~ Missing(es[i])
  /\ es[i].keyed => \A k \in DOMAIN jobs : jobs[k].id # i
  /\ Run(es, i)

\* Something happens on the chain, in the wallet or at the keyboard: inputs
\* are cells that change with it.
News(facts, inputs) ==
  /\ news < (IF page \in Busy THEN 1 ELSE MaxNews)
  /\ news' = news + 1
  /\ version' = [f \in DOMAIN version |-> IF f \in facts THEN version[f] + 1 ELSE version[f]]
  /\ cell' = [c \in DOMAIN cell |-> IF c \in facts \cap inputs THEN {<<c, version[c] + 1>>} ELSE cell[c]]
  /\ UNCHANGED <<page, seen, polled, jobs, late>>

\* The user leaves the page and comes back: its own hooks start anew, the
\* state of its components is gone, atoms stay; answers under way arrive
\* unless they were for that state or the hook looks.
Remount(es, own, state) ==
  /\ news < (IF page \in Busy THEN 1 ELSE MaxNews)
  /\ news' = news + 1
  /\ seen' = [i \in DOMAIN es |-> IF i \in own THEN Never ELSE seen[i]]
  /\ polled' = [i \in DOMAIN es |-> IF i \in own THEN {} ELSE polled[i]]
  /\ jobs' = SelectSeq(jobs, LAMBDA j : j.id \in own => ~ es[j.id].mounted /\ \A s \in ToSet(j.steps) : s.sets \cap state = {})
  /\ cell' = [c \in DOMAIN cell |-> IF c \in state THEN {} ELSE cell[c]]
  /\ UNCHANGED <<page, version, late>>

\* Nothing is left to run, to answer or to poll.
Quiet(es) == jobs = <<>> /\ Due(es) = {} /\ \A i \in DOMAIN es : Missing(es[i]) \/ ~ Outdated(es[i], i)
=============================================================================
