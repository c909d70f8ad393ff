------------------------------- MODULE Notice -------------------------------
(***************************************************************************)
(* What a timelock promises whoever watches it: an act is announced, and   *)
(* at least MinimumNotice later it is done, once, or retracted.  Nothing is *)
(* said of who announces, of delays or of what the acts do.                *)
(***************************************************************************)
EXTENDS Integers

CONSTANTS Acts, MinimumNotice

VARIABLES
  announced,   \* acts that are announced
  since,       \* since[a]: when a was announced, 0 if it is not
  done,
  clock

vars == <<announced, since, done, clock>>

Init ==
  /\ announced = {} /\ done = {}
  /\ since = [a \in Acts |-> 0]
  /\ clock \in Nat

(* To announce again starts the notice anew. *)
Announce(a) ==
  /\ a \notin done
  /\ announced' = announced \cup {a}
  /\ since' = [since EXCEPT ![a] = clock]
  /\ UNCHANGED <<done, clock>>

Retract(a) ==
  /\ announced' = announced \ {a}
  /\ since' = [since EXCEPT ![a] = 0]
  /\ UNCHANGED <<done, clock>>

Perform(a) ==
  /\ a \in announced \ done
  /\ clock >= since[a] + MinimumNotice
  /\ announced' = announced \ {a}
  /\ since' = [since EXCEPT ![a] = 0]
  /\ done' = done \cup {a}
  /\ UNCHANGED clock

Pass == clock' \in Nat /\ clock' > clock /\ UNCHANGED <<announced, since, done>>

Next ==
  \/ \E a \in Acts : Announce(a) \/ Retract(a) \/ Perform(a)
  \/ Pass

Spec == Init /\ [][Next]_vars
=============================================================================
