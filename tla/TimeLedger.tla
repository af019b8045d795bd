----------------------------- MODULE TimeLedger -----------------------------
(***************************************************************************)
(* What self time and wait time are: at every reading of the clock, the    *)
(* time since the last one goes to one call tree node of each fiber, the   *)
(* node on top of the fiber's stack. For the fiber that was running it is  *)
(* self time, for the others it is wait time. Nothing else changes them.   *)
(***************************************************************************)
EXTENDS Integers, Sequences

CONSTANTS
  Fibers,
  Nobody      \* no fiber is running as far as the profile knows

VARIABLES
  clock,      \* the last reading
  current,    \* the fiber running since then, or Nobody
  top,        \* the top node of each fiber, 0 without one
  self,       \* the self time of each fiber's nodes
  wait        \* the wait time of each fiber's nodes

ledger == <<clock, current, top, self, wait>>

Init ==
  /\ clock = 0
  /\ current = Nobody
  /\ top = [f \in Fibers |-> 0]
  /\ self = [f \in Fibers |-> <<>>]
  /\ wait = [f \in Fibers |-> <<>>]

Elapsed == clock' - clock

(* The entry of a new node starts with no self time. Its wait time may     *)
(* be one it takes over.                                                   *)
Charge(f) ==
  /\ DOMAIN self[f] \subseteq DOMAIN self'[f]
  /\ DOMAIN wait'[f] = DOMAIN self'[f]
  /\ \A n \in DOMAIN self'[f] :
       IF n \in DOMAIN self[f]
       THEN LET charged == IF n = top[f] THEN Elapsed ELSE 0 IN
            /\ self'[f][n] = self[f][n] + IF f = current THEN charged ELSE 0
            /\ wait'[f][n] = wait[f][n] + IF f = current THEN 0 ELSE charged
       ELSE self'[f][n] = 0 /\ wait'[f][n] >= 0

(* After a reading any fiber may be running, with any node on top.         *)
Read ==
  /\ clock' >= clock
  /\ \A f \in Fibers : Charge(f)
  /\ \A f \in Fibers : top'[f] = 0 \/ top'[f] \in DOMAIN self'[f]
  /\ current' \in Fibers \cup {Nobody}

(* A new profile of fiber f begins. *)
Reset(f) ==
  /\ current = Nobody
  /\ current' = f
  /\ self' = [self EXCEPT ![f] = <<>>]
  /\ wait' = [wait EXCEPT ![f] = <<>>]
  /\ top' = [top EXCEPT ![f] = 0]
  /\ UNCHANGED clock

Next == Read \/ \E f \in Fibers : Reset(f)

Spec == Init /\ [][Next]_ledger
=============================================================================
