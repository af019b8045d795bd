---------------------------- MODULE CallTreeSums ----------------------------
(***************************************************************************)
(* What merging promises, without nodes and pointers: a thread's result is *)
(* a measurement per path of methods from its root and one per method, and *)
(* merge! adds up the results of the profile's threads that have the same  *)
(* root method, until there is one thread per root.                        *)
(***************************************************************************)
EXTENDS Sequences, Integers

CONSTANTS
  Threads,        \* the thread objects
  MaxCalls        \* bound: how many calls are made

VARIABLES
  listed,         \* the profile's threads, in the order of its table
  paths,          \* the measurement of each path of each thread
  totals,         \* the measurement of each method of each thread
  calls,          \* how many calls were made
  merging         \* whether a call of merge! is under way

vars == <<listed, paths, totals, calls, merging>>

Plus(a, b) == [x \in DOMAIN a |-> a[x] + b[x]]

(* Two tables of measurements added up, key by key. *)
AddUp(t, u) ==
  [k \in DOMAIN t \cup DOMAIN u |->
     CASE k \notin DOMAIN u -> t[k]
       [] k \notin DOMAIN t -> u[k]
       [] OTHER -> Plus(t[k], u[k])]

Listed == {listed[i] : i \in DOMAIN listed}
RootOf(t) == CHOOSE k \in DOMAIN totals[t] : <<k>> \in DOMAIN paths[t]
SameRoot(t, u) == RootOf(t) = RootOf(u)

Without(seq, t) == SelectSeq(seq, LAMBDA u : u # t)

Add(t) ==
  /\ ~merging /\ calls < MaxCalls /\ t \notin Listed
  /\ listed' = Append(listed, t)
  /\ calls' = calls + 1
  /\ UNCHANGED <<paths, totals, merging>>

Remove(t) ==
  /\ ~merging /\ calls < MaxCalls /\ t \in Listed
  /\ listed' = Without(listed, t)
  /\ calls' = calls + 1
  /\ UNCHANGED <<paths, totals, merging>>

BeginMerge ==
  /\ ~merging /\ calls < MaxCalls
  /\ calls' = calls + 1
  /\ merging' = TRUE
  /\ UNCHANGED <<listed, paths, totals>>

(* The first thread of a group takes over the results of a later one. *)
MergeInto(t, u) ==
  /\ merging
  /\ \E i, j \in DOMAIN listed :
       /\ i < j /\ listed[i] = t /\ listed[j] = u
       /\ \A h \in 1..(i - 1) : ~SameRoot(listed[h], t)
  /\ SameRoot(t, u)
  /\ paths' = [paths EXCEPT ![t] = AddUp(@, paths[u])]
  /\ totals' = [totals EXCEPT ![t] = AddUp(@, totals[u])]
  /\ listed' = Without(listed, u)
  /\ UNCHANGED <<calls, merging>>

EndMerge ==
  /\ merging
  /\ \A i, j \in DOMAIN listed : SameRoot(listed[i], listed[j]) => i = j
  /\ merging' = FALSE
  /\ UNCHANGED <<listed, paths, totals, calls>>

Next ==
  \/ BeginMerge
  \/ EndMerge
  \/ \E t \in Threads : Add(t) \/ Remove(t)
  \/ \E t, u \in Threads : MergeInto(t, u)

(* The results are those of a finished profile, whatever they are. *)
Init == listed \in Seq(Threads) /\ calls = 0 /\ merging = FALSE

Spec == Init /\ [][Next]_vars
=============================================================================
