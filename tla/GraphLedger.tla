---------------------------- MODULE GraphLedger ----------------------------
(***************************************************************************)
(* What the Graph queue promises, without rows, clocks or leases: jobs are *)
(* opened, at most one client at a time holds one of them, only the client *)
(* that holds a job completes it, and a job that left the ledger, done or  *)
(* given up, is never open again.  GraphJobs implements this ledger.       *)
(***************************************************************************)
EXTENDS Integers

CONSTANT Clients

VARIABLES
  next,     \* the first job number not handed out yet
  open,     \* jobs that still may be worked on
  holders,  \* <<job, client>>: who holds what now
  done      \* completed jobs

ledger == <<next, open, holders, done>>

Init ==
  /\ next = 1
  /\ open = {}
  /\ holders = {}
  /\ done = {}

Add ==
  /\ next' > next
  /\ open' = open \cup (next .. next' - 1)
  /\ UNCHANGED <<holders, done>>

\* Nobody holds a job: j goes to a client, hopeless jobs are given up on the way.
Grant ==
  /\ holders = {}
  /\ open' \subseteq open
  /\ \E c \in Clients, j \in open' : holders' = {<<j, c>>}
  /\ UNCHANGED <<next, done>>

Lose ==
  /\ holders' = {}
  /\ UNCHANGED <<next, open, done>>

Complete ==
  /\ \E h \in holders :
       /\ done' = done \cup {h[1]}
       /\ open' = open \ {h[1]}
  /\ holders' = {}
  /\ UNCHANGED next

GiveUp ==
  /\ open' \subseteq open
  /\ holders' = {h \in holders : h[1] \in open'}
  /\ UNCHANGED <<next, done>>

\* Everything is thrown away and the work starts over under new numbers.
StartOver ==
  /\ next' >= next
  /\ open' = next .. next' - 1
  /\ holders' = {}
  /\ done' = {}

Next == Add \/ Grant \/ Lose \/ Complete \/ GiveUp \/ StartOver

Spec == Init /\ [][Next]_ledger
=============================================================================
