----------------------------- MODULE MCHostAll -----------------------------
(***************************************************************************)
(* Three scenarios on a host, one of which is chosen at the start: two     *)
(* command lines with everything an installed host is used for; one that   *)
(* changes an installation by setup, activation, configuration and         *)
(* uninstall; one that starts from nothing.                                *)
(***************************************************************************)
EXTENDS MCHost, FiniteSets, TLC

VARIABLE scenario

Installing == {"setup", "menu", "activate", "configure", "uninstall"}

\* from: the versions installed at the start; procs, ops, crashes: bounds.
Scenario ==
  [use     |-> [from |-> {1}, procs |-> 2, ops |-> 2, crashes |-> 1,
                kinds |-> {"update", "deploy", "rollback", "enable", "repair", "disable",
                           "import", "reset", "optimize", "migrate", "backup", "start",
                           "stop", "restart"}],
   change  |-> [from |-> {1, 2}, procs |-> 1, ops |-> 2, crashes |-> 1, kinds |-> Installing],
   install |-> [from |-> {}, procs |-> 1, ops |-> 3, crashes |-> 0, kinds |-> Installing]]

MCInit ==
  /\ Init /\ scenario \in DOMAIN Scenario
  /\ IF disk.link = None THEN scenario = "install"
     ELSE Version[disk.link] \in Scenario[scenario].from

\* Operations of the scenario, and no more than it allows.
InScenario ==
  /\ ops' <= Scenario[scenario].ops
  /\ crashes' <= Scenario[scenario].crashes
  /\ LET atWork == {p \in Procs : proc'[p].at # "idle"}
     IN /\ Cardinality(atWork) <= Scenario[scenario].procs
        /\ \A p \in atWork : proc'[p].op \in Scenario[scenario].kinds

Quiet == ops = Scenario[scenario].ops /\ Resting0 /\ UNCHANGED hostVars

MCNext == ((Next /\ InScenario) \/ Quiet) /\ UNCHANGED scenario

MCSpec == MCInit /\ [][MCNext]_<<hostVars, scenario>>

\* While only operations on an installed host are used, the installation file tells the
\* version of the release the link points to: no update, rollback, repair or database
\* operation, nor two of them, leaves it of another one.
LinkInstKept == scenario = "use" => LinkInstAgree

Symmetry == Permutations(Procs)
=============================================================================
