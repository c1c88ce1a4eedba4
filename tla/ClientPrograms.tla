--------------------------- MODULE ClientPrograms ---------------------------
(***************************************************************************)
(* What the keys of a client sign: the payments of checkedX402Call, and    *)
(* the policies, rules and tokens of an operator.  A call and the commands *)
(* share no state, nor do the three books of revisions, so a behaviour     *)
(* that interleaves them is one of each; here a behaviour follows the call *)
(* or the commands about one book.                                         *)
(***************************************************************************)
EXTENDS CheckedCall, OperatorClient

VARIABLE client   \* what is followed

ClientsInit ==
  /\ OperatorInit
  /\ \/ client = "call" /\ CallInit
     \/ client \in Books /\ Begin(CHOOSE c \in Cases : TRUE) /\ CallAt("none")

ClientsNext ==
  /\ \/ client = "call" /\ CallNext /\ UNCHANGED operatorVars
     \/ /\ client \in Books /\ UNCHANGED callVars
        /\ OperatorSteps({i \in Intents : BookOf(i) = client})
  /\ UNCHANGED client

ClientsSpec == ClientsInit /\ [][ClientsNext]_<<callVars, operatorVars, client>>
=============================================================================
