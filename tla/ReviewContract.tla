--------------------------- MODULE ReviewContract ---------------------------
(***************************************************************************)
(* What the review pipeline promises about each job, without tables,       *)
(* workers, leases or restarts:                                            *)
(*                                                                         *)
(*   absent -> open -> closed                       cancelled or failed    *)
(*                  -> analysed                     a report and no comment*)
(*                  -> delivering -> delivered      the comment exists     *)
(*                                -> undeliverable  it may exist or not    *)
(*                                                                         *)
(* and a comment appears only for a job that has reached delivering.       *)
(***************************************************************************)
CONSTANT Jobs

VARIABLES
  stage,   \* where each job stands
  posted   \* its comment is on GitHub

Stages == {"absent", "open", "closed", "analysed", "delivering", "delivered",
           "undeliverable"}

contractVars == <<stage, posted>>

ContractInit ==
  /\ stage  = [j \in Jobs |-> "absent"]
  /\ posted = [j \in Jobs |-> FALSE]

Moves == {<<"absent", "open">>, <<"open", "closed">>, <<"open", "analysed">>,
          <<"open", "delivering">>, <<"delivering", "delivered">>,
          <<"delivering", "undeliverable">>}

Move(j) ==
  /\ <<stage[j], stage'[j]>> \in Moves
  /\ stage'[j] = "delivered" => posted[j]

\* GitHub may apply a create request in the step that gives the job up, or
\* long after; a comment stays.
Publication(j) ==
  \/ posted'[j] = posted[j]
  \/ posted'[j] /\ stage[j] \in {"delivering", "delivered", "undeliverable"}

\* A batch claim, a restart or the end of the process concerns many jobs.
ContractNext ==
  /\ stage'  \in [Jobs -> Stages]
  /\ posted' \in [Jobs -> BOOLEAN]
  /\ \A j \in Jobs : (Move(j) \/ stage'[j] = stage[j]) /\ Publication(j)

ContractSpec == ContractInit /\ [][ContractNext]_contractVars
=============================================================================
